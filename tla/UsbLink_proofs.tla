--------------------------- MODULE UsbLink_proofs ---------------------------
(***************************************************************************)
(* Proofs about the USB host and the link above it, for every number of    *)
(* plug-ins, failed transfers and requests of the user, when no interrupt  *)
(* and no task of the other core comes into the gaps named by Races: the   *)
(* types, and that nothing stops the board.                                *)
(*                                                                         *)
(* The invariant has five parts: the port with the task usb_lib; the       *)
(* device from its enumeration to its end; the flags on their way to the   *)
(* client; the pipes; and who holds the handle.                            *)
(***************************************************************************)
EXTENDS UsbLink, TLAPS

-----------------------------------------------------------------------------
(* The types *)

HubFlags == {"root", "recover", "enum"}
DevFlags == {"halt", "flush", "dequeue", "clear", "gone", "free", "new"}
PortObject == [state: {"disconnected", "disabled", "resetting", "enabled", "recovery"},
               event: {"none", "connection", "disconnection", "error"}, locked: BOOLEAN, again: BOOLEAN]
PipeObject == [state: {"none", "active", "halted"}, urb: {"idle", "inflight"} \cup Finished,
               pending: BOOLEAN, error: BOOLEAN]
HubObject == [state: {"powered", "enum", "enum failed", "active", "recovery"}, actions: SUBSET HubFlags,
              stage: {"none", "start", "get", "check", "get string", "check string", "cleanup", "cleanup failed"}]
DevObject == [there: BOOLEAN, listed: BOOLEAN, pending: BOOLEAN, gone: BOOLEAN, ref: 0..1, ctrl: 0..1,
              actions: SUBSET DevFlags]
LibObject == [at: {"wait", "usbh", "device", "hub take", "hub", "debounce", "reset", "resetting"},
              todo: SUBSET {"usbh", "hub"}, acts: SUBSET (HubFlags \cup DevFlags)]
ClientObject == [at: {"wait", "callback", "closeDev", "halt", "release", "remove"}, ep: Endpoints \cup {"none"}]
EngineObject == [at: {"idle", "closeDev", "halt", "release", "remove", "closed", "failed", "find", "claim", "submit",
                      "assign", "setup", "waiting", "writing"},
                 handle: {"none", "live", "stale"}, left: 0..SETUPS, failed: BOOLEAN]

CountTyped == /\ plugged \in BOOLEAN /\ plugs \in 0..MaxPlugs /\ faults \in 0..MaxFaults /\ faulted \in BOOLEAN
              /\ requests \in 0..MaxRequests
PortTyped == port \in PortObject
PipesTyped == pipes \in [Pipes -> PipeObject]
HubTyped == hub \in HubObject
DevTyped == dev \in DevObject
LibTyped == lib \in LibObject /\ work \subseteq {"usbh", "hub"}
MsgTyped == msgs \in {<<>>, <<"gone">>} /\ ctrlDone \in [there: BOOLEAN, ok: BOOLEAN]
LinkTyped == /\ cdc \in {"none", "claimed", "open", "closing"} /\ handle \in {"none", "live", "stale"} /\ devGone \in BOOLEAN
             /\ ioMtx \in {"free", "engine", "client"}
             /\ gState \in {"IDLE", "DISCONNECTED"} /\ userDisconnected \in BOOLEAN
TasksTyped == /\ client \in ClientObject /\ engine \in EngineObject
              /\ semaphore \in [out: BOOLEAN, ctrl: {"none", "ok", "failed"}]

-----------------------------------------------------------------------------
(* The invariant *)

InHub == lib.at \in {"hub", "debounce", "reset", "resetting"}
InLib(a) == InHub /\ a \in lib.acts
LibFlags == IF lib.at = "device" THEN lib.acts ELSE {}
Off(p) == pipes[p].state = "none" /\ pipes[p].urb = "idle" /\ ~pipes[p].pending /\ ~pipes[p].error
IdleDev == ~dev.pending /\ ~dev.gone /\ dev.ref = 0 /\ dev.ctrl = 0 /\ dev.actions = {}

LibInv ==
    /\ lib.at \in {"wait", "usbh", "hub take"} => lib.acts = {}
    /\ lib.at = "device" => lib.acts \subseteq DevFlags /\ dev.listed
    /\ InHub => lib.acts \subseteq HubFlags

PortInv ==
    /\ port.state = "enabled" => hub.state \in {"enum", "enum failed", "active"}
    /\ port.state \in {"disconnected", "disabled", "resetting"} => hub.state = "powered"
    /\ port.event \in {"disconnection", "error"} => port.state = "recovery"
    /\ port.event = "connection" => port.state = "disconnected" /\ port.locked
    /\ port.state = "recovery" /\ port.event = "none" => hub.state = "recovery"
    /\ port.again => port.state = "recovery"
ResetInv ==
    /\ lib.at = "debounce" => port.state = "disconnected" /\ port.locked /\ port.event = "none"
    /\ lib.at \in {"reset", "resetting"} => hub.state = "powered"
EventInv ==
    /\ port.event # "none" => "root" \in hub.actions \/ (lib.at = "hub" /\ "root" \in lib.acts)
    /\ lib.at = "hub" /\ "recover" \in lib.acts /\ "root" \notin lib.acts => port.event = "none"
StageInv == hub.stage # "none" => hub.state = "enum" \/ (hub.state = "recovery" /\ hub.stage = "cleanup failed")

RecoverInv ==
    /\ "recover" \in hub.actions \/ InLib("recover") => hub.state = "recovery" /\ hub.stage = "none" /\ ~dev.there
    /\ ~("recover" \in hub.actions /\ InLib("recover"))

DevInv ==
    /\ ~dev.listed => IdleDev
    /\ ~dev.there => ~dev.listed /\ hub.stage \in {"none", "start", "cleanup failed"} /\ hub.state # "active"
    /\ ~dev.there => pipes["ep0"].state = "none" /\ pipes["ep0"].urb = "idle"
    /\ dev.there /\ ~dev.listed => hub.stage \notin {"none", "start"} /\ hub.state \in {"enum", "recovery"}
    /\ dev.listed => dev.there /\ hub.stage = "none" /\ hub.state = IF dev.gone THEN "recovery" ELSE "active"
EnumInv ==
    /\ hub.stage \in {"get", "get string", "cleanup"} => pipes["ep0"].urb = "idle"
    /\ hub.stage \in {"get", "get string"} => ~("enum" \in hub.actions /\ InLib("enum"))
    /\ hub.stage \in {"check", "check string"} /\ ("enum" \in hub.actions \/ InLib("enum")) => pipes["ep0"].urb \in Finished

FlagsOf(s) == ("gone" \in s => dev.gone) /\ ("free" \in s => dev.gone /\ dev.ref = 0) /\ ("halt" \in s => "gone" \in s)
ActInv ==
    /\ ~dev.pending => dev.actions = {}
    /\ FlagsOf(dev.actions) /\ FlagsOf(LibFlags)
    /\ "gone" \in dev.actions => "halt" \in dev.actions
Closing == {"closeDev", "halt", "release", "remove"}
Leaving == "gone" \in dev.actions \/ "gone" \in LibFlags \/ msgs # <<>> \/ client.at \in Closing
GoneInv == Leaving => hub.state \in {"recovery", "powered"} /\ lib.at \notin {"reset", "resetting"}
GoneOnce ==
    /\ "gone" \in dev.actions => "gone" \notin LibFlags /\ msgs = <<>>
    /\ "gone" \in LibFlags => msgs = <<>>
QuietInv == ("gone" \in LibFlags /\ "halt" \notin LibFlags) \/ msgs # <<>> => \A p \in Endpoints : pipes[p].urb # "inflight"
ClosedInv == client.at \in Closing => \A p \in Endpoints : pipes[p].urb = "idle" /\ ~pipes[p].pending

PipeAt(p) ==
    /\ pipes[p].pending => pipes[p].urb \in Finished
    /\ pipes[p].urb \in Finished => pipes[p].pending \/ client.ep = p
    /\ client.ep = p => pipes[p].urb \in Finished /\ ~pipes[p].pending
    /\ pipes[p].error => pipes[p].pending /\ pipes[p].state = "halted"
    /\ pipes[p].state = "none" => Off(p)
PipeInv == \A p \in Endpoints : PipeAt(p)
ClientInv == client.at = "callback" <=> client.ep # "none"
InterfaceInv == cdc = "none" \/ engine.at = "remove" \/ client.at = "remove" => \A p \in Endpoints : Off(p)

EngineCloser == engine.at \in {"halt", "release", "remove"}
ClientCloser == client.at \in {"halt", "release", "remove"}
Opening == engine.at \in {"find", "claim", "submit", "assign"}
HandleInv ==
    /\ handle \in {"none", "live"}
    /\ engine.handle = IF engine.at \in {"waiting", "writing"} THEN "live" ELSE "none"
    /\ handle = "live" => cdc = "open" /\ ~Opening /\ ~EngineCloser /\ ~ClientCloser
    /\ engine.at \in {"waiting", "writing"} => handle = "live"
    /\ engine.at = "waiting" => engine.left > 0
MutexInv ==
    /\ ioMtx = "client" <=> ClientCloser
    /\ ioMtx = "engine" <=> EngineCloser \/ engine.at = "writing"
CdcInv ==
    /\ cdc = "claimed" <=> engine.at = "submit"
    /\ cdc = "open" <=> handle = "live" \/ engine.at \in {"assign", "halt"} \/ client.at = "halt"
    /\ cdc = "closing" <=> engine.at \in {"release", "remove"} \/ client.at \in {"release", "remove"}
    /\ engine.at = "claim" => cdc = "none"
    /\ ClientCloser => engine.at \notin {"claim", "submit", "assign"}
RefInv ==
    /\ dev.ref = IF cdc # "none" \/ engine.at = "claim" THEN 1 ELSE 0
    /\ dev.ref = 1 => dev.listed
SubmitInv == engine.at = "submit" => Enabled /\ pipes["in"].state = "active" /\ pipes["in"].urb = "idle"
WaitInv ==
    /\ dev.ctrl = IF dev.listed /\ pipes["ep0"].urb # "idle" THEN 1 ELSE 0
    /\ dev.ctrl = 1 \/ ctrlDone.there => engine.at = "waiting" /\ semaphore.ctrl = "none"
    /\ ctrlDone.there => dev.ctrl = 0

Typed == /\ CountTyped /\ PortTyped /\ PipesTyped /\ HubTyped /\ DevTyped /\ LibTyped /\ MsgTyped
         /\ LinkTyped /\ TasksTyped
Inv == /\ Typed
       /\ LibInv /\ PortInv /\ ResetInv /\ EventInv /\ StageInv
       /\ RecoverInv /\ DevInv /\ EnumInv
       /\ ActInv /\ GoneInv /\ GoneOnce
       /\ QuietInv /\ ClosedInv /\ PipeInv /\ ClientInv /\ InterfaceInv /\ SubmitInv
       /\ HandleInv /\ MutexInv /\ CdcInv /\ RefInv /\ WaitInv

USE DEF Finished

-----------------------------------------------------------------------------
(* What a step does to the records *)

-----------------------------------------------------------------------------
(* What the operations of the model do, field by field *)

LEMMA SetFlags ==
    ASSUME NEW d \in DevObject, NEW a, a \subseteq DevFlags
    PROVE  /\ d.pending => SetActions(d, a) = d
           /\ ~d.pending => /\ SetActions(d, a) \in DevObject
                            /\ (SetActions(d, a).there <=> d.there) /\ (SetActions(d, a).listed <=> d.listed)
                            /\ (SetActions(d, a).gone <=> d.gone)
                            /\ SetActions(d, a).ref = d.ref /\ SetActions(d, a).ctrl = d.ctrl
                            /\ SetActions(d, a).pending /\ SetActions(d, a).actions = a
BY DEF SetActions, DevObject

LEMMA RetiredPipe ==
    ASSUME NEW r \in PipeObject
    PROVE  /\ Retired(r) \in PipeObject /\ Retired(r).state = "halted"
           /\ r.urb = "inflight" => Retired(r).urb = "retired" /\ Retired(r).pending /\ ~Retired(r).error
           /\ r.urb # "inflight" => /\ Retired(r).urb = r.urb /\ (Retired(r).pending <=> r.pending)
                                    /\ (Retired(r).error <=> r.error)
BY DEF Retired, PipeObject

LEMMA ClearedPipe ==
    ASSUME NEW r \in PipeObject
    PROVE  /\ Cleared(r) \in PipeObject /\ Cleared(r).state = IF Enabled THEN "active" ELSE r.state
           /\ Cleared(r).urb = r.urb /\ (Cleared(r).pending <=> r.pending) /\ (Cleared(r).error <=> r.error)
BY DEF Cleared, PipeObject

LEMMA OnePipe ==
    ASSUME PipesTyped, NEW p \in Pipes, NEW r \in PipeObject, pipes' = [pipes EXCEPT ![p] = r]
    PROVE  PipesTyped' /\ pipes'[p] = r /\ \A q \in Pipes \ {p} : pipes'[q] = pipes[q]
BY DEF PipesTyped

\* The poll or the write is cancelled: halt, flush, clear.
Cancelled(p) ==
    /\ PipesTyped' /\ \A q \in Pipes \ {p} : pipes'[q] = pipes[q]
    /\ pipes'[p].state \in {"active", "halted"}
    /\ pipes[p].urb = "inflight" => pipes'[p].urb = "retired" /\ pipes'[p].pending /\ ~pipes'[p].error
    /\ pipes[p].urb # "inflight" => /\ pipes'[p].urb = pipes[p].urb /\ (pipes'[p].pending <=> pipes[p].pending)
                                    /\ (pipes'[p].error <=> pipes[p].error)

LEMMA CancelStep ==
    ASSUME PipesTyped, NEW p \in Endpoints, pipes' = [pipes EXCEPT ![p] = Cleared(Retired(@))]
    PROVE  Cancelled(p)
<1> USE DEF Cancelled
<1> DEFINE r == Cleared(Retired(pipes[p]))
<1>1. pipes[p] \in PipeObject /\ p \in Pipes
  BY DEF PipesTyped, Pipes, Endpoints
<1>2. /\ r \in PipeObject /\ r.state = IF Enabled THEN "active" ELSE Retired(pipes[p]).state
      /\ r.urb = Retired(pipes[p]).urb /\ (r.pending <=> Retired(pipes[p]).pending) /\ (r.error <=> Retired(pipes[p]).error)
  BY <1>1, RetiredPipe, ClearedPipe
<1>3. pipes' = [pipes EXCEPT ![p] = r]
  OBVIOUS
<1> HIDE DEF r
<1>4. PipesTyped' /\ pipes'[p] = r /\ \A q \in Pipes \ {p} : pipes'[q] = pipes[q]
  BY <1>1, <1>2, <1>3, OnePipe
<1> QED BY <1>1, <1>2, <1>4, RetiredPipe

\* A transfer goes out on pipe p.
Submitted(p) ==
    /\ PipesTyped' /\ \A q \in Pipes \ {p} : pipes'[q] = pipes[q]
    /\ pipes'[p].urb = "inflight" /\ pipes'[p].state = pipes[p].state
    /\ (pipes'[p].pending <=> pipes[p].pending) /\ (pipes'[p].error <=> pipes[p].error)

LEMMA SubmitStep ==
    ASSUME PipesTyped, NEW p \in Pipes, pipes' = [pipes EXCEPT ![p].urb = "inflight"]
    PROVE  Submitted(p)
<1> USE DEF Submitted
<1> DEFINE r == [pipes[p] EXCEPT !.urb = "inflight"]
<1>1. /\ r \in PipeObject /\ r.urb = "inflight" /\ r.state = pipes[p].state
      /\ (r.pending <=> pipes[p].pending) /\ (r.error <=> pipes[p].error)
  BY DEF PipesTyped, PipeObject
<1>2. pipes' = [pipes EXCEPT ![p] = r]
  OBVIOUS
<1> HIDE DEF r
<1>3. PipesTyped' /\ pipes'[p] = r /\ \A q \in Pipes \ {p} : pipes'[q] = pipes[q]
  BY <1>1, <1>2, OnePipe
<1> QED BY <1>1, <1>3

\* cdc_acm_device_remove, with no control transfer in flight
Removed ==
    /\ DevTyped' /\ dev.ref = 1 /\ dev'.ref = 0 /\ dev'.ctrl = 0 /\ cdc' = "none" /\ panic' = panic
    /\ (dev'.there <=> dev.there) /\ (dev'.listed <=> dev.listed) /\ (dev'.gone <=> dev.gone)
    /\ (dev.gone => dev'.pending) /\ (~dev.gone => (dev'.pending <=> dev.pending))
    /\ dev'.actions = IF dev.gone /\ ~dev.pending THEN {"free"} ELSE dev.actions
    /\ work' \subseteq {"usbh", "hub"}

LEMMA RemoveStep ==
    ASSUME DevTyped, LibTyped, dev.ref = 1, dev.ctrl = 0, RemovesDevice
    PROVE  Removed
<1> USE DEF Removed
<1> DEFINE d == [dev EXCEPT !.ref = @ - 1]
<1>1. /\ d \in DevObject /\ d.ref = 0 /\ d.ctrl = 0 /\ (d.there <=> dev.there) /\ (d.listed <=> dev.listed)
      /\ (d.gone <=> dev.gone) /\ (d.pending <=> dev.pending) /\ d.actions = dev.actions
  BY DEF DevTyped, DevObject
<1>2. ClosedDevice(dev) = IF d.gone THEN SetActions(d, {"free"}) ELSE d
  BY <1>1 DEF ClosedDevice, LastClosed
<1>3. dev' = ClosedDevice(dev) /\ cdc' = "none" /\ panic' = panic /\ work' \subseteq {"usbh", "hub"}
  BY DEF RemovesDevice, CloseFails, Notify, LibTyped
<1> HIDE DEF d
<1>4. {"free"} \subseteq DevFlags
  BY DEF DevFlags
<1>5. dev.gone \in BOOLEAN /\ dev.pending \in BOOLEAN
  BY DEF DevTyped, DevObject
<1>6. CASE d.gone
  <2>1. dev' = SetActions(d, {"free"})
    BY <1>2, <1>3, <1>6
  <2>2. CASE dev.pending
    BY <1>1, <1>3, <1>4, <1>5, <1>6, <2>1, <2>2, SetFlags DEF DevTyped
  <2>3. CASE ~dev.pending
    BY <1>1, <1>3, <1>4, <1>5, <1>6, <2>1, <2>3, SetFlags DEF DevTyped
  <2> QED BY <2>2, <2>3
<1>7. CASE ~d.gone
  BY <1>1, <1>2, <1>3, <1>5, <1>7 DEF DevTyped
<1> QED BY <1>6, <1>7

\* The callback of a pipe asks the task usb_lib to go on with the device, or with its enumeration.
CalledBack(p, flags) ==
    /\ DevTyped' /\ HubTyped' /\ work' \subseteq {"usbh", "hub"}
    /\ (dev'.there <=> dev.there) /\ (dev'.listed <=> dev.listed) /\ (dev'.gone <=> dev.gone)
    /\ dev'.ref = dev.ref /\ dev'.ctrl = dev.ctrl
    /\ \/ (dev'.pending <=> dev.pending) /\ dev'.actions = dev.actions
       \/ ~dev.pending /\ dev.listed /\ dev'.pending /\ dev'.actions = flags
    /\ hub'.state = hub.state /\ hub'.stage = hub.stage
    /\ hub'.actions = IF p = "ep0" /\ ~dev.listed THEN hub.actions \cup {"enum"} ELSE hub.actions
    /\ p # "ep0" => dev' = dev

LEMMA CallbackStep ==
    ASSUME DevTyped, HubTyped, LibTyped, NEW p \in Pipes, NEW flags, flags \subseteq DevFlags, Callback(p, flags)
    PROVE  CalledBack(p, flags)
<1> USE DEF CalledBack
<1>1. CASE p # "ep0"
  BY <1>1 DEF Callback, DevTyped, HubTyped, LibTyped
<1>2. CASE p = "ep0" /\ dev.listed
  <2>1. /\ dev' = SetActions(dev, flags) /\ hub' = hub
        /\ work' \subseteq {"usbh", "hub"}
    BY <1>2 DEF Callback, Notify, LibTyped
  <2>2. dev \in DevObject
    BY DEF DevTyped
  <2>3. CASE dev.pending
    BY <1>2, <2>1, <2>2, <2>3, SetFlags DEF DevTyped, HubTyped
  <2>4. CASE ~dev.pending
    BY <1>2, <2>1, <2>2, <2>4, SetFlags DEF DevTyped, HubTyped
  <2> QED BY <2>3, <2>4
<1>3. CASE p = "ep0" /\ ~dev.listed
  <2>1. /\ dev' = dev /\ hub' = [hub EXCEPT !.actions = @ \cup {"enum"}]
        /\ work' \subseteq {"usbh", "hub"}
    BY <1>3 DEF Callback, Notify, LibTyped
  <2>2. HubTyped' /\ hub'.state = hub.state /\ hub'.stage = hub.stage /\ hub'.actions = hub.actions \cup {"enum"}
    BY <2>1 DEF HubTyped, HubObject, HubFlags
  <2> QED BY <1>3, <2>1, <2>2 DEF DevTyped
<1> QED BY <1>1, <1>2, <1>3

\* A transfer on pipe p ends, well or not.
Answered(p) ==
    /\ PipesTyped' /\ DevTyped' /\ HubTyped' /\ work' \subseteq {"usbh", "hub"}
    /\ Enabled /\ pipes[p].urb = "inflight" /\ pipes'[p].urb \in {"ok", "error", "stall"}
    /\ pipes'[p].state \in {pipes[p].state, "halted"}
    /\ p \in Endpoints => pipes'[p].pending
    /\ pipes'[p].error => pipes'[p].state = "halted"
    /\ \A q \in Pipes \ {p} : pipes'[q] = pipes[q]
    /\ (dev'.there <=> dev.there) /\ (dev'.listed <=> dev.listed) /\ (dev'.gone <=> dev.gone)
    /\ dev'.ref = dev.ref /\ dev'.ctrl = dev.ctrl
    /\ \/ (dev'.pending <=> dev.pending) /\ dev'.actions = dev.actions
       \/ /\ ~dev.pending /\ dev.listed /\ dev'.pending
          /\ dev'.actions \subseteq {"flush", "dequeue", "clear"}
    /\ hub'.state = hub.state /\ hub'.stage = hub.stage
    /\ hub'.actions = IF p = "ep0" /\ ~dev.listed THEN hub.actions \cup {"enum"} ELSE hub.actions
    /\ p # "ep0" => dev' = dev
    /\ plugged' = plugged /\ plugs' = plugs /\ port' = port /\ lib' = lib
    /\ msgs' = msgs /\ ctrlDone' = ctrlDone /\ panic' = panic

LEMMA AnswerStep ==
    ASSUME PipesTyped, DevTyped, HubTyped, LibTyped,
           Stalls \/ (\E p \in Pipes : Completes(p) \/ Fails(p))
    PROVE  \E p \in Pipes : Answered(p)
<1>0. "ep0" \in Pipes /\ {"dequeue"} \subseteq DevFlags
      /\ {"dequeue", "clear"} \subseteq DevFlags /\ {"flush", "dequeue", "clear"} \subseteq DevFlags
  BY DEF Pipes, DevFlags
<1>1. ASSUME NEW p \in Pipes, Completes(p)
      PROVE  Answered(p)
  <2> DEFINE r == [pipes[p] EXCEPT !.urb = "ok", !.pending = p \in Endpoints, !.error = FALSE]
  <2>1. (p \in Endpoints) \in BOOLEAN
    OBVIOUS
  <2>2. /\ r \in PipeObject /\ r.urb = "ok" /\ r.state = pipes[p].state /\ (r.pending <=> p \in Endpoints)
        /\ ~r.error
    BY <2>1 DEF PipesTyped, PipeObject
  <2>3. /\ Enabled /\ pipes[p].urb = "inflight" /\ pipes' = [pipes EXCEPT ![p] = r]
        /\ Callback(p, {"dequeue"})
        /\ plugged' = plugged /\ plugs' = plugs /\ port' = port /\ lib' = lib
        /\ msgs' = msgs /\ ctrlDone' = ctrlDone /\ panic' = panic
    BY <1>1 DEF Completes
  <2> HIDE DEF r
  <2>4. PipesTyped' /\ pipes'[p] = r /\ \A q \in Pipes \ {p} : pipes'[q] = pipes[q]
    BY <2>2, <2>3, OnePipe
  <2>5. CalledBack(p, {"dequeue"})
    BY <1>0, <2>3, CallbackStep
  <2> QED BY <1>0, <2>2, <2>3, <2>4, <2>5 DEF Answered, CalledBack
<1>2. ASSUME NEW p \in Pipes, Fails(p)
      PROVE  Answered(p)
  <2> DEFINE r == [pipes[p] EXCEPT !.state = "halted", !.urb = "error", !.pending = p \in Endpoints,
                                   !.error = p \in Endpoints]
  <2>1. (p \in Endpoints) \in BOOLEAN
    OBVIOUS
  <2>2. /\ r \in PipeObject /\ r.urb = "error" /\ r.state = "halted" /\ (r.pending <=> p \in Endpoints)
    BY <2>1 DEF PipesTyped, PipeObject
  <2>3. /\ Enabled /\ pipes[p].urb = "inflight" /\ pipes' = [pipes EXCEPT ![p] = r]
        /\ Callback(p, {"flush", "dequeue", "clear"})
        /\ plugged' = plugged /\ plugs' = plugs /\ port' = port /\ lib' = lib
        /\ msgs' = msgs /\ ctrlDone' = ctrlDone /\ panic' = panic
    <3>1. pipes' = [pipes EXCEPT ![p] = r]
      BY <1>2 DEF Fails
    <3> QED BY <1>2, <3>1 DEF Fails
  <2> HIDE DEF r
  <2>4. PipesTyped' /\ pipes'[p] = r /\ \A q \in Pipes \ {p} : pipes'[q] = pipes[q]
    BY <2>2, <2>3, OnePipe
  <2>5. CalledBack(p, {"flush", "dequeue", "clear"})
    BY <1>0, <2>3, CallbackStep
  <2> QED BY <1>0, <2>2, <2>3, <2>4, <2>5 DEF Answered, CalledBack
<1>3. ASSUME Stalls
      PROVE  Answered("ep0")
  <2> DEFINE r == [pipes["ep0"] EXCEPT !.state = "halted", !.urb = "stall"]
  <2>2. r \in PipeObject /\ r.urb = "stall" /\ r.state = "halted" /\ (r.pending <=> pipes["ep0"].pending)
    BY <1>0 DEF PipesTyped, PipeObject
  <2>3. /\ Enabled /\ pipes["ep0"].urb = "inflight" /\ pipes' = [pipes EXCEPT !["ep0"] = r]
        /\ Callback("ep0", {"dequeue", "clear"})
        /\ plugged' = plugged /\ plugs' = plugs /\ port' = port /\ lib' = lib
        /\ msgs' = msgs /\ ctrlDone' = ctrlDone /\ panic' = panic
    BY <1>3 DEF Stalls
  <2> HIDE DEF r
  <2>4. PipesTyped' /\ pipes'["ep0"] = r /\ \A q \in Pipes \ {"ep0"} : pipes'[q] = pipes[q]
    BY <1>0, <2>2, <2>3, OnePipe
  <2>5. "ep0" \notin Endpoints
    BY DEF Endpoints
  <2>6. CalledBack("ep0", {"dequeue", "clear"})
    BY <1>0, <2>3, CallbackStep
  <2> QED BY <1>0, <2>2, <2>3, <2>4, <2>5, <2>6 DEF Answered, CalledBack
<1> QED BY <1>0, <1>1, <1>2, <1>3

\* The default pipe of a listed device: its transfers are given up, handed to the client, and the pipe made active again.
LEMMA DefaultPipeStep ==
    ASSUME Inv, DefaultPipe
    PROVE  /\ lib.at = "device" /\ "halt" \notin lib.acts
           /\ lib'.acts = lib.acts \ {"flush", "dequeue", "clear"} /\ lib'.todo = lib.todo
           /\ lib'.at = IF lib'.acts = {} THEN "usbh" ELSE "device"
           /\ PipesTyped' /\ DevTyped' /\ work' \subseteq {"usbh", "hub"} /\ MsgTyped'
           /\ \A p \in Endpoints : pipes'[p] = pipes[p]
           /\ (dev'.there <=> dev.there) /\ (dev'.listed <=> dev.listed) /\ (dev'.gone <=> dev.gone) /\ dev'.ref = dev.ref
           /\ \/ (dev'.pending <=> dev.pending) /\ dev'.actions = dev.actions
              \/ ~dev.pending /\ dev'.pending /\ dev'.actions = {"dequeue"}
           /\ \/ /\ dev.ctrl = 1 /\ dev'.ctrl = 0 /\ pipes'["ep0"].urb = "idle" /\ ctrlDone'.there
              \/ /\ dev'.ctrl = dev.ctrl /\ (pipes'["ep0"].urb = "idle" <=> pipes["ep0"].urb = "idle")
                 /\ ctrlDone' = ctrlDone
           /\ port' = port /\ hub' = hub /\ msgs' = msgs /\ panic' = panic /\ plugged' = plugged
<1> DEFINE flush == "flush" \in lib.acts
           old == pipes["ep0"]
           now == IF flush THEN Retired(old) ELSE old
           done == "dequeue" \in lib.acts /\ now.urb \in Finished
           called == flush /\ old.urb = "inflight"
           r == IF done THEN [now EXCEPT !.urb = "idle", !.pending = FALSE] ELSE now
           s == IF "clear" \in lib.acts THEN Cleared(r) ELSE r
           d == IF called THEN SetActions(dev, {"dequeue"}) ELSE dev
<1> PipesTyped /\ DevTyped /\ LibTyped /\ MsgTyped /\ dev.ctrl = IF pipes["ep0"].urb # "idle" THEN 1 ELSE 0
  BY DEF Inv, Typed, LibInv, WaitInv, DefaultPipe
<1>0. "ep0" \in Pipes /\ "ep0" \notin Endpoints /\ Endpoints \subseteq Pipes /\ {"dequeue"} \subseteq DevFlags
  BY DEF Pipes, Endpoints, DevFlags
<1>1. /\ lib.at = "device" /\ "halt" \notin lib.acts
      /\ lib' = Rest(lib.acts \ {"flush", "dequeue", "clear"}, "usbh")
      /\ pipes' = [pipes EXCEPT !["ep0"] = s]
      /\ ctrlDone' = IF done THEN [there |-> TRUE, ok |-> now.urb = "ok"] ELSE ctrlDone
      /\ dev' = IF done THEN [d EXCEPT !.ctrl = @ - 1] ELSE d
      /\ work' \subseteq {"usbh", "hub"}
      /\ port' = port /\ hub' = hub /\ msgs' = msgs /\ panic' = panic /\ plugged' = plugged
  BY DEF DefaultPipe, Dequeued, Notify, LibTyped
<1>2. /\ lib'.acts = lib.acts \ {"flush", "dequeue", "clear"} /\ lib'.todo = lib.todo
      /\ lib'.at = IF lib'.acts = {} THEN "usbh" ELSE "device"
  BY <1>1 DEF Rest
<1>3. old \in PipeObject /\ dev \in DevObject
  BY <1>0 DEF PipesTyped, DevTyped
<1>4. /\ now \in PipeObject
      /\ called => now.urb = "retired"
      /\ ~called => now.urb = old.urb
  BY <1>3, RetiredPipe
<1>5. /\ r \in PipeObject
      /\ done => r.urb = "idle" /\ old.urb # "idle"
      /\ ~done => r.urb = now.urb
  <2> HIDE DEF now
  <2> QED BY <1>4 DEF PipeObject
<1>6. s \in PipeObject /\ s.urb = r.urb
  <2> HIDE DEF r
  <2> QED BY <1>5, ClearedPipe
<1>7. /\ d \in DevObject /\ (d.there <=> dev.there) /\ (d.listed <=> dev.listed) /\ (d.gone <=> dev.gone) /\ d.ref = dev.ref
      /\ d.ctrl = dev.ctrl
      /\ \/ (d.pending <=> dev.pending) /\ d.actions = dev.actions
         \/ ~dev.pending /\ d.pending /\ d.actions = {"dequeue"}
  <2>1. CASE called /\ ~dev.pending
    <3>1. d = SetActions(dev, {"dequeue"})
      BY <2>1
    <3> HIDE DEF d, called
    <3> QED BY <1>0, <1>3, <2>1, <3>1, SetFlags
  <2>2. CASE ~called \/ dev.pending
    <3>1. d = dev
      BY <1>0, <1>3, <2>2, SetFlags
    <3> HIDE DEF d, called
    <3> QED BY <1>3, <3>1
  <2> QED BY <2>1, <2>2
<1>8. MsgTyped'
  <2>1. (now.urb = "ok") \in BOOLEAN
    OBVIOUS
  <2> QED BY <1>1, <2>1 DEF MsgTyped
<1>9. PipesTyped' /\ pipes'["ep0"] = s /\ \A p \in Endpoints : pipes'[p] = pipes[p]
  <2> HIDE DEF s
  <2> QED BY <1>0, <1>1, <1>6, OnePipe
<1>10. CASE done
  <2>1. /\ dev' = [d EXCEPT !.ctrl = @ - 1] /\ dev.ctrl = 1 /\ ctrlDone' = [there |-> TRUE, ok |-> now.urb = "ok"]
    BY <1>1, <1>5, <1>10
  <2>2. ctrlDone'.there
    BY <2>1
  <2> HIDE DEF d
  <2>3. /\ dev' \in DevObject /\ dev'.ctrl = 0 /\ (dev'.there <=> d.there) /\ (dev'.listed <=> d.listed) /\ (dev'.gone <=> d.gone)
        /\ dev'.ref = d.ref /\ (dev'.pending <=> d.pending) /\ dev'.actions = d.actions
    BY <1>7, <2>1 DEF DevObject
  <2> HIDE DEF done, r, s
  <2> QED BY <1>1, <1>2, <1>5, <1>6, <1>7, <1>8, <1>9, <1>10, <2>1, <2>2, <2>3 DEF DevTyped
<1>11. CASE ~done
  <2>1. dev' = d /\ ctrlDone' = ctrlDone
    BY <1>1, <1>11
  <2>2. s.urb = "idle" <=> old.urb = "idle"
    BY <1>4, <1>5, <1>6, <1>11
  <2> HIDE DEF done, r, s, d
  <2> QED BY <1>1, <1>2, <1>7, <1>8, <1>9, <2>1, <2>2 DEF DevTyped
<1> QED BY <1>10, <1>11

\* The device that is lost is told so, when it is listed; otherwise its enumeration is given up.
LEMMA PortLostStep ==
    ASSUME PortTyped, DevTyped, HubTyped, LibTyped, PortLost
    PROVE  /\ lib.at = "hub" /\ "root" \in lib.acts /\ port.event \in {"disconnection", "error"}
           /\ port'.event = "none" /\ port'.state = port.state /\ (port'.locked <=> port.locked)
           /\ (port'.again <=> port.again)
           /\ lib'.acts = lib.acts \ {"root"} /\ lib'.todo = lib.todo
           /\ lib'.at = IF lib'.acts = {} THEN "hub take" ELSE "hub"
           /\ DevTyped' /\ work' \subseteq {"usbh", "hub"} /\ hub'.state = "recovery"
           /\ (dev'.there <=> dev.there) /\ (dev'.listed <=> dev.listed) /\ dev'.ref = dev.ref /\ dev'.ctrl = dev.ctrl
           /\ \/ /\ hub.state \in {"powered", "enum failed"} /\ hub'.actions = hub.actions \cup {"recover"}
                 /\ hub'.stage = hub.stage /\ dev' = dev
              \/ /\ hub.state = "enum" /\ hub'.actions = hub.actions \cup {"enum"} /\ hub'.stage = "cleanup failed"
                 /\ dev' = dev
              \/ /\ hub.state = "active" /\ hub'.actions = hub.actions /\ hub'.stage = hub.stage
                 /\ dev'.gone /\ dev'.pending
                 /\ \/ dev.pending /\ dev'.actions = dev.actions
                    \/ ~dev.pending /\ dev.ref = 0 /\ dev'.actions = {"free"}
                    \/ ~dev.pending /\ dev.ref # 0 /\ dev'.actions = {"halt", "flush", "dequeue", "gone"}
              \/ hub.state = "recovery" /\ hub' = hub /\ dev' = dev
           /\ pipes' = pipes /\ msgs' = msgs /\ ctrlDone' = ctrlDone /\ panic' = panic
<1> DEFINE e == [dev EXCEPT !.gone = TRUE]
           told == {"halt", "flush", "dequeue", "gone"}
<1>1. /\ lib.at = "hub" /\ "root" \in lib.acts /\ port.event \in {"disconnection", "error"}
      /\ port' = [port EXCEPT !.event = "none"] /\ lib' = Rest(lib.acts \ {"root"}, "hub take")
      /\ pipes' = pipes /\ msgs' = msgs /\ ctrlDone' = ctrlDone /\ panic' = panic
  BY DEF PortLost, HubDone
<1>2. /\ lib'.acts = lib.acts \ {"root"} /\ lib'.todo = lib.todo
      /\ lib'.at = IF lib'.acts = {} THEN "hub take" ELSE "hub"
  BY <1>1 DEF Rest, LibTyped, LibObject
<1>3. /\ port'.event = "none" /\ port'.state = port.state /\ (port'.locked <=> port.locked)
      /\ (port'.again <=> port.again)
  BY <1>1 DEF PortTyped, PortObject
<1>4. CASE hub.state # "active"
  BY <1>1, <1>2, <1>3, <1>4 DEF PortLost, HubTyped, HubObject, DevTyped, LibTyped
<1>5. CASE hub.state = "active"
  <2>1. /\ hub' = [hub EXCEPT !.state = "recovery"] /\ work' \subseteq {"usbh", "hub"}
        /\ dev' = IF dev.ref = 0 THEN SetActions(e, {"free"}) ELSE SetActions(e, told)
    BY <1>5 DEF PortLost, PassedEvent, Notify, LibTyped
  <2>2. hub'.state = "recovery" /\ hub'.actions = hub.actions /\ hub'.stage = hub.stage
    BY <2>1
  <2>3. /\ e \in DevObject /\ (e.there <=> dev.there) /\ (e.listed <=> dev.listed) /\ e.gone
        /\ e.ref = dev.ref /\ e.ctrl = dev.ctrl /\ (e.pending <=> dev.pending) /\ e.actions = dev.actions
    BY DEF DevTyped, DevObject
  <2>4. told \subseteq DevFlags /\ {"free"} \subseteq DevFlags
    BY DEF DevFlags
  <2> HIDE DEF e
  <2>5. /\ dev' \in DevObject /\ (dev'.there <=> e.there) /\ (dev'.listed <=> e.listed) /\ dev'.gone
        /\ dev'.ref = e.ref /\ dev'.ctrl = e.ctrl /\ dev'.pending
    <3>1. CASE dev.pending
      <4>1. dev' = e
        BY <2>1, <2>3, <2>4, <3>1, SetFlags
      <4> QED BY <2>3, <3>1, <4>1
    <3>2. CASE ~dev.pending /\ dev.ref = 0
      <4>1. dev' = SetActions(e, {"free"})
        BY <2>1, <3>2
      <4> QED BY <2>3, <2>4, <3>2, <4>1, SetFlags
    <3>3. CASE ~dev.pending /\ dev.ref # 0
      <4>1. dev' = SetActions(e, told)
        BY <2>1, <3>3
      <4> HIDE DEF told
      <4> QED BY <2>3, <2>4, <3>3, <4>1, SetFlags
    <3> QED BY <3>1, <3>2, <3>3
  <2>6. \/ dev.pending /\ dev'.actions = dev.actions
        \/ ~dev.pending /\ dev.ref = 0 /\ dev'.actions = {"free"}
        \/ ~dev.pending /\ dev.ref # 0 /\ dev'.actions = told
    <3>1. CASE dev.pending
      BY <2>1, <2>3, <2>4, <3>1, SetFlags
    <3>2. CASE ~dev.pending /\ dev.ref = 0
      BY <2>1, <2>3, <2>4, <3>2, SetFlags
    <3>3. CASE ~dev.pending /\ dev.ref # 0
      <4>1. dev' = SetActions(e, told)
        BY <2>1, <3>3
      <4> HIDE DEF told
      <4> QED BY <2>3, <2>4, <3>3, <4>1, SetFlags
    <3> QED BY <3>1, <3>2, <3>3
  <2>7. DevTyped'
    BY <2>5 DEF DevTyped
  <2> QED BY <1>1, <1>2, <1>3, <1>5, <2>1, <2>2, <2>3, <2>5, <2>6, <2>7
<1> QED BY <1>4, <1>5

\* One stage of the enumeration: the flag is taken; unless the stage waits for a callback, it is set again.
Staged(stage, next) ==
    /\ lib.at = "hub" /\ lib.acts = {"enum"} /\ hub.stage = stage
    /\ lib'.at = "hub take" /\ lib'.acts = {} /\ lib'.todo = lib.todo
    /\ hub'.stage = next /\ hub'.state = hub.state
    /\ hub'.actions = IF next \in {"none", "check", "check string"} THEN hub.actions ELSE hub.actions \cup {"enum"}
    /\ port' = port /\ work' = work /\ msgs' = msgs /\ ctrlDone' = ctrlDone

LEMMA StageStep ==
    ASSUME HubTyped, LibTyped, NEW stage, NEW next, Enum(stage), Stage(next), StageDone,
           UNCHANGED <<port, work, msgs, ctrlDone>>
    PROVE  Staged(stage, next)
BY DEF Enum, Stage, StageDone, HubDone, Rest, HubTyped, HubObject, LibTyped, LibObject, Staged

LEMMA EnumStartStep ==
    ASSUME HubTyped, LibTyped, PipesTyped, DevTyped, EnumStart
    PROVE  /\ panic' = panic
           /\ \/ /\ Staged("start", "get") /\ PipesTyped' /\ DevTyped' /\ \A p \in Endpoints : pipes'[p] = pipes[p]
                 /\ pipes'["ep0"].urb = "idle" /\ dev'.there /\ ~dev'.listed /\ ~dev'.pending /\ ~dev'.gone
                 /\ dev'.ref = 0 /\ dev'.ctrl = 0 /\ dev'.actions = {}
              \/ Staged("start", "none") /\ pipes' = pipes /\ dev' = dev
<1>1. Enum("start") /\ StageDone /\ panic' = panic /\ UNCHANGED <<port, work, msgs, ctrlDone>>
  BY DEF EnumStart
<1>2. CASE Enabled
  <2>1. Stage("get") /\ pipes' = [pipes EXCEPT !["ep0"] = NewPipe] /\ dev' = NewDev
    BY <1>2 DEF EnumStart
  <2>2. NewPipe \in PipeObject /\ NewPipe.urb = "idle" /\ "ep0" \in Pipes /\ Endpoints \subseteq Pipes \ {"ep0"}
    BY DEF NewPipe, NoPipe, PipeObject, Pipes, Endpoints
  <2>3. Staged("start", "get")
    BY <1>1, <2>1, StageStep
  <2>4. PipesTyped' /\ pipes'["ep0"].urb = "idle" /\ \A p \in Endpoints : pipes'[p] = pipes[p]
    BY <2>1, <2>2, OnePipe
  <2>5. DevTyped' /\ dev'.there /\ ~dev'.listed /\ ~dev'.pending /\ ~dev'.gone
        /\ dev'.ref = 0 /\ dev'.ctrl = 0 /\ dev'.actions = {}
    <3>1. dev' = [there |-> TRUE, listed |-> FALSE, pending |-> FALSE, actions |-> {}, gone |-> FALSE, ref |-> 0, ctrl |-> 0]
      BY <2>1 DEF NewDev, NoDev
    <3> QED BY <3>1 DEF DevTyped, DevObject
  <2> QED BY <1>1, <2>3, <2>4, <2>5
<1>3. CASE ~Enabled
  BY <1>1, <1>3, StageStep DEF EnumStart
<1> QED BY <1>2, <1>3

Transferred(stage, check, failed) ==
    /\ dev' = dev /\ panic' = panic
    /\ \/ /\ Staged(stage, check) /\ PipesTyped' /\ \A p \in Endpoints : pipes'[p] = pipes[p]
          /\ pipes["ep0"].state = "active" /\ pipes'["ep0"].urb = "inflight"
       \/ Staged(stage, failed) /\ pipes' = pipes

LEMMA EnumTransferStep ==
    ASSUME HubTyped, LibTyped, PipesTyped, NEW stage, NEW check, NEW failed, EnumTransfer(stage, check, failed)
    PROVE  Transferred(stage, check, failed)
<1> USE DEF Transferred
<1>1. Enum(stage) /\ StageDone /\ dev' = dev /\ panic' = panic /\ UNCHANGED <<port, work, msgs, ctrlDone>>
  BY DEF EnumTransfer
<1>2. CASE Accepts("ep0")
  <2>1. Stage(check) /\ pipes' = [pipes EXCEPT !["ep0"].urb = "inflight"] /\ pipes["ep0"].state = "active"
    BY <1>2 DEF EnumTransfer, Accepts
  <2>2. "ep0" \in Pipes /\ Endpoints \subseteq Pipes \ {"ep0"}
    BY DEF Pipes, Endpoints
  <2>3. Staged(stage, check)
    BY <1>1, <2>1, StageStep
  <2>4. Submitted("ep0")
    BY <2>1, <2>2, SubmitStep
  <2> QED BY <1>1, <2>1, <2>2, <2>3, <2>4 DEF Submitted
<1>3. CASE ~Accepts("ep0")
  BY <1>1, <1>3, StageStep DEF EnumTransfer
<1> QED BY <1>2, <1>3

Checked(stage, next, failed) ==
    /\ dev' = dev /\ (pipes["ep0"].urb \in Finished => panic' = panic)
    /\ Staged(stage, next) \/ Staged(stage, failed)
    /\ PipesTyped' /\ (\A p \in Endpoints : pipes'[p] = pipes[p]) /\ pipes'["ep0"].urb = "idle"

LEMMA EnumCheckStep ==
    ASSUME HubTyped, LibTyped, PipesTyped, NEW stage, NEW next, NEW failed, EnumCheck(stage, next, failed)
    PROVE  Checked(stage, next, failed)
<1> USE DEF Checked
<1> DEFINE r == pipes["ep0"]
           c == IF r.urb = "stall" THEN Cleared(r) ELSE r
           s == [c EXCEPT !.urb = "idle"]
<1>1. /\ Enum(stage) /\ StageDone /\ dev' = dev /\ UNCHANGED <<port, work, msgs, ctrlDone>>
      /\ pipes' = [pipes EXCEPT !["ep0"] = s] /\ (Stage(next) \/ Stage(failed))
      /\ pipes["ep0"].urb \in Finished => panic' = panic
  BY DEF EnumCheck
<1>2. "ep0" \in Pipes /\ Endpoints \subseteq Pipes \ {"ep0"}
  BY DEF Pipes, Endpoints
<1>3. c \in PipeObject
  BY <1>2, ClearedPipe DEF PipesTyped
<1> HIDE DEF c
<1>4. s \in PipeObject /\ s.urb = "idle"
  BY <1>3 DEF PipeObject
<1> HIDE DEF s
<1>5. PipesTyped' /\ pipes'["ep0"] = s /\ \A p \in Endpoints : pipes'[p] = pipes[p]
  BY <1>1, <1>2, <1>4, OnePipe
<1>6. Staged(stage, next) \/ Staged(stage, failed)
  BY <1>1, StageStep
<1> QED BY <1>1, <1>4, <1>5, <1>6

LEMMA EnumCleanupStep ==
    ASSUME Inv, EnumCleanup
    PROVE  /\ lib.at = "hub" /\ lib.acts = {"enum"} /\ hub.stage = "cleanup"
           /\ lib'.at = "hub take" /\ lib'.acts = {} /\ lib'.todo = lib.todo
           /\ hub'.stage = "none" /\ hub'.state = "active" /\ hub'.actions = hub.actions
           /\ DevTyped' /\ dev'.listed /\ (dev'.there <=> dev.there) /\ (dev'.gone <=> dev.gone)
           /\ dev'.ref = dev.ref /\ dev'.ctrl = dev.ctrl /\ dev'.pending /\ dev'.actions = {"new"}
           /\ work' \subseteq {"usbh", "hub"}
           /\ port' = port /\ pipes' = pipes /\ msgs' = msgs /\ ctrlDone' = ctrlDone /\ panic' = panic
<1> DEFINE e == [dev EXCEPT !.listed = TRUE]
<1> HubTyped /\ LibTyped /\ DevTyped /\ ~dev.pending
  BY DEF Inv, Typed, DevInv, IdleDev, EnumCleanup, Enum
<1>1. /\ e \in DevObject /\ (e.there <=> dev.there) /\ e.listed /\ (e.gone <=> dev.gone)
      /\ e.ref = dev.ref /\ e.ctrl = dev.ctrl /\ ~e.pending
  BY DEF DevTyped, DevObject
<1>2. dev' = SetActions(e, {"new"}) /\ {"new"} \subseteq DevFlags
  BY DEF EnumCleanup, DevFlags
<1>3. /\ lib.at = "hub" /\ lib.acts = {"enum"} /\ hub.stage = "cleanup"
      /\ lib'.at = "hub take" /\ lib'.acts = {} /\ lib'.todo = lib.todo
      /\ hub'.stage = "none" /\ hub'.state = "active" /\ hub'.actions = hub.actions
      /\ work' \subseteq {"usbh", "hub"}
      /\ port' = port /\ pipes' = pipes /\ msgs' = msgs /\ ctrlDone' = ctrlDone /\ panic' = panic
  BY DEF EnumCleanup, Enum, StageDone, HubDone, Rest, Notify, HubTyped, HubObject, LibTyped, LibObject
<1> HIDE DEF e
<1>4. /\ dev' \in DevObject /\ (dev'.there <=> e.there) /\ (dev'.listed <=> e.listed) /\ (dev'.gone <=> e.gone)
      /\ dev'.ref = e.ref /\ dev'.ctrl = e.ctrl /\ dev'.pending /\ dev'.actions = {"new"}
  BY <1>1, <1>2, SetFlags
<1>5. DevTyped'
  BY <1>4 DEF DevTyped
<1> QED BY <1>1, <1>3, <1>4, <1>5

\* The device object goes: the enumeration failed, or nobody has the lost device open any more.
Gone ==
    /\ PipesTyped' /\ DevTyped' /\ \A p \in Endpoints : pipes'[p] = pipes[p]
    /\ pipes'["ep0"].urb = "idle" /\ pipes'["ep0"].state = "none" /\ ~dev'.there /\ ~dev'.listed /\ ~dev'.pending
    /\ ~dev'.gone /\ dev'.ref = 0 /\ dev'.ctrl = 0 /\ dev'.actions = {} /\ work' \subseteq {"usbh", "hub"}
    /\ port' = port /\ msgs' = msgs /\ ctrlDone' = ctrlDone

LEMMA GoneStep ==
    ASSUME PipesTyped, DevTyped, LibTyped, EnumFailed \/ Free
    PROVE  Gone
<1>1. /\ pipes' = [pipes EXCEPT !["ep0"] = NoPipe] /\ dev' = NoDev /\ port' = port /\ msgs' = msgs /\ ctrlDone' = ctrlDone
      /\ work' \subseteq {"usbh", "hub"}
  BY DEF EnumFailed, Free, Notify, LibTyped
<1>2. NoPipe \in PipeObject /\ NoPipe.urb = "idle" /\ NoPipe.state = "none" /\ "ep0" \in Pipes /\ Endpoints \subseteq Pipes \ {"ep0"}
  BY DEF NoPipe, PipeObject, Pipes, Endpoints
<1>3. /\ PipesTyped' /\ \A p \in Endpoints : pipes'[p] = pipes[p]
      /\ pipes'["ep0"].urb = "idle" /\ pipes'["ep0"].state = "none"
  BY <1>1, <1>2, OnePipe
<1>4. DevTyped' /\ ~dev'.there /\ ~dev'.listed /\ ~dev'.pending /\ ~dev'.gone /\ dev'.ref = 0 /\ dev'.ctrl = 0 /\ dev'.actions = {}
  BY <1>1 DEF NoDev, DevTyped, DevObject
<1> QED BY <1>1, <1>3, <1>4 DEF Gone

LEMMA EnumFailedStep ==
    ASSUME PipesTyped, DevTyped, LibTyped, HubTyped, EnumFailed
    PROVE  /\ Gone /\ panic' = panic
           /\ lib.at = "hub" /\ lib.acts = {"enum"} /\ hub.stage = "cleanup failed"
           /\ lib'.at = "hub take" /\ lib'.acts = {} /\ lib'.todo = lib.todo /\ hub'.stage = "none"
           /\ hub'.state = IF hub.state = "recovery" THEN "recovery" ELSE "enum failed"
           /\ hub.actions \subseteq hub'.actions /\ hub'.actions \subseteq hub.actions \cup {"recover", "enum"}
           /\ hub.state # "recovery" => ("recover" \in hub'.actions <=> "recover" \in hub.actions)
<1>1. Gone /\ panic' = panic
  BY GoneStep DEF EnumFailed
<1>2. /\ lib.at = "hub" /\ lib.acts = {"enum"} /\ hub.stage = "cleanup failed"
      /\ lib'.at = "hub take" /\ lib'.acts = {} /\ lib'.todo = lib.todo
  BY DEF EnumFailed, Enum, StageDone, HubDone, Rest, LibTyped, LibObject
<1>3. /\ hub'.stage = "none" /\ hub'.state = IF hub.state = "recovery" THEN "recovery" ELSE "enum failed"
      /\ hub.actions \subseteq hub'.actions /\ hub'.actions \subseteq hub.actions \cup {"recover", "enum"}
      /\ hub.state # "recovery" => ("recover" \in hub'.actions <=> "recover" \in hub.actions)
  BY DEF EnumFailed, AfterFailure, HubTyped, HubObject
<1> QED BY <1>1, <1>2, <1>3

LEMMA FreeStep ==
    ASSUME PipesTyped, DevTyped, LibTyped, HubTyped, Free
    PROVE  /\ Gone /\ (pipes["ep0"].urb = "idle" => panic' = panic)
           /\ lib.at = "device" /\ "free" \in lib.acts /\ lib.acts \cap {"halt", "flush", "dequeue", "clear", "gone"} = {}
           /\ lib'.at = "usbh" /\ lib'.acts = {} /\ lib'.todo = lib.todo
           /\ hub'.state = hub.state /\ hub'.stage = hub.stage /\ hub'.actions = hub.actions \cup {"recover"}
<1>1. Gone /\ (pipes["ep0"].urb = "idle" => panic' = panic)
  BY GoneStep DEF Free
<1>2. /\ lib.at = "device" /\ "free" \in lib.acts /\ lib.acts \cap {"halt", "flush", "dequeue", "clear", "gone"} = {}
      /\ lib'.at = "usbh" /\ lib'.acts = {} /\ lib'.todo = lib.todo
      /\ hub'.state = hub.state /\ hub'.stage = hub.stage /\ hub'.actions = hub.actions \cup {"recover"}
  BY DEF Free, Device, EarlyFlags, Rest, LibTyped, LibObject, HubTyped, HubObject
<1> QED BY <1>1, <1>2

\* handle_pipe_halt_and_flush
LEMMA HaltStep ==
    ASSUME PipesTyped, LibTyped, HaltAndFlush
    PROVE  /\ lib.at = "device" /\ "halt" \in lib.acts /\ lib'.acts = lib.acts \ {"halt"} /\ lib'.todo = lib.todo
           /\ lib'.at = IF lib'.acts = {} THEN "usbh" ELSE "device"
           /\ PipesTyped' /\ pipes'["ep0"] = pipes["ep0"]
           /\ \A p \in Endpoints :
                 /\ pipes[p].state = "none" => pipes'[p] = pipes[p]
                 /\ pipes[p].state # "none" => pipes'[p].state = "halted"
                 /\ pipes[p].state # "none" /\ pipes[p].urb = "inflight" =>
                       pipes'[p].urb = "retired" /\ pipes'[p].pending /\ ~pipes'[p].error
                 /\ pipes[p].urb # "inflight" => /\ pipes'[p].urb = pipes[p].urb
                                                 /\ (pipes'[p].pending <=> pipes[p].pending)
                                                 /\ (pipes'[p].error <=> pipes[p].error)
           /\ dev' = dev /\ hub' = hub /\ port' = port /\ work' = work /\ msgs' = msgs /\ ctrlDone' = ctrlDone
           /\ panic' = panic
<1>1. /\ lib.at = "device" /\ "halt" \in lib.acts /\ lib'.acts = lib.acts \ {"halt"} /\ lib'.todo = lib.todo
      /\ lib'.at = IF lib'.acts = {} THEN "usbh" ELSE "device"
      /\ dev' = dev /\ hub' = hub /\ port' = port /\ work' = work /\ msgs' = msgs /\ ctrlDone' = ctrlDone
      /\ panic' = panic
  BY DEF HaltAndFlush, Device, Rest
<1>2. pipes' = [p \in Pipes |-> IF p \in Endpoints /\ pipes[p].state # "none" THEN Retired(pipes[p]) ELSE pipes[p]]
  BY DEF HaltAndFlush
<1>3. \A p \in Pipes : pipes[p] \in PipeObject
  BY DEF PipesTyped
<1>4. PipesTyped' /\ pipes'["ep0"] = pipes["ep0"]
  <2>1. \A p \in Pipes : pipes'[p] \in PipeObject
    BY <1>2, <1>3, RetiredPipe
  <2>2. pipes' \in [Pipes -> PipeObject]
    BY <1>2, <2>1
  <2>3. "ep0" \in Pipes \ Endpoints
    BY DEF Pipes, Endpoints
  <2> QED BY <1>2, <2>2, <2>3 DEF PipesTyped
<1>5. ASSUME NEW p \in Endpoints
      PROVE  /\ pipes[p].state = "none" => pipes'[p] = pipes[p]
             /\ pipes[p].state # "none" => pipes'[p].state = "halted"
             /\ pipes[p].state # "none" /\ pipes[p].urb = "inflight" =>
                   pipes'[p].urb = "retired" /\ pipes'[p].pending /\ ~pipes'[p].error
             /\ pipes[p].urb # "inflight" => /\ pipes'[p].urb = pipes[p].urb
                                             /\ (pipes'[p].pending <=> pipes[p].pending)
                                             /\ (pipes'[p].error <=> pipes[p].error)
  <2>1. p \in Pipes
    BY DEF Pipes, Endpoints
  <2>2. pipes'[p] = IF pipes[p].state # "none" THEN Retired(pipes[p]) ELSE pipes[p]
    BY <1>2, <2>1
  <2> QED BY <1>3, <2>1, <2>2, RetiredPipe
<1> QED BY <1>1, <1>4, <1>5

\* An endpoint is taken from the client's list.
Taken(p) ==
    /\ client.at = "wait" /\ client'.at = "callback" /\ client'.ep = p
    /\ PipesTyped' /\ \A q \in Pipes \ {p} : pipes'[q] = pipes[q]
    /\ pipes[p].pending /\ ~pipes'[p].pending /\ ~pipes'[p].error
    /\ pipes'[p].urb = pipes[p].urb /\ pipes'[p].state = pipes[p].state
    /\ (pipes[p].error => pipes[p].state = "halted") => panic' = panic
    /\ lib' = lib /\ dev' = dev /\ hub' = hub /\ port' = port /\ work' = work
    /\ msgs' = msgs /\ ctrlDone' = ctrlDone
    /\ cdc' = cdc /\ handle' = handle /\ ioMtx' = ioMtx /\ engine' = engine /\ semaphore' = semaphore

LEMMA TakesStep ==
    ASSUME PipesTyped, NEW p \in Endpoints, TakesEndpoint(p)
    PROVE  Taken(p)
<1> USE DEF Taken
<1> DEFINE r == [pipes[p] EXCEPT !.pending = FALSE, !.error = FALSE]
<1>1. /\ client.at = "wait" /\ client' = [at |-> "callback", ep |-> p] /\ pipes[p].pending
      /\ (pipes[p].error => pipes[p].state = "halted") => panic' = panic
      /\ lib' = lib /\ dev' = dev /\ hub' = hub /\ port' = port /\ work' = work
      /\ msgs' = msgs /\ ctrlDone' = ctrlDone
      /\ cdc' = cdc /\ handle' = handle /\ ioMtx' = ioMtx /\ engine' = engine /\ semaphore' = semaphore
  BY DEF TakesEndpoint
<1>2. pipes' = [pipes EXCEPT ![p] = r]
  BY DEF TakesEndpoint
<1>3. p \in Pipes /\ r \in PipeObject /\ ~r.pending /\ ~r.error /\ r.urb = pipes[p].urb /\ r.state = pipes[p].state
  BY DEF PipesTyped, PipeObject, Pipes, Endpoints
<1> HIDE DEF r
<1>4. PipesTyped' /\ pipes'[p] = r /\ \A q \in Pipes \ {p} : pipes'[q] = pipes[q]
  BY <1>2, <1>3, OnePipe
<1> QED BY <1>1, <1>3, <1>4

\* A callback leaves its endpoint idle, or polls again.
CalledFor(p) ==
    /\ client.at = "callback" /\ client.ep = p /\ client'.at = "wait" /\ client'.ep = "none"
    /\ PipesTyped' /\ \A q \in Pipes \ {p} : pipes'[q] = pipes[q]
    /\ pipes'[p].state = pipes[p].state
    /\ (pipes'[p].pending <=> pipes[p].pending) /\ (pipes'[p].error <=> pipes[p].error)
    /\ pipes[p].urb \in Finished =>
          pipes'[p].urb = "idle" \/ (pipes'[p].urb = "inflight" /\ Enabled /\ pipes[p].state = "active")
    /\ lib' = lib /\ dev' = dev /\ hub' = hub /\ port' = port /\ work' = work
    /\ msgs' = msgs /\ ctrlDone' = ctrlDone /\ panic' = panic
    /\ cdc' = cdc /\ handle' = handle /\ ioMtx' = ioMtx /\ engine' = engine
    /\ semaphore'.ctrl = semaphore.ctrl

LEMMA CallbackRuns ==
    ASSUME PipesTyped, InCallback \/ OutCallback
    PROVE  \E p \in Endpoints : CalledFor(p)
<1> USE DEF CalledFor
<1>0. "in" \in Endpoints /\ "out" \in Endpoints /\ Endpoints \subseteq Pipes
  BY DEF Pipes, Endpoints
<1>1. ASSUME NEW p \in Endpoints, NEW u \in {"idle", "inflight", pipes[p].urb}, pipes' = [pipes EXCEPT ![p].urb = u]
      PROVE  /\ PipesTyped' /\ \A q \in Pipes \ {p} : pipes'[q] = pipes[q]
             /\ pipes'[p].state = pipes[p].state /\ pipes'[p].urb = u
             /\ (pipes'[p].pending <=> pipes[p].pending) /\ (pipes'[p].error <=> pipes[p].error)
  <2> DEFINE r == [pipes[p] EXCEPT !.urb = u]
  <2>1. pipes[p] \in PipeObject
    BY <1>0 DEF PipesTyped
  <2>2. /\ r \in PipeObject /\ r.urb = u /\ r.state = pipes[p].state
        /\ (r.pending <=> pipes[p].pending) /\ (r.error <=> pipes[p].error)
    BY <2>1 DEF PipeObject
  <2>3. pipes' = [pipes EXCEPT ![p] = r]
    BY <1>1
  <2> HIDE DEF r
  <2>4. PipesTyped' /\ pipes'[p] = r /\ \A q \in Pipes \ {p} : pipes'[q] = pipes[q]
    BY <1>0, <2>2, <2>3, OnePipe
  <2> QED BY <2>2, <2>4
<1>2. CASE InCallback
  <2>1. /\ client.at = "callback" /\ client.ep = "in" /\ client' = [at |-> "wait", ep |-> "none"]
        /\ lib' = lib /\ dev' = dev /\ hub' = hub /\ port' = port /\ work' = work
        /\ msgs' = msgs /\ ctrlDone' = ctrlDone /\ panic' = panic
        /\ cdc' = cdc /\ handle' = handle /\ ioMtx' = ioMtx /\ engine' = engine
        /\ semaphore'.ctrl = semaphore.ctrl
    BY <1>2 DEF InCallback
  <2> DEFINE again == PollsAgain(pipes["in"].urb) /\ Enabled /\ pipes["in"].state = "active"
             u == IF pipes["in"].urb \notin Finished THEN pipes["in"].urb ELSE IF again THEN "inflight" ELSE "idle"
  <2>2. pipes' = [pipes EXCEPT !["in"].urb = u]
    BY <1>2 DEF InCallback
  <2>3. /\ u \in {"idle", "inflight", pipes["in"].urb}
        /\ pipes["in"].urb \in Finished => u = "idle" \/ (u = "inflight" /\ Enabled /\ pipes["in"].state = "active")
    OBVIOUS
  <2> HIDE DEF u
  <2>4. /\ PipesTyped' /\ \A q \in Pipes \ {"in"} : pipes'[q] = pipes[q]
        /\ pipes'["in"].state = pipes["in"].state /\ pipes'["in"].urb = u
        /\ (pipes'["in"].pending <=> pipes["in"].pending) /\ (pipes'["in"].error <=> pipes["in"].error)
    BY <1>0, <1>1, <2>2, <2>3
  <2>5. CalledFor("in")
    BY <2>1, <2>3, <2>4
  <2> QED BY <1>0, <2>5
<1>3. CASE OutCallback
  <2>1. /\ client.at = "callback" /\ client.ep = "out" /\ client' = [at |-> "wait", ep |-> "none"]
        /\ lib' = lib /\ dev' = dev /\ hub' = hub /\ port' = port /\ work' = work
        /\ msgs' = msgs /\ ctrlDone' = ctrlDone /\ panic' = panic
        /\ cdc' = cdc /\ handle' = handle /\ ioMtx' = ioMtx /\ engine' = engine
    BY <1>3 DEF OutCallback
  <2>2. \E u \in {"idle", "inflight", pipes["out"].urb} :
           /\ pipes' = [pipes EXCEPT !["out"].urb = u]
           /\ pipes["out"].urb \in Finished => u = "idle"
    BY <1>3 DEF OutCallback
  <2>3. semaphore'.ctrl = semaphore.ctrl
    BY <1>3 DEF OutCallback
  <2> QED BY <1>0, <1>1, <2>1, <2>2, <2>3
<1> QED BY <1>2, <1>3

\* usb_host_interface_release and usb_host_interface_claim: the pipes of the endpoints go and come.
LEMMA ReleaseStep ==
    ASSUME PipesTyped, ReleasesInterface
    PROVE  /\ PipesTyped' /\ pipes'["ep0"] = pipes["ep0"]
           /\ \A p \in Endpoints : pipes'[p].state = "none" /\ pipes'[p].urb = "idle" /\ ~pipes'[p].pending /\ ~pipes'[p].error
           /\ Endable => panic' = panic
<1>1. pipes' = [p \in Pipes |-> IF p \in Endpoints THEN NoPipe ELSE pipes[p]] /\ (Endable => panic' = panic)
  BY DEF ReleasesInterface
<1>2. NoPipe \in PipeObject /\ NoPipe.state = "none" /\ NoPipe.urb = "idle" /\ ~NoPipe.pending /\ ~NoPipe.error
  BY DEF NoPipe, PipeObject
<1>3. "ep0" \in Pipes \ Endpoints /\ Endpoints \subseteq Pipes
  BY DEF Pipes, Endpoints
<1> QED BY <1>1, <1>2, <1>3 DEF PipesTyped

LEMMA ClaimStep ==
    ASSUME PipesTyped, Claim, Enabled
    PROVE  /\ PipesTyped' /\ pipes'["ep0"] = pipes["ep0"]
           /\ \A p \in Endpoints : pipes'[p].state = "active" /\ pipes'[p].urb = "idle" /\ ~pipes'[p].pending /\ ~pipes'[p].error
           /\ engine.at = "claim" /\ cdc' = "claimed" /\ engine' = [engine EXCEPT !.at = "submit"]
           /\ dev' = dev /\ work' = work /\ panic' = panic
<1>1. /\ pipes' = [p \in Pipes |-> IF p \in Endpoints THEN NewPipe ELSE pipes[p]]
      /\ engine.at = "claim" /\ cdc' = "claimed" /\ engine' = [engine EXCEPT !.at = "submit"]
      /\ dev' = dev /\ work' = work /\ panic' = panic
  BY DEF Claim, Step
<1>2. NewPipe \in PipeObject /\ NewPipe.state = "active" /\ NewPipe.urb = "idle" /\ ~NewPipe.pending /\ ~NewPipe.error
  BY DEF NewPipe, NoPipe, PipeObject
<1>3. "ep0" \in Pipes \ Endpoints /\ Endpoints \subseteq Pipes
  BY DEF Pipes, Endpoints
<1> QED BY <1>1, <1>2, <1>3 DEF PipesTyped

\* Whoever closes the device, no control transfer is in flight.
LEMMA RemovesStep ==
    ASSUME Inv, ClientRemoves \/ EngineRemoves \/ (Claim /\ ~Enabled)
    PROVE  Removed
<1>1. DevTyped /\ LibTyped /\ RemovesDevice
  BY DEF Inv, Typed, ClientRemoves, EngineRemoves, Claim
<1>2. engine.at = "claim" \/ engine.at = "remove" \/ client.at = "remove"
  BY DEF ClientRemoves, EngineRemoves, Claim
<1>3. dev.ref = 1
  BY <1>2 DEF Inv, RefInv, CdcInv
<1>4. dev.ctrl # 1
  BY <1>2 DEF Inv, WaitInv, HandleInv, ClientCloser
<1>5. dev.ctrl = 0
  BY <1>1, <1>4 DEF DevTyped, DevObject
<1> QED BY <1>1, <1>3, <1>5, RemoveStep

-----------------------------------------------------------------------------
(* The steps of a task that choose between two outcomes *)

LEMMA UsbhTakeStep ==
    ASSUME LibTyped, DevTyped, UsbhTake
    PROVE  /\ lib.at = "usbh" /\ lib'.todo = lib.todo
           /\ \/ /\ dev.pending /\ lib'.at = "device" /\ lib'.acts = dev.actions
                 /\ DevTyped' /\ ~dev'.pending /\ dev'.actions = {}
                 /\ (dev'.there <=> dev.there) /\ (dev'.listed <=> dev.listed) /\ (dev'.gone <=> dev.gone)
                 /\ dev'.ref = dev.ref /\ dev'.ctrl = dev.ctrl
              \/ lib'.at = "hub take" /\ lib'.acts = lib.acts /\ dev' = dev
           /\ port' = port /\ pipes' = pipes /\ hub' = hub /\ work' = work /\ msgs' = msgs /\ ctrlDone' = ctrlDone
           /\ panic' = panic
<1>1. /\ lib.at = "usbh"
      /\ port' = port /\ pipes' = pipes /\ hub' = hub /\ work' = work /\ msgs' = msgs /\ ctrlDone' = ctrlDone
      /\ panic' = panic
  BY DEF UsbhTake
<1>2. CASE "usbh" \in lib.todo /\ dev.pending
  <2>1. lib' = [lib EXCEPT !.at = "device", !.acts = dev.actions] /\ dev' = [dev EXCEPT !.pending = FALSE, !.actions = {}]
    BY <1>2 DEF UsbhTake
  <2>2. lib'.todo = lib.todo /\ lib'.at = "device" /\ lib'.acts = dev.actions
    BY <2>1
  <2>3. /\ DevTyped' /\ ~dev'.pending /\ dev'.actions = {}
        /\ (dev'.there <=> dev.there) /\ (dev'.listed <=> dev.listed) /\ (dev'.gone <=> dev.gone)
        /\ dev'.ref = dev.ref /\ dev'.ctrl = dev.ctrl
    BY <2>1 DEF DevTyped, DevObject
  <2> QED BY <1>1, <1>2, <2>2, <2>3
<1>3. CASE ~("usbh" \in lib.todo /\ dev.pending)
  <2>1. lib' = [lib EXCEPT !.at = "hub take"] /\ dev' = dev
    BY <1>3 DEF UsbhTake
  <2>2. lib'.todo = lib.todo /\ lib'.at = "hub take" /\ lib'.acts = lib.acts
    BY <2>1 DEF LibTyped, LibObject
  <2> QED BY <1>1, <2>1, <2>2
<1> QED BY <1>2, <1>3

LEMMA HubTakeStep ==
    ASSUME LibTyped, HubTyped, HubTake
    PROVE  /\ lib.at = "hub take" /\ hub'.state = hub.state /\ hub'.stage = hub.stage
           /\ \/ lib'.at = "hub" /\ lib'.acts = hub.actions /\ hub'.actions = {} /\ lib'.todo = lib.todo
              \/ lib'.at = "wait" /\ lib'.acts = lib.acts /\ hub'.actions = hub.actions /\ lib'.todo = {}
           /\ port' = port /\ pipes' = pipes /\ dev' = dev /\ work' = work /\ msgs' = msgs /\ ctrlDone' = ctrlDone
           /\ panic' = panic
<1>1. CASE "hub" \in lib.todo /\ hub.actions # {}
  BY <1>1 DEF HubTake, LibTyped, LibObject, HubTyped, HubObject
<1>2. CASE ~("hub" \in lib.todo /\ hub.actions # {})
  BY <1>2 DEF HubTake, LibTyped, LibObject
<1> QED BY <1>1, <1>2

LEMMA SendGoneStep ==
    ASSUME Inv, SendGone
    PROVE  /\ lib.at = "device" /\ "gone" \in lib.acts /\ lib.acts \cap {"halt", "flush", "dequeue", "clear"} = {}
           /\ lib'.acts = lib.acts \ {"gone"} /\ lib'.todo = lib.todo
           /\ lib'.at = IF lib'.acts = {} THEN "usbh" ELSE "device"
           /\ msgs = <<>> /\ (msgs' = <<>> \/ msgs' = <<"gone">>)
           /\ port' = port /\ pipes' = pipes /\ hub' = hub /\ dev' = dev /\ work' = work /\ ctrlDone' = ctrlDone
           /\ panic' = panic
<1> LibTyped /\ MsgTyped /\ ("gone" \in lib.acts /\ lib.at = "device" => msgs = <<>>)
  BY DEF Inv, Typed, GoneOnce, LibFlags
<1>1. /\ lib.at = "device" /\ "gone" \in lib.acts /\ lib.acts \cap {"halt", "flush", "dequeue", "clear"} = {}
      /\ lib' = Rest(lib.acts \ {"gone"}, "usbh")
      /\ port' = port /\ pipes' = pipes /\ hub' = hub /\ dev' = dev /\ work' = work /\ ctrlDone' = ctrlDone
      /\ panic' = panic
  BY DEF SendGone, Device, EarlyFlags
<1>2. /\ lib'.acts = lib.acts \ {"gone"} /\ lib'.todo = lib.todo
      /\ lib'.at = IF lib'.acts = {} THEN "usbh" ELSE "device"
  BY <1>1 DEF Rest
<1>3. msgs = <<>> /\ (msgs' = <<>> \/ msgs' = Append(<<>>, "gone"))
  BY <1>1 DEF SendGone
<1>4. Append(<<>>, "gone") = <<"gone">>
  OBVIOUS
<1> QED BY <1>1, <1>2, <1>3, <1>4

LEMMA ResetStep ==
    ASSUME LibTyped, HubTyped, PortTyped, ResetPort \/ ResetDone
    PROVE  /\ lib.at \in {"reset", "resetting"} /\ lib'.todo = lib.todo
           /\ port'.event = port.event /\ (port'.locked <=> port.locked) /\ (port'.again <=> port.again)
           /\ \/ /\ lib.at = "reset" /\ port.state = "disabled" /\ port.event = "none" /\ port'.state = "resetting"
                 /\ lib'.at = "resetting" /\ lib'.acts = lib.acts /\ hub' = hub
              \/ /\ lib'.acts = lib.acts \ {"root"} /\ lib'.at = IF lib'.acts = {} THEN "hub take" ELSE "hub"
                 /\ \/ lib.at = "reset" /\ (port.state # "disabled" \/ port.event # "none")
                    \/ lib.at = "resetting" /\ port.state # "resetting"
                 /\ port' = port /\ hub' = hub
              \/ /\ lib.at = "resetting" /\ port.state = "resetting" /\ port'.state = "enabled"
                 /\ lib'.acts = lib.acts \ {"root"} /\ lib'.at = IF lib'.acts = {} THEN "hub take" ELSE "hub"
                 /\ hub'.state = "enum" /\ hub'.stage = "start" /\ hub'.actions = hub.actions \cup {"enum"}
           /\ pipes' = pipes /\ dev' = dev /\ work' = work /\ msgs' = msgs /\ ctrlDone' = ctrlDone /\ panic' = panic
<1>1. CASE ResetPort /\ port.state = "disabled" /\ port.event = "none"
  BY <1>1 DEF ResetPort, LibTyped, LibObject, PortTyped, PortObject
<1>2. CASE ResetPort /\ ~(port.state = "disabled" /\ port.event = "none")
  BY <1>2 DEF ResetPort, After, LibTyped, LibObject
<1>3. CASE ResetDone /\ port.state = "resetting"
  <2>1. /\ port'.state = "enabled" /\ port'.event = port.event /\ (port'.locked <=> port.locked)
        /\ (port'.again <=> port.again)
    BY <1>3 DEF ResetDone, PortTyped, PortObject
  <2>2. hub'.state = "enum" /\ hub'.stage = "start" /\ hub'.actions = hub.actions \cup {"enum"}
    BY <1>3 DEF ResetDone, HubTyped, HubObject
  <2>3. lib'.acts = lib.acts \ {"root"} /\ lib'.todo = lib.todo /\ lib'.at = IF lib'.acts = {} THEN "hub take" ELSE "hub"
    BY <1>3 DEF ResetDone, After
  <2> QED BY <1>3, <2>1, <2>2, <2>3 DEF ResetDone
<1>4. CASE ResetDone /\ port.state # "resetting"
  BY <1>4 DEF ResetDone, After
<1> QED BY <1>1, <1>2, <1>3, <1>4

LEMMA UnplugStep ==
    ASSUME LibTyped, HubTyped, PortTyped, Unplug, ~Races
    PROVE  /\ ~InGap /\ work' \subseteq {"usbh", "hub"} /\ hub'.state = hub.state /\ hub'.stage = hub.stage
           /\ \/ /\ port.state \in {"disabled", "resetting", "enabled"} /\ port'.state = "recovery"
                 /\ port'.event = "disconnection" /\ hub'.actions = hub.actions \cup {"root"} /\ port'.locked
              \/ port.state \notin {"disabled", "resetting", "enabled"} /\ port' = port /\ hub' = hub
           /\ PortTyped' /\ lib' = lib /\ pipes' = pipes /\ dev' = dev /\ msgs' = msgs /\ ctrlDone' = ctrlDone
           /\ panic' = panic
<1>1. /\ ~InGap /\ lib' = lib /\ pipes' = pipes /\ dev' = dev /\ msgs' = msgs /\ ctrlDone' = ctrlDone /\ panic' = panic
  BY DEF Unplug, Quiet
<1>2. CASE port.state \in {"disabled", "resetting", "enabled"}
  <2>1. /\ port' = [port EXCEPT !.state = "recovery", !.event = "disconnection", !.locked = TRUE, !.again = Enabled]
        /\ hub' = [hub EXCEPT !.actions = @ \cup {"root"}] /\ work' \subseteq {"usbh", "hub"}
    BY <1>2 DEF Unplug, RootEvent, Notify, LibTyped
  <2>2. hub'.state = hub.state /\ hub'.stage = hub.stage /\ hub'.actions = hub.actions \cup {"root"}
    BY <2>1
  <2>3. Enabled \in BOOLEAN
    BY DEF Enabled
  <2>4. PortTyped' /\ port'.state = "recovery" /\ port'.event = "disconnection" /\ port'.locked
    BY <2>1, <2>3 DEF PortTyped, PortObject
  <2> QED BY <1>1, <1>2, <2>1, <2>2, <2>4
<1>3. CASE port.state \notin {"disabled", "resetting", "enabled"}
  BY <1>1, <1>3 DEF Unplug, LibTyped, PortTyped
<1> QED BY <1>2, <1>3

\* A setup request goes out on the default pipe, or is given up.
LEMMA RequestSetupStep ==
    ASSUME Inv, RequestSetup
    PROVE  /\ engine.at = "setup" /\ engine.left > 0 /\ panic' = panic
           /\ \/ /\ handle # "none" /\ pipes["ep0"].urb = "idle" /\ Submitted("ep0")
                 /\ DevTyped' /\ dev'.ctrl = 1 /\ dev'.ref = dev.ref /\ dev'.actions = dev.actions
                 /\ (dev'.there <=> dev.there) /\ (dev'.listed <=> dev.listed) /\ (dev'.gone <=> dev.gone)
                 /\ (dev'.pending <=> dev.pending)
                 /\ engine'.at = "waiting" /\ engine'.handle = handle /\ engine'.left = engine.left
                 /\ (engine'.failed <=> engine.failed)
                 /\ semaphore'.ctrl = "none" /\ TasksTyped'
              \/ /\ engine'.at = "setup" /\ engine'.handle = engine.handle /\ engine'.failed /\ TasksTyped'
                 /\ pipes' = pipes /\ dev' = dev /\ semaphore' = semaphore
           /\ port' = port /\ hub' = hub /\ lib' = lib /\ work' = work /\ msgs' = msgs /\ ctrlDone' = ctrlDone
           /\ cdc' = cdc /\ handle' = handle /\ ioMtx' = ioMtx /\ client' = client
<1> PipesTyped /\ DevTyped /\ TasksTyped /\ LinkTyped
  BY DEF Inv, Typed
<1> handle # "stale" /\ dev.ctrl = 0
  <2>1. handle # "stale" /\ engine.at # "waiting"
    BY DEF Inv, HandleInv, RequestSetup
  <2> QED BY <2>1 DEF Inv, WaitInv
<1>1. /\ engine.at = "setup" /\ engine.left > 0 /\ panic' = panic
      /\ port' = port /\ hub' = hub /\ lib' = lib /\ work' = work /\ msgs' = msgs /\ ctrlDone' = ctrlDone
      /\ cdc' = cdc /\ handle' = handle /\ ioMtx' = ioMtx /\ client' = client
  BY DEF RequestSetup
<1>2. CASE handle # "none" /\ Accepts("ep0")
  <2>1. /\ pipes' = [pipes EXCEPT !["ep0"].urb = "inflight"] /\ pipes["ep0"].urb = "idle"
        /\ dev' = [dev EXCEPT !.ctrl = @ + 1] /\ semaphore' = [semaphore EXCEPT !.ctrl = "none"]
        /\ engine' = [engine EXCEPT !.at = "waiting", !.handle = handle]
    BY <1>2 DEF RequestSetup, Accepts
  <2>2. Submitted("ep0")
    <3>1. "ep0" \in Pipes
      BY DEF Pipes
    <3> QED BY <2>1, <3>1, SubmitStep
  <2>3. /\ DevTyped' /\ dev'.ctrl = 1 /\ dev'.ref = dev.ref /\ dev'.actions = dev.actions
        /\ (dev'.there <=> dev.there) /\ (dev'.listed <=> dev.listed) /\ (dev'.gone <=> dev.gone)
        /\ (dev'.pending <=> dev.pending)
    BY <1>2, <2>1 DEF DevTyped, DevObject
  <2>4. engine' \in EngineObject
    BY <2>1 DEF TasksTyped, EngineObject, LinkTyped
  <2>5. /\ engine'.at = "waiting" /\ engine'.handle = handle /\ engine'.left = engine.left
        /\ (engine'.failed <=> engine.failed)
    BY <2>1
  <2>6. semaphore' \in [out: BOOLEAN, ctrl: {"none", "ok", "failed"}] /\ semaphore'.ctrl = "none"
    BY <2>1 DEF TasksTyped
  <2> QED BY <1>1, <1>2, <2>1, <2>2, <2>3, <2>4, <2>5, <2>6 DEF TasksTyped
<1>3. CASE ~(handle # "none" /\ Accepts("ep0"))
  <2>1. /\ engine' = [engine EXCEPT !.left = @ - 1, !.failed = TRUE]
        /\ pipes' = pipes /\ dev' = dev /\ semaphore' = semaphore
    BY <1>3 DEF RequestSetup
  <2>2. engine.left \in 0..SETUPS /\ engine.left - 1 \in 0..SETUPS
    BY <1>1 DEF TasksTyped, EngineObject, SETUPS
  <2>3. engine' \in EngineObject /\ engine'.at = engine.at /\ engine'.handle = engine.handle /\ engine'.failed
    BY <2>1, <2>2 DEF TasksTyped, EngineObject
  <2> QED BY <1>1, <2>1, <2>3 DEF TasksTyped
<1> QED BY <1>2, <1>3

LEMMA CancelsStep ==
    ASSUME PipesTyped
    PROVE  (ClientCancels \/ EngineCancels => Cancelled("in")) /\ (WriteTimeout => Cancelled("out"))
<1>1. "in" \in Endpoints /\ "out" \in Endpoints
  BY DEF Endpoints
<1>2. ASSUME ClientCancels \/ EngineCancels
      PROVE  Cancelled("in")
  <2>1. pipes' = [pipes EXCEPT !["in"] = Cleared(Retired(@))]
    BY <1>2 DEF ClientCancels, EngineCancels, CancelsPoll
  <2> QED BY <1>1, <2>1, CancelStep
<1>3. ASSUME WriteTimeout
      PROVE  Cancelled("out")
  <2>1. pipes' = [pipes EXCEPT !["out"] = Cleared(Retired(@))]
    BY <1>3 DEF WriteTimeout
  <2> QED BY <1>1, <2>1, CancelStep
<1> QED BY <1>2, <1>3

LEMMA SubmitsStep ==
    ASSUME PipesTyped
    PROVE  (FirstPoll => Submitted("in")) /\ (Write => Submitted("out"))
<1>1. "in" \in Pipes /\ "out" \in Pipes
  BY DEF Pipes
<1>2. ASSUME FirstPoll
      PROVE  Submitted("in")
  <2>1. pipes' = [pipes EXCEPT !["in"].urb = "inflight"]
    BY <1>2 DEF FirstPoll
  <2> QED BY <1>1, <2>1, SubmitStep
<1>3. ASSUME Write
      PROVE  Submitted("out")
  <2>1. pipes' = [pipes EXCEPT !["out"].urb = "inflight"]
    BY <1>3 DEF Write
  <2> QED BY <1>1, <2>1, SubmitStep
<1> QED BY <1>2, <1>3

\* Client, engine and user leave the cable, the port, the hub driver and usb_lib alone.
LEMMA LinkSteps ==
    ASSUME Client \/ Engine \/ WriteTimeout \/ User
    PROVE  UNCHANGED <<plugged, plugs, port, hub, lib>>
  BY DEF Client, Engine, User, linkVarsButEngine, hostVars, Request, TakesEndpoint, InCallback, OutCallback,
     ControlCallback, Message, ClientClaims, ClientCancels, ClientReleases, ClientRemoves, EngineCloses,
     EngineCancels, EngineReleases, EngineRemoves, EngineClosed, NoticeGone, AutoConnect, OpenFailed, Found, NotFound,
     Claim, FirstPoll, Assign, RequestSetup, SetupAnswered, Opened, Write, WriteDone, WriteTimeout, Connect,
     Disconnect

-----------------------------------------------------------------------------
(* The port and the task usb_lib *)

\* usb_lib works with the flags it has taken, the device's or the hub's, and never with both.
LEMMA LibKept ==
    ASSUME Inv, ~Races, Next
    PROVE  LibInv'
<1>1. CASE Lib
  <2>0. LibTurn /\ ClientCaughtUp /\ UNCHANGED linkVars
    BY <1>1 DEF Lib
  <2>1. CASE LibTake
    BY <2>1 DEF Inv, LibTake, LibInv, LibTyped, LibObject
  <2>2. CASE UsbhTake
    BY <2>2, UsbhTakeStep DEF Inv, Typed, LibInv, InHub, DevInv, IdleDev, DevTyped, DevObject
  <2>3. CASE HaltAndFlush
    BY <2>3, HaltStep DEF Inv, Typed, LibInv, InHub
  <2>4. CASE DefaultPipe
    BY <2>4, DefaultPipeStep DEF Inv, LibInv, InHub
  <2>5. CASE SendGone
    BY <2>5, SendGoneStep DEF Inv, LibInv, InHub
  <2>6. CASE SendNew
    BY <2>6 DEF Inv, Typed, SendNew, Device, Rest, LibInv, InHub, LibTyped, LibObject
  <2>7. CASE Free
    BY <2>7, FreeStep DEF Inv, Typed, LibInv
  <2>8. CASE HubTake
    BY <2>8, HubTakeStep DEF Inv, Typed, LibInv, HubTyped, HubObject
  <2>9. CASE PortLost
    BY <2>9, PortLostStep DEF Inv, Typed, LibInv, InHub
  <2>10. CASE NoEvent
    BY <2>10 DEF Inv, Typed, NoEvent, HubDone, Rest, LibInv, InHub, LibTyped, LibObject
  <2>11. CASE Connection
    BY <2>11 DEF Inv, Connection, LibInv, InHub, LibTyped, LibObject
  <2>12. CASE Debounced
    BY <2>12 DEF Inv, Debounced, LibInv, InHub, LibTyped, LibObject
  <2>13. CASE ResetPort \/ ResetDone
    BY <2>13, ResetStep DEF Inv, Typed, LibInv, InHub
  <2>14. CASE Recover
    BY <2>14 DEF Inv, Typed, Recover, Recoverable, Panic, HubDone, Rest, LibInv, InHub, LibTyped, LibObject
  <2>15. CASE EnumStart
    BY <2>15, EnumStartStep DEF Inv, Typed, LibInv, Staged
  <2>16. CASE EnumTransfer("get", "check", "cleanup failed")
    <3>1. Transferred("get", "check", "cleanup failed")
      BY <2>16, EnumTransferStep DEF Inv, Typed
    <3> QED BY <3>1 DEF Transferred, Staged, LibInv
  <2>17. CASE EnumCheck("check", "get string", "cleanup failed")
    <3>1. Checked("check", "get string", "cleanup failed")
      BY <2>17, EnumCheckStep DEF Inv, Typed
    <3> QED BY <3>1 DEF Checked, Staged, LibInv
  <2>18. CASE EnumTransfer("get string", "check string", "cleanup")
    <3>1. Transferred("get string", "check string", "cleanup")
      BY <2>18, EnumTransferStep DEF Inv, Typed
    <3> QED BY <3>1 DEF Transferred, Staged, LibInv
  <2>19. CASE EnumCheck("check string", "cleanup", "cleanup")
    <3>1. Checked("check string", "cleanup", "cleanup")
      BY <2>19, EnumCheckStep DEF Inv, Typed
    <3> QED BY <3>1 DEF Checked, Staged, LibInv
  <2>20. CASE EnumCleanup
    BY <2>20, EnumCleanupStep DEF LibInv
  <2>21. CASE EnumFailed
    BY <2>21, EnumFailedStep DEF Inv, Typed, LibInv
  <2>22. CASE EnumNothing
    BY <2>22 DEF Inv, Typed, EnumNothing, Enum, StageDone, HubDone, Rest, LibInv, LibTyped, LibObject
  <2> QED BY <1>1, <2>1, <2>2, <2>3, <2>4, <2>5, <2>6, <2>7, <2>8, <2>9, <2>10, <2>11, <2>12, <2>13, <2>14, <2>15,
     <2>16, <2>17, <2>18, <2>19, <2>20, <2>21, <2>22 DEF Lib, LibGoesOn
<1>2. CASE Bus
  <2>0. UNCHANGED linkVars
    BY <1>2 DEF Bus
  <2>1. CASE Stalls \/ (\E p \in Pipes : Completes(p) \/ Fails(p))
    <3>1. PICK p \in Pipes : Answered(p)
      BY <2>1, AnswerStep DEF Inv, Typed
    <3>2. CASE p = "ep0"
      BY <3>1, <3>2 DEF Inv, Answered, LibInv, InHub
    <3>3. CASE p \in Endpoints
      BY <3>1, <3>3 DEF Inv, Answered, LibInv, InHub
    <3> QED BY <3>2, <3>3 DEF Pipes, Endpoints
  <2>2. CASE Plug \/ (Unplug /\ NotBeforePoll) \/ ConnectionInterrupt \/ SecondEvent
    <3>1. UNCHANGED <<lib, dev>>
      BY <2>2 DEF Plug, Unplug, ConnectionInterrupt, SecondEvent
    <3> QED BY <3>1 DEF Inv, LibInv, InHub
  <2> QED BY <1>2, <2>1, <2>2 DEF Bus, Interrupt
<1>3. CASE Client
  <2>1. CASE ClientRemoves
    <3>1. Removed
      BY <2>1, RemovesStep
    <3> QED BY <2>1, <3>1 DEF Inv, Removed, ClientRemoves, LibInv, InHub
  <2>2. CASE (\E p \in Endpoints : TakesEndpoint(p)) \/ (InCallback \/ OutCallback) \/ ControlCallback \/
              Message \/ ClientClaims \/ ClientCancels \/ ClientReleases
    <3>1. UNCHANGED <<lib, dev>>
      BY <2>2 DEF TakesEndpoint, InCallback, OutCallback, ControlCallback, Message, ClientClaims, ClientCancels,
         ClientReleases
    <3> QED BY <3>1 DEF Inv, LibInv, InHub
  <2> QED BY <1>3, <2>1, <2>2 DEF Client
<1>4. CASE Engine \/ WriteTimeout \/ User
  <2>1. CASE EngineRemoves
    <3>1. Removed
      BY <2>1, RemovesStep
    <3> QED BY <2>1, <3>1 DEF Inv, Removed, EngineRemoves, LibInv, InHub
  <2>2. CASE Found
    BY <2>2 DEF Inv, Typed, Found, Opens, Settled, Step, LibInv, InHub, DevTyped, DevObject
  <2>3. CASE Claim
    <3>1. CASE Enabled
      BY <2>3, <3>1, ClaimStep DEF Inv, LibInv, InHub, Claim
    <3>2. CASE ~Enabled
      BY <2>3, <3>2, RemovesStep DEF Inv, LibInv, InHub, Removed, Claim
    <3> QED BY <3>1, <3>2
  <2>4. CASE RequestSetup
    BY <2>4, RequestSetupStep DEF Inv, LibInv, InHub
  <2>5. CASE EngineCloses \/ EngineCancels \/ EngineReleases \/ EngineClosed \/ NoticeGone \/ AutoConnect \/
              OpenFailed \/ NotFound \/ FirstPoll \/ Assign \/ SetupAnswered \/ Opened \/ Write \/ WriteDone \/
              WriteTimeout \/ Connect \/ Disconnect
    <3>1. UNCHANGED <<lib, dev>>
      BY <2>5 DEF EngineCloses, EngineCancels, EngineReleases, EngineClosed, NoticeGone, AutoConnect, OpenFailed,
         NotFound, FirstPoll, Assign, SetupAnswered, Opened, Write, WriteDone, WriteTimeout, Connect, Disconnect,
         hostVars
    <3> QED BY <3>1 DEF Inv, LibInv, InHub
  <2> QED BY <1>4, <2>1, <2>2, <2>3, <2>4, <2>5 DEF Engine, User
<1> QED BY <1>1, <1>2, <1>3, <1>4 DEF Next

\* The hub driver's state follows the root port's.
LEMMA PortKept ==
    ASSUME Inv, ~Races, Next
    PROVE  (PortInv /\ ResetInv)'
<1>1. CASE Lib
  <2>0. LibTurn /\ ClientCaughtUp /\ UNCHANGED linkVars
    BY <1>1 DEF Lib
  <2>1. CASE LibTake
    BY <2>1 DEF Inv, Typed, LibTake, PortInv, ResetInv, LibTyped, LibObject
  <2>2. CASE UsbhTake
    BY <2>2, UsbhTakeStep DEF Inv, Typed, PortInv, ResetInv
  <2>3. CASE HaltAndFlush
    BY <2>3, HaltStep DEF Inv, Typed, PortInv, ResetInv
  <2>4. CASE DefaultPipe
    BY <2>4, DefaultPipeStep DEF Inv, PortInv, ResetInv
  <2>5. CASE SendGone
    BY <2>5, SendGoneStep DEF Inv, PortInv, ResetInv
  <2>6. CASE SendNew
    BY <2>6 DEF Inv, Typed, SendNew, Device, Rest, PortInv, ResetInv, LibTyped, LibObject
  <2>7. CASE Free
    BY <2>7, FreeStep DEF Inv, Typed, PortInv, ResetInv, Gone
  <2>8. CASE HubTake
    BY <2>8, HubTakeStep DEF Inv, Typed, PortInv, ResetInv
  <2>9. CASE PortLost
    BY <2>9, PortLostStep DEF Inv, Typed, PortInv, ResetInv
  <2>10. CASE NoEvent
    BY <2>10 DEF Inv, Typed, NoEvent, HubDone, Rest, PortInv, ResetInv, LibTyped, LibObject
  <2>11. CASE Connection
    BY <2>11 DEF Inv, Typed, Connection, PortInv, ResetInv, PortTyped, PortObject
  <2>12. CASE Debounced
    BY <2>12 DEF Inv, Typed, Debounced, PortInv, ResetInv, PortTyped, PortObject, LibTyped, LibObject
  <2>13. CASE ResetPort \/ ResetDone
    BY <2>13, ResetStep DEF Inv, Typed, PortInv, ResetInv
  <2>14. CASE Recover
    BY <2>14 DEF Inv, Typed, Recover, Recoverable, Panic, HubDone, Rest, PortInv, ResetInv, LibInv, RecoverInv,
       HubTyped, HubObject, LibTyped, LibObject
  <2>15. CASE EnumStart
    BY <2>15, EnumStartStep DEF Inv, Typed, PortInv, ResetInv, Staged
  <2>16. CASE EnumTransfer("get", "check", "cleanup failed")
    <3>1. Transferred("get", "check", "cleanup failed")
      BY <2>16, EnumTransferStep DEF Inv, Typed
    <3> QED BY <3>1 DEF Inv, Transferred, Staged, PortInv, ResetInv
  <2>17. CASE EnumCheck("check", "get string", "cleanup failed")
    <3>1. Checked("check", "get string", "cleanup failed")
      BY <2>17, EnumCheckStep DEF Inv, Typed
    <3> QED BY <3>1 DEF Inv, Checked, Staged, PortInv, ResetInv
  <2>18. CASE EnumTransfer("get string", "check string", "cleanup")
    <3>1. Transferred("get string", "check string", "cleanup")
      BY <2>18, EnumTransferStep DEF Inv, Typed
    <3> QED BY <3>1 DEF Inv, Transferred, Staged, PortInv, ResetInv
  <2>19. CASE EnumCheck("check string", "cleanup", "cleanup")
    <3>1. Checked("check string", "cleanup", "cleanup")
      BY <2>19, EnumCheckStep DEF Inv, Typed
    <3> QED BY <3>1 DEF Inv, Checked, Staged, PortInv, ResetInv
  <2>20. CASE EnumCleanup
    BY <2>20, EnumCleanupStep DEF Inv, PortInv, ResetInv, StageInv
  <2>21. CASE EnumFailed
    BY <2>21, EnumFailedStep DEF Inv, Typed, PortInv, ResetInv, StageInv, Gone
  <2>22. CASE EnumNothing
    BY <2>22 DEF Inv, Typed, EnumNothing, Enum, StageDone, HubDone, Rest, PortInv, ResetInv, LibTyped, LibObject
  <2> QED BY <1>1, <2>1, <2>2, <2>3, <2>4, <2>5, <2>6, <2>7, <2>8, <2>9, <2>10, <2>11, <2>12, <2>13, <2>14, <2>15,
     <2>16, <2>17, <2>18, <2>19, <2>20, <2>21, <2>22 DEF Lib, LibGoesOn
<1>2. CASE Bus
  <2>0. UNCHANGED linkVars
    BY <1>2 DEF Bus
  <2>1. CASE (Unplug /\ NotBeforePoll)
    BY <2>1, UnplugStep DEF Inv, Typed, PortInv, ResetInv
  <2>2. CASE ConnectionInterrupt
    BY <2>2 DEF Inv, Typed, ConnectionInterrupt, RootEvent, Notify, PortInv, ResetInv, LibInv, PortTyped, PortObject,
       HubTyped, HubObject
  <2>3. CASE SecondEvent
    BY <2>3 DEF Inv, Typed, SecondEvent, Quiet, InGap, RootEvent, Notify, PortInv, ResetInv, PortTyped, PortObject,
       HubTyped, HubObject
  <2>4. CASE Stalls \/ (\E p \in Pipes : Completes(p) \/ Fails(p))
    <3>1. PICK p \in Pipes : Answered(p)
      BY <2>4, AnswerStep DEF Inv, Typed
    <3>2. CASE p = "ep0"
      BY <3>1, <3>2 DEF Inv, Answered, PortInv, ResetInv
    <3>3. CASE p \in Endpoints
      BY <3>1, <3>3 DEF Inv, Answered, PortInv, ResetInv
    <3> QED BY <3>2, <3>3 DEF Pipes, Endpoints
  <2>5. CASE Plug
    <3>1. UNCHANGED <<lib, hub, port>>
      BY <2>5 DEF Plug
    <3> QED BY <3>1 DEF Inv, PortInv, ResetInv
  <2> QED BY <1>2, <2>1, <2>2, <2>3, <2>4, <2>5 DEF Bus, Interrupt
<1>3. CASE Client
  <2>1. UNCHANGED <<lib, hub, port>>
    BY <1>3, LinkSteps
  <2> QED BY <2>1 DEF Inv, PortInv, ResetInv
<1>4. CASE Engine \/ WriteTimeout \/ User
  <2>1. UNCHANGED <<lib, hub, port>>
    BY <1>4, LinkSteps
  <2> QED BY <2>1 DEF Inv, PortInv, ResetInv
<1> QED BY <1>1, <1>2, <1>3, <1>4 DEF Next

LEMMA StagedEvent ==
    ASSUME EventInv, "root" \notin lib.acts, lib'.at = "hub take", port' = port,
           hub.actions \subseteq hub'.actions
    PROVE  EventInv'
<1>1. port.event # "none" => "root" \in hub'.actions
  BY DEF EventInv
<1> QED BY <1>1 DEF EventInv

\* An event of the port is never without the flag that tells the hub driver of it.
LEMMA EventKept ==
    ASSUME Inv, ~Races, Next
    PROVE  EventInv'
<1>1. CASE Lib
  <2>0. LibTurn /\ ClientCaughtUp /\ UNCHANGED linkVars
    BY <1>1 DEF Lib
  <2>1. CASE LibTake
    BY <2>1 DEF Inv, LibTake, EventInv
  <2>2. CASE UsbhTake
    BY <2>2, UsbhTakeStep DEF Inv, Typed, EventInv
  <2>3. CASE HaltAndFlush
    BY <2>3, HaltStep DEF Inv, Typed, EventInv
  <2>4. CASE DefaultPipe
    BY <2>4, DefaultPipeStep DEF Inv, EventInv
  <2>5. CASE SendGone
    BY <2>5, SendGoneStep DEF Inv, EventInv
  <2>6. CASE SendNew
    BY <2>6 DEF Inv, SendNew, Rest, EventInv
  <2>7. CASE Free
    BY <2>7, FreeStep DEF Inv, Typed, EventInv, Gone
  <2>8. CASE HubTake
    BY <2>8, HubTakeStep DEF Inv, Typed, EventInv
  <2>9. CASE PortLost
    BY <2>9, PortLostStep DEF Inv, Typed, EventInv
  <2>10. CASE NoEvent
    BY <2>10 DEF NoEvent, EventInv
  <2>11. CASE Connection
    BY <2>11 DEF Connection, EventInv
  <2>12. CASE Debounced
    BY <2>12 DEF Inv, Debounced, EventInv
  <2>13. CASE ResetPort \/ ResetDone
    BY <2>13, ResetStep DEF Inv, Typed, EventInv, ResetInv, RecoverInv, InLib, InHub
  <2>14. CASE Recover
    BY <2>14 DEF Recover, EventInv
  <2>15. CASE EnumStart
    <3>1. "root" \notin lib.acts /\ lib'.at = "hub take" /\ port' = port /\ hub.actions \subseteq hub'.actions
      BY <2>15, EnumStartStep DEF Inv, Typed, Staged
    <3> QED BY <3>1, StagedEvent DEF Inv
  <2>16. CASE EnumTransfer("get", "check", "cleanup failed")
    <3>1. Transferred("get", "check", "cleanup failed")
      BY <2>16, EnumTransferStep DEF Inv, Typed
    <3>2. "root" \notin lib.acts /\ lib'.at = "hub take" /\ port' = port /\ hub.actions \subseteq hub'.actions
      BY <3>1 DEF Transferred, Staged
    <3> QED BY <3>2, StagedEvent DEF Inv
  <2>17. CASE EnumCheck("check", "get string", "cleanup failed")
    <3>1. Checked("check", "get string", "cleanup failed")
      BY <2>17, EnumCheckStep DEF Inv, Typed
    <3>2. "root" \notin lib.acts /\ lib'.at = "hub take" /\ port' = port /\ hub.actions \subseteq hub'.actions
      BY <3>1 DEF Checked, Staged
    <3> QED BY <3>2, StagedEvent DEF Inv
  <2>18. CASE EnumTransfer("get string", "check string", "cleanup")
    <3>1. Transferred("get string", "check string", "cleanup")
      BY <2>18, EnumTransferStep DEF Inv, Typed
    <3>2. "root" \notin lib.acts /\ lib'.at = "hub take" /\ port' = port /\ hub.actions \subseteq hub'.actions
      BY <3>1 DEF Transferred, Staged
    <3> QED BY <3>2, StagedEvent DEF Inv
  <2>19. CASE EnumCheck("check string", "cleanup", "cleanup")
    <3>1. Checked("check string", "cleanup", "cleanup")
      BY <2>19, EnumCheckStep DEF Inv, Typed
    <3>2. "root" \notin lib.acts /\ lib'.at = "hub take" /\ port' = port /\ hub.actions \subseteq hub'.actions
      BY <3>1 DEF Checked, Staged
    <3> QED BY <3>2, StagedEvent DEF Inv
  <2>20. CASE EnumCleanup
    <3>1. "root" \notin lib.acts /\ lib'.at = "hub take" /\ port' = port /\ hub.actions \subseteq hub'.actions
      BY <2>20, EnumCleanupStep
    <3> QED BY <3>1, StagedEvent DEF Inv
  <2>21. CASE EnumFailed
    <3>1. "root" \notin lib.acts /\ lib'.at = "hub take" /\ port' = port /\ hub.actions \subseteq hub'.actions
      BY <2>21, EnumFailedStep DEF Inv, Typed, Gone
    <3> QED BY <3>1, StagedEvent DEF Inv
  <2>22. CASE EnumNothing
    BY <2>22 DEF Inv, EnumNothing, StageDone, HubDone, Rest, EventInv
  <2> QED BY <1>1, <2>1, <2>2, <2>3, <2>4, <2>5, <2>6, <2>7, <2>8, <2>9, <2>10, <2>11, <2>12, <2>13, <2>14, <2>15,
     <2>16, <2>17, <2>18, <2>19, <2>20, <2>21, <2>22 DEF Lib, LibGoesOn
<1>2. CASE Bus
  <2>0. UNCHANGED linkVars
    BY <1>2 DEF Bus
  <2>1. CASE (Unplug /\ NotBeforePoll)
    BY <2>1, UnplugStep DEF Inv, Typed, EventInv, InGap
  <2>2. CASE ConnectionInterrupt
    <3>1. port'.event = "connection" /\ "root" \in hub'.actions /\ lib' = lib
      BY <2>2 DEF ConnectionInterrupt, RootEvent
    <3>2. ~(lib.at = "hub" /\ "recover" \in lib.acts)
      BY <2>2 DEF Inv, ConnectionInterrupt, PortInv, RecoverInv, InLib, InHub
    <3> QED BY <3>1, <3>2 DEF EventInv
  <2>3. CASE SecondEvent
    BY <2>3 DEF Inv, Typed, SecondEvent, Quiet, InGap, RootEvent, Notify, EventInv, HubTyped, HubObject
  <2>4. CASE Stalls \/ (\E p \in Pipes : Completes(p) \/ Fails(p))
    <3>1. PICK p \in Pipes : Answered(p)
      BY <2>4, AnswerStep DEF Inv, Typed
    <3>2. CASE p = "ep0"
      BY <3>1, <3>2 DEF Inv, Answered, EventInv
    <3>3. CASE p \in Endpoints
      BY <3>1, <3>3 DEF Inv, Answered, EventInv
    <3> QED BY <3>2, <3>3 DEF Pipes, Endpoints
  <2>5. CASE Plug
    <3>1. UNCHANGED <<lib, hub, port>>
      BY <2>5 DEF Plug
    <3> QED BY <3>1 DEF Inv, EventInv
  <2> QED BY <1>2, <2>1, <2>2, <2>3, <2>4, <2>5 DEF Bus, Interrupt
<1>3. CASE Client
  <2>1. UNCHANGED <<lib, hub, port>>
    BY <1>3, LinkSteps
  <2> QED BY <2>1 DEF Inv, EventInv
<1>4. CASE Engine \/ WriteTimeout \/ User
  <2>1. UNCHANGED <<lib, hub, port>>
    BY <1>4, LinkSteps
  <2> QED BY <2>1 DEF Inv, EventInv
<1> QED BY <1>1, <1>2, <1>3, <1>4 DEF Next

\* An enumeration is under way only while the hub driver enumerates, or cleans up after the port is lost.
LEMMA StageKept ==
    ASSUME Inv, ~Races, Next
    PROVE  StageInv'
<1>1. CASE Lib
  <2>0. LibTurn /\ ClientCaughtUp /\ UNCHANGED linkVars
    BY <1>1 DEF Lib
  <2>1. CASE Free
    BY <2>1, FreeStep DEF Inv, Typed, StageInv
  <2>2. CASE HubTake
    BY <2>2, HubTakeStep DEF Inv, Typed, StageInv
  <2>3. CASE PortLost
    BY <2>3, PortLostStep DEF Inv, Typed, StageInv
  <2>4. CASE ResetPort \/ ResetDone
    BY <2>4, ResetStep DEF Inv, Typed, StageInv
  <2>5. CASE Recover
    BY <2>5 DEF Inv, Typed, Recover, Recoverable, Panic, HubDone, Rest, StageInv, PortInv, ResetInv, LibInv,
       RecoverInv, InLib, InHub, HubTyped, HubObject
  <2>6. CASE EnumStart
    BY <2>6, EnumStartStep DEF Inv, Typed, StageInv, Staged
  <2>7. CASE EnumTransfer("get", "check", "cleanup failed")
    <3>1. Transferred("get", "check", "cleanup failed")
      BY <2>7, EnumTransferStep DEF Inv, Typed
    <3> QED BY <3>1 DEF Inv, Transferred, Staged, StageInv
  <2>8. CASE EnumCheck("check", "get string", "cleanup failed")
    <3>1. Checked("check", "get string", "cleanup failed")
      BY <2>8, EnumCheckStep DEF Inv, Typed
    <3> QED BY <3>1 DEF Inv, Checked, Staged, StageInv
  <2>9. CASE EnumTransfer("get string", "check string", "cleanup")
    <3>1. Transferred("get string", "check string", "cleanup")
      BY <2>9, EnumTransferStep DEF Inv, Typed
    <3> QED BY <3>1 DEF Inv, Transferred, Staged, StageInv
  <2>10. CASE EnumCheck("check string", "cleanup", "cleanup")
    <3>1. Checked("check string", "cleanup", "cleanup")
      BY <2>10, EnumCheckStep DEF Inv, Typed
    <3> QED BY <3>1 DEF Inv, Checked, Staged, StageInv
  <2>11. CASE EnumCleanup
    BY <2>11, EnumCleanupStep DEF StageInv
  <2>12. CASE EnumFailed
    BY <2>12, EnumFailedStep DEF Inv, Typed, StageInv
  <2>13. CASE LibTake \/ UsbhTake \/ HaltAndFlush \/ DefaultPipe \/ SendGone \/ SendNew \/ NoEvent \/
              Connection \/ Debounced \/ EnumNothing
    <3>1. UNCHANGED <<hub>>
      BY <2>13 DEF LibTake, UsbhTake, HaltAndFlush, DefaultPipe, SendGone, SendNew, NoEvent, Connection, Debounced,
         EnumNothing
    <3> QED BY <3>1 DEF Inv, StageInv
  <2> QED BY <1>1, <2>1, <2>2, <2>3, <2>4, <2>5, <2>6, <2>7, <2>8, <2>9, <2>10, <2>11, <2>12, <2>13 DEF Lib, LibGoesOn
<1>2. CASE Bus
  <2>0. UNCHANGED linkVars
    BY <1>2 DEF Bus
  <2>1. CASE (Unplug /\ NotBeforePoll)
    BY <2>1, UnplugStep DEF Inv, Typed, StageInv
  <2>2. CASE ConnectionInterrupt
    BY <2>2 DEF Inv, Typed, ConnectionInterrupt, RootEvent, StageInv, HubTyped, HubObject
  <2>3. CASE SecondEvent
    BY <2>3 DEF Inv, Typed, SecondEvent, Quiet, InGap, RootEvent, Notify, StageInv, HubTyped, HubObject
  <2>4. CASE Stalls \/ (\E p \in Pipes : Completes(p) \/ Fails(p))
    <3>1. PICK p \in Pipes : Answered(p)
      BY <2>4, AnswerStep DEF Inv, Typed
    <3>2. CASE p = "ep0"
      BY <3>1, <3>2 DEF Inv, Answered, StageInv
    <3>3. CASE p \in Endpoints
      BY <3>1, <3>3 DEF Inv, Answered, StageInv
    <3> QED BY <3>2, <3>3 DEF Pipes, Endpoints
  <2>5. CASE Plug
    <3>1. UNCHANGED <<hub>>
      BY <2>5 DEF Plug
    <3> QED BY <3>1 DEF Inv, StageInv
  <2> QED BY <1>2, <2>1, <2>2, <2>3, <2>4, <2>5 DEF Bus, Interrupt
<1>3. CASE Client
  <2>1. UNCHANGED <<hub>>
    BY <1>3, LinkSteps
  <2> QED BY <2>1 DEF Inv, StageInv
<1>4. CASE Engine \/ WriteTimeout \/ User
  <2>1. UNCHANGED <<hub>>
    BY <1>4, LinkSteps
  <2> QED BY <2>1 DEF Inv, StageInv
<1> QED BY <1>1, <1>2, <1>3, <1>4 DEF Next

-----------------------------------------------------------------------------
(* The device and its enumeration *)

\* The port is recovered once, after the device is gone.
LEMMA RecoverKept ==
    ASSUME Inv, ~Races, Next
    PROVE  RecoverInv'
<1>1. CASE Lib
  <2>0. LibTurn /\ ClientCaughtUp /\ UNCHANGED linkVars
    BY <1>1 DEF Lib
  <2>1. CASE LibTake
    BY <2>1 DEF Inv, LibTake, RecoverInv, InHub, InLib
  <2>2. CASE UsbhTake
    BY <2>2, UsbhTakeStep DEF Inv, Typed, RecoverInv, InHub, InLib
  <2>3. CASE HaltAndFlush
    BY <2>3, HaltStep DEF Inv, Typed, RecoverInv, InHub, InLib
  <2>4. CASE DefaultPipe
    BY <2>4, DefaultPipeStep DEF Inv, RecoverInv, InHub, InLib
  <2>5. CASE SendGone
    BY <2>5, SendGoneStep DEF Inv, RecoverInv, InHub, InLib
  <2>6. CASE SendNew
    BY <2>6 DEF Inv, SendNew, Rest, RecoverInv, InHub, InLib
  <2>7. CASE Free
    BY <2>7, FreeStep DEF Inv, Typed, RecoverInv, InHub, InLib, StageInv, DevInv, ResetInv, PortInv, LibInv, Gone,
       ActInv, FlagsOf, LibFlags
  <2>8. CASE HubTake
    BY <2>8, HubTakeStep DEF Inv, Typed, RecoverInv, InHub, InLib
  <2>9. CASE PortLost
    BY <2>9, PortLostStep DEF Inv, Typed, RecoverInv, InHub, InLib, StageInv, DevInv
  <2>10. CASE NoEvent
    BY <2>10 DEF Inv, NoEvent, HubDone, Rest, RecoverInv, InHub, InLib
  <2>11. CASE Connection
    BY <2>11 DEF Inv, Connection, RecoverInv, InHub, InLib
  <2>12. CASE Debounced
    BY <2>12 DEF Inv, Debounced, RecoverInv, InHub, InLib
  <2>13. CASE ResetPort \/ ResetDone
    BY <2>13, ResetStep DEF Inv, Typed, RecoverInv, InHub, InLib, ResetInv
  <2>14. CASE Recover
    BY <2>14 DEF Inv, Typed, Recover, Recoverable, Panic, HubDone, Rest, RecoverInv, InHub, InLib, HubTyped,
       HubObject, LibTyped, LibObject
  <2>15. CASE EnumStart
    BY <2>15, EnumStartStep DEF Inv, Typed, RecoverInv, InHub, InLib, Staged
  <2>16. CASE EnumTransfer("get", "check", "cleanup failed")
    <3>1. Transferred("get", "check", "cleanup failed")
      BY <2>16, EnumTransferStep DEF Inv, Typed
    <3> QED BY <3>1 DEF Inv, Transferred, Staged, RecoverInv, InHub, InLib
  <2>17. CASE EnumCheck("check", "get string", "cleanup failed")
    <3>1. Checked("check", "get string", "cleanup failed")
      BY <2>17, EnumCheckStep DEF Inv, Typed
    <3> QED BY <3>1 DEF Inv, Checked, Staged, RecoverInv, InHub, InLib
  <2>18. CASE EnumTransfer("get string", "check string", "cleanup")
    <3>1. Transferred("get string", "check string", "cleanup")
      BY <2>18, EnumTransferStep DEF Inv, Typed
    <3> QED BY <3>1 DEF Inv, Transferred, Staged, RecoverInv, InHub, InLib
  <2>19. CASE EnumCheck("check string", "cleanup", "cleanup")
    <3>1. Checked("check string", "cleanup", "cleanup")
      BY <2>19, EnumCheckStep DEF Inv, Typed
    <3> QED BY <3>1 DEF Inv, Checked, Staged, RecoverInv, InHub, InLib
  <2>20. CASE EnumCleanup
    BY <2>20, EnumCleanupStep DEF Inv, RecoverInv, InLib
  <2>21. CASE EnumFailed
    BY <2>21, EnumFailedStep DEF Inv, Typed, RecoverInv, InLib, Gone
  <2>22. CASE EnumNothing
    BY <2>22 DEF Inv, Typed, EnumNothing, Enum, StageDone, HubDone, Rest, RecoverInv, InLib
  <2> QED BY <1>1, <2>1, <2>2, <2>3, <2>4, <2>5, <2>6, <2>7, <2>8, <2>9, <2>10, <2>11, <2>12, <2>13, <2>14, <2>15,
     <2>16, <2>17, <2>18, <2>19, <2>20, <2>21, <2>22 DEF Lib, LibGoesOn
<1>2. CASE Bus
  <2>0. UNCHANGED linkVars
    BY <1>2 DEF Bus
  <2>1. CASE (Unplug /\ NotBeforePoll)
    BY <2>1, UnplugStep DEF Inv, Typed, RecoverInv, InHub, InLib
  <2>2. CASE ConnectionInterrupt
    BY <2>2 DEF Inv, ConnectionInterrupt, RootEvent, RecoverInv, InHub, InLib
  <2>3. CASE SecondEvent
    BY <2>3 DEF Inv, Typed, SecondEvent, Quiet, InGap, RootEvent, Notify, RecoverInv, InHub, InLib, HubTyped,
       HubObject
  <2>4. CASE Stalls \/ (\E p \in Pipes : Completes(p) \/ Fails(p))
    <3>1. hub'.state = hub.state /\ hub'.stage = hub.stage /\ lib' = lib /\ (dev'.there <=> dev.there)
          /\ ("recover" \in hub'.actions <=> "recover" \in hub.actions)
      BY <2>4, AnswerStep DEF Inv, Typed, Answered
    <3> QED BY <3>1 DEF Inv, RecoverInv, InHub, InLib
  <2>5. CASE Plug
    <3>1. UNCHANGED <<hub, dev, lib>>
      BY <2>5 DEF Plug
    <3> QED BY <3>1 DEF Inv, RecoverInv, InHub, InLib
  <2> QED BY <1>2, <2>1, <2>2, <2>3, <2>4, <2>5 DEF Bus, Interrupt
<1>3. CASE Client
  <2>1. CASE ClientRemoves
    <3>1. Removed
      BY <2>1, RemovesStep
    <3> QED BY <2>1, <3>1 DEF Inv, Removed, ClientRemoves, RecoverInv, InHub, InLib
  <2>2. CASE (\E p \in Endpoints : TakesEndpoint(p)) \/ (InCallback \/ OutCallback) \/ ControlCallback \/
              Message \/ ClientClaims \/ ClientCancels \/ ClientReleases
    <3>1. UNCHANGED <<hub, dev, lib>>
      BY <2>2 DEF TakesEndpoint, InCallback, OutCallback, ControlCallback, Message, ClientClaims, ClientCancels,
         ClientReleases
    <3> QED BY <3>1 DEF Inv, RecoverInv, InHub, InLib
  <2> QED BY <1>3, <2>1, <2>2 DEF Client
<1>4. CASE Engine \/ WriteTimeout \/ User
  <2>1. CASE EngineRemoves
    <3>1. Removed
      BY <2>1, RemovesStep
    <3> QED BY <2>1, <3>1 DEF Inv, Typed, Removed, EngineRemoves, RecoverInv, InHub, InLib
  <2>2. CASE Found
    BY <2>2 DEF Inv, Found, RecoverInv, InHub, InLib
  <2>3. CASE Claim
    <3>1. CASE Enabled
      BY <2>3, <3>1, ClaimStep DEF Inv, RecoverInv, InHub, InLib, Claim
    <3>2. CASE ~Enabled
      BY <2>3, <3>2, RemovesStep DEF Inv, Typed, RecoverInv, InHub, InLib, Removed, Claim
    <3> QED BY <3>1, <3>2
  <2>4. CASE RequestSetup
    BY <2>4, RequestSetupStep DEF Inv, RecoverInv, InHub, InLib
  <2>5. CASE EngineCloses \/ EngineCancels \/ EngineReleases \/ EngineClosed \/ NoticeGone \/ AutoConnect \/
              OpenFailed \/ NotFound \/ FirstPoll \/ Assign \/ SetupAnswered \/ Opened \/ Write \/ WriteDone \/
              WriteTimeout \/ Connect \/ Disconnect
    <3>1. UNCHANGED <<hub, dev, lib>>
      BY <2>5 DEF EngineCloses, EngineCancels, EngineReleases, EngineClosed, NoticeGone, AutoConnect, OpenFailed,
         NotFound, FirstPoll, Assign, SetupAnswered, Opened, Write, WriteDone, WriteTimeout, Connect, Disconnect,
         hostVars
    <3> QED BY <3>1 DEF Inv, RecoverInv, InHub, InLib
  <2> QED BY <1>4, <2>1, <2>2, <2>3, <2>4, <2>5 DEF Engine, User
<1> QED BY <1>1, <1>2, <1>3, <1>4 DEF Next

\* What the device object says fits the state of the hub driver.
LEMMA DevKept ==
    ASSUME Inv, ~Races, Next
    PROVE  DevInv'
<1>1. CASE Lib
  <2>0. LibTurn /\ ClientCaughtUp /\ UNCHANGED linkVars
    BY <1>1 DEF Lib
  <2>1. CASE LibTake
    BY <2>1 DEF Inv, LibTake, DevInv, IdleDev
  <2>2. CASE UsbhTake
    BY <2>2, UsbhTakeStep DEF Inv, Typed, DevInv, IdleDev
  <2>3. CASE HaltAndFlush
    BY <2>3, HaltStep DEF Inv, Typed, DevInv, IdleDev
  <2>4. CASE DefaultPipe
    BY <2>4, DefaultPipeStep DEF Inv, DevInv, LibInv
  <2>5. CASE SendGone
    BY <2>5, SendGoneStep DEF Inv, DevInv, IdleDev
  <2>6. CASE SendNew
    BY <2>6 DEF Inv, SendNew, DevInv, IdleDev
  <2>7. CASE Free
    BY <2>7, FreeStep DEF Inv, Typed, DevInv, IdleDev, ActInv, FlagsOf, LibFlags, Gone
  <2>8. CASE HubTake
    BY <2>8, HubTakeStep DEF Inv, Typed, DevInv, IdleDev
  <2>9. CASE PortLost
    BY <2>9, PortLostStep DEF Inv, Typed, DevInv, IdleDev
  <2>10. CASE NoEvent
    BY <2>10 DEF Inv, NoEvent, DevInv, IdleDev
  <2>11. CASE Connection
    BY <2>11 DEF Inv, Connection, DevInv, IdleDev
  <2>12. CASE Debounced
    BY <2>12 DEF Inv, Debounced, DevInv, IdleDev
  <2>13. CASE ResetPort \/ ResetDone
    BY <2>13, ResetStep DEF Inv, Typed, DevInv, IdleDev, PortInv
  <2>14. CASE Recover
    BY <2>14 DEF Inv, Typed, Recover, Recoverable, Panic, HubDone, Rest, DevInv, IdleDev, StageInv, PortInv, RefInv,
       ActInv, FlagsOf, LibFlags, RecoverInv, InLib, InHub, HubTyped, HubObject
  <2>15. CASE EnumStart
    BY <2>15, EnumStartStep DEF Inv, Typed, DevInv, IdleDev, StageInv, Staged
  <2>16. CASE EnumTransfer("get", "check", "cleanup failed")
    <3>1. Transferred("get", "check", "cleanup failed")
      BY <2>16, EnumTransferStep DEF Inv, Typed
    <3> QED BY <3>1 DEF Inv, Transferred, Staged, DevInv, IdleDev
  <2>17. CASE EnumCheck("check", "get string", "cleanup failed")
    <3>1. Checked("check", "get string", "cleanup failed")
      BY <2>17, EnumCheckStep DEF Inv, Typed
    <3> QED BY <3>1 DEF Inv, Checked, Staged, DevInv, IdleDev
  <2>18. CASE EnumTransfer("get string", "check string", "cleanup")
    <3>1. Transferred("get string", "check string", "cleanup")
      BY <2>18, EnumTransferStep DEF Inv, Typed
    <3> QED BY <3>1 DEF Inv, Transferred, Staged, DevInv, IdleDev
  <2>19. CASE EnumCheck("check string", "cleanup", "cleanup")
    <3>1. Checked("check string", "cleanup", "cleanup")
      BY <2>19, EnumCheckStep DEF Inv, Typed
    <3> QED BY <3>1 DEF Inv, Checked, Staged, DevInv, IdleDev
  <2>20. CASE EnumCleanup
    BY <2>20, EnumCleanupStep DEF Inv, DevInv, IdleDev
  <2>21. CASE EnumFailed
    BY <2>21, EnumFailedStep DEF Inv, Typed, DevInv, IdleDev, Gone
  <2>22. CASE EnumNothing
    BY <2>22 DEF Inv, EnumNothing, DevInv, IdleDev
  <2> QED BY <1>1, <2>1, <2>2, <2>3, <2>4, <2>5, <2>6, <2>7, <2>8, <2>9, <2>10, <2>11, <2>12, <2>13, <2>14, <2>15,
     <2>16, <2>17, <2>18, <2>19, <2>20, <2>21, <2>22 DEF Lib, LibGoesOn
<1>2. CASE Bus
  <2>0. UNCHANGED linkVars
    BY <1>2 DEF Bus
  <2>1. CASE (Unplug /\ NotBeforePoll)
    BY <2>1, UnplugStep DEF Inv, Typed, DevInv, IdleDev
  <2>2. CASE ConnectionInterrupt
    BY <2>2 DEF Inv, Typed, ConnectionInterrupt, RootEvent, Notify, DevInv, IdleDev, HubTyped, HubObject
  <2>3. CASE SecondEvent
    BY <2>3 DEF Inv, Typed, SecondEvent, Quiet, InGap, RootEvent, Notify, DevInv, IdleDev, HubTyped, HubObject
  <2>4. CASE Stalls \/ (\E p \in Pipes : Completes(p) \/ Fails(p))
    <3>1. PICK p \in Pipes : Answered(p)
      BY <2>4, AnswerStep DEF Inv, Typed
    <3>2. CASE p = "ep0"
      BY <3>1, <3>2 DEF Inv, Answered, DevInv, IdleDev
    <3>3. CASE p \in Endpoints
      BY <3>1, <3>3 DEF Inv, Answered, DevInv, IdleDev, Pipes
    <3> QED BY <3>2, <3>3 DEF Pipes, Endpoints
  <2>5. CASE Plug
    <3>1. UNCHANGED <<hub, dev, lib, pipes>>
      BY <2>5 DEF Plug
    <3> QED BY <3>1 DEF Inv, DevInv, IdleDev
  <2> QED BY <1>2, <2>1, <2>2, <2>3, <2>4, <2>5 DEF Bus, Interrupt
<1>3. CASE Client
  <2>1. CASE \E p \in Endpoints : TakesEndpoint(p)
    <3>1. PICK p \in Endpoints : Taken(p)
      BY <2>1, TakesStep DEF Inv, Typed
    <3>2. pipes'["ep0"] = pipes["ep0"] /\ hub' = hub /\ lib' = lib /\ dev' = dev
      BY <3>1 DEF Taken, Pipes, Endpoints
    <3> QED BY <3>2 DEF Inv, DevInv, IdleDev
  <2>2. CASE InCallback \/ OutCallback
    <3>1. PICK p \in Endpoints : CalledFor(p)
      BY <2>2, CallbackRuns DEF Inv, Typed
    <3>2. pipes'["ep0"] = pipes["ep0"] /\ hub' = hub /\ lib' = lib /\ dev' = dev
      BY <3>1 DEF CalledFor, Pipes, Endpoints
    <3> QED BY <3>2 DEF Inv, DevInv, IdleDev
  <2>3. CASE ClientCancels
    <3>1. Cancelled("in")
      BY <2>3, CancelsStep DEF Inv, Typed
    <3>2. pipes'["ep0"] = pipes["ep0"] /\ hub' = hub /\ lib' = lib /\ dev' = dev
      BY <2>3, <3>1 DEF Cancelled, Pipes, ClientCancels
    <3> QED BY <3>2 DEF Inv, DevInv, IdleDev
  <2>4. CASE ClientReleases
    BY <2>4, ReleaseStep DEF Inv, Typed, ClientReleases, DevInv, IdleDev
  <2>5. CASE ClientRemoves
    <3>1. Removed
      BY <2>5, RemovesStep
    <3> QED BY <2>5, <3>1 DEF Inv, Removed, ClientRemoves, DevInv, IdleDev
  <2>6. CASE ControlCallback \/ Message \/ ClientClaims
    <3>1. UNCHANGED <<hub, dev, lib, pipes>>
      BY <2>6 DEF ControlCallback, Message, ClientClaims
    <3> QED BY <3>1 DEF Inv, DevInv, IdleDev
  <2> QED BY <1>3, <2>1, <2>2, <2>3, <2>4, <2>5, <2>6 DEF Client
<1>4. CASE Engine \/ WriteTimeout \/ User
  <2>1. CASE EngineCancels
    <3>1. Cancelled("in")
      BY <2>1, CancelsStep DEF Inv, Typed
    <3>2. pipes'["ep0"] = pipes["ep0"] /\ hub' = hub /\ lib' = lib /\ dev' = dev
      BY <2>1, <3>1 DEF Cancelled, Pipes, EngineCancels
    <3> QED BY <3>2 DEF Inv, DevInv, IdleDev
  <2>2. CASE EngineReleases
    BY <2>2, ReleaseStep DEF Inv, Typed, EngineReleases, DevInv, IdleDev
  <2>3. CASE EngineRemoves
    <3>1. Removed
      BY <2>3, RemovesStep
    <3> QED BY <2>3, <3>1 DEF Inv, Removed, EngineRemoves, DevInv, IdleDev
  <2>4. CASE Found
    BY <2>4 DEF Inv, Typed, Found, Opens, DevInv, DevTyped, DevObject
  <2>5. CASE Claim
    <3>1. CASE Enabled
      BY <2>5, <3>1, ClaimStep DEF Inv, Typed, DevInv, IdleDev, Claim
    <3>2. CASE ~Enabled
      BY <2>5, <3>2, RemovesStep DEF Inv, DevInv, IdleDev, Removed, Claim
    <3> QED BY <3>1, <3>2
  <2>6. CASE FirstPoll
    <3>1. Submitted("in")
      BY <2>6, SubmitsStep DEF Inv, Typed
    <3> QED BY <2>6, <3>1 DEF Inv, Typed, Submitted, FirstPoll, Step, DevInv, IdleDev, Pipes
  <2>7. CASE RequestSetup
    <3>1. engine.at = "setup" /\ (handle # "none" => dev.listed)
      BY <2>7 DEF Inv, RequestSetup, HandleInv, RefInv
    <3> QED BY <2>7, <3>1, RequestSetupStep DEF Inv, DevInv, IdleDev
  <2>8. CASE Write
    <3>1. Submitted("out")
      BY <2>8, SubmitsStep DEF Inv, Typed
    <3> QED BY <2>8, <3>1 DEF Inv, Typed, Submitted, Write, Turn, Accepts, IsOpen, DevInv, IdleDev, Pipes
  <2>9. CASE WriteTimeout
    <3>1. Cancelled("out")
      BY <2>9, CancelsStep DEF Inv, Typed
    <3>2. pipes'["ep0"] = pipes["ep0"] /\ hub' = hub /\ lib' = lib /\ dev' = dev
      BY <2>9, <3>1 DEF WriteTimeout
    <3> QED BY <3>2 DEF Inv, DevInv, IdleDev
  <2>10. CASE EngineCloses \/ EngineClosed \/ NoticeGone \/ AutoConnect \/ OpenFailed \/ NotFound \/ Assign \/
              SetupAnswered \/ Opened \/ WriteDone \/ Connect \/ Disconnect
    <3>1. UNCHANGED <<hub, dev, lib, pipes>>
      BY <2>10 DEF EngineCloses, EngineClosed, NoticeGone, AutoConnect, OpenFailed, NotFound, Assign, SetupAnswered,
         Opened, WriteDone, Connect, Disconnect, hostVars
    <3> QED BY <3>1 DEF Inv, DevInv, IdleDev
  <2> QED BY <1>4, <2>1, <2>2, <2>3, <2>4, <2>5, <2>6, <2>7, <2>8, <2>9, <2>10 DEF Engine, User
<1> QED BY <1>1, <1>2, <1>3, <1>4 DEF Next

\* A stage that checks a transfer runs only when the transfer has come back.
LEMMA EnumKept ==
    ASSUME Inv, ~Races, Next
    PROVE  EnumInv'
<1>1. CASE Lib
  <2>0. LibTurn /\ ClientCaughtUp /\ UNCHANGED linkVars
    BY <1>1 DEF Lib
  <2>1. CASE LibTake
    BY <2>1 DEF Inv, Typed, LibTake, EnumInv, InHub, InLib, LibTyped, LibObject
  <2>2. CASE UsbhTake
    BY <2>2, UsbhTakeStep DEF Inv, Typed, EnumInv, InHub, InLib
  <2>3. CASE HaltAndFlush
    BY <2>3, HaltStep DEF Inv, Typed, EnumInv, InHub, InLib
  <2>4. CASE DefaultPipe
    BY <2>4, DefaultPipeStep DEF Inv, Typed, EnumInv, DevInv, LibInv
  <2>5. CASE SendGone
    BY <2>5, SendGoneStep DEF Inv, EnumInv, InHub, InLib
  <2>6. CASE SendNew
    BY <2>6 DEF Inv, Typed, SendNew, Device, EnumInv, DevInv, LibInv
  <2>7. CASE Free
    BY <2>7, FreeStep DEF Inv, Typed, EnumInv, DevInv, LibInv
  <2>8. CASE HubTake
    BY <2>8, HubTakeStep DEF Inv, Typed, EnumInv, InHub, InLib
  <2>9. CASE PortLost
    BY <2>9, PortLostStep DEF Inv, Typed, EnumInv, InHub, InLib
  <2>10. CASE NoEvent
    BY <2>10 DEF Inv, Typed, NoEvent, HubDone, Rest, EnumInv, InHub, InLib, LibTyped, LibObject
  <2>11. CASE Connection
    BY <2>11 DEF Inv, Typed, Connection, EnumInv, InHub, InLib, LibTyped, LibObject
  <2>12. CASE Debounced
    BY <2>12 DEF Inv, Typed, Debounced, EnumInv, InHub, InLib, LibTyped, LibObject
  <2>13. CASE ResetPort \/ ResetDone
    BY <2>13, ResetStep DEF Inv, Typed, EnumInv, InHub, InLib
  <2>14. CASE Recover
    BY <2>14 DEF Inv, Typed, Recover, Recoverable, Panic, HubDone, Rest, EnumInv, InHub, InLib, StageInv, HubTyped,
       HubObject, LibTyped, LibObject
  <2>15. CASE EnumStart
    BY <2>15, EnumStartStep DEF Inv, Typed, EnumInv, InLib, Staged
  <2>16. CASE EnumTransfer("get", "check", "cleanup failed")
    <3>1. Transferred("get", "check", "cleanup failed")
      BY <2>16, EnumTransferStep DEF Inv, Typed
    <3> QED BY <3>1 DEF Inv, Typed, Transferred, Staged, EnumInv, InHub, InLib
  <2>17. CASE EnumCheck("check", "get string", "cleanup failed")
    <3>1. Checked("check", "get string", "cleanup failed")
      BY <2>17, EnumCheckStep DEF Inv, Typed
    <3> QED BY <3>1 DEF Inv, Typed, Checked, Staged, EnumInv, InLib
  <2>18. CASE EnumTransfer("get string", "check string", "cleanup")
    <3>1. Transferred("get string", "check string", "cleanup")
      BY <2>18, EnumTransferStep DEF Inv, Typed
    <3> QED BY <3>1 DEF Inv, Typed, Transferred, Staged, EnumInv, InHub, InLib
  <2>19. CASE EnumCheck("check string", "cleanup", "cleanup")
    <3>1. Checked("check string", "cleanup", "cleanup")
      BY <2>19, EnumCheckStep DEF Inv, Typed
    <3> QED BY <3>1 DEF Checked, Staged, EnumInv
  <2>20. CASE EnumCleanup
    BY <2>20, EnumCleanupStep DEF EnumInv
  <2>21. CASE EnumFailed
    BY <2>21, EnumFailedStep DEF Inv, Typed, EnumInv
  <2>22. CASE EnumNothing
    BY <2>22 DEF EnumNothing, Enum, EnumInv
  <2> QED BY <1>1, <2>1, <2>2, <2>3, <2>4, <2>5, <2>6, <2>7, <2>8, <2>9, <2>10, <2>11, <2>12, <2>13, <2>14, <2>15,
     <2>16, <2>17, <2>18, <2>19, <2>20, <2>21, <2>22 DEF Lib, LibGoesOn
<1>2. CASE Bus
  <2>0. UNCHANGED linkVars
    BY <1>2 DEF Bus
  <2>1. CASE (Unplug /\ NotBeforePoll)
    BY <2>1, UnplugStep DEF Inv, Typed, EnumInv, InHub, InLib
  <2>2. CASE ConnectionInterrupt
    BY <2>2 DEF Inv, Typed, ConnectionInterrupt, RootEvent, Notify, EnumInv, InHub, InLib, HubTyped, HubObject
  <2>3. CASE SecondEvent
    BY <2>3 DEF Inv, Typed, SecondEvent, Quiet, InGap, RootEvent, Notify, EnumInv, InHub, InLib, HubTyped, HubObject
  <2>4. CASE Stalls \/ (\E p \in Pipes : Completes(p) \/ Fails(p))
    <3>1. PICK p \in Pipes : Answered(p)
      BY <2>4, AnswerStep DEF Inv, Typed
    <3>2. CASE p = "ep0"
      BY <3>1, <3>2 DEF Inv, Answered, EnumInv
    <3>3. CASE p \in Endpoints
      BY <3>1, <3>3 DEF Inv, Typed, Answered, EnumInv, InHub, InLib, Pipes
    <3> QED BY <3>2, <3>3 DEF Pipes, Endpoints
  <2>5. CASE Plug
    <3>1. UNCHANGED <<hub, lib, pipes>>
      BY <2>5 DEF Plug
    <3> QED BY <3>1 DEF Inv, EnumInv, InHub, InLib
  <2> QED BY <1>2, <2>1, <2>2, <2>3, <2>4, <2>5 DEF Bus, Interrupt
<1>3. CASE Client
  <2>1. CASE \E p \in Endpoints : TakesEndpoint(p)
    <3>1. PICK p \in Endpoints : Taken(p)
      BY <2>1, TakesStep DEF Inv, Typed
    <3>2. pipes'["ep0"] = pipes["ep0"] /\ hub' = hub /\ lib' = lib
      BY <3>1 DEF Taken, Pipes, Endpoints
    <3> QED BY <3>2 DEF Inv, EnumInv, InLib, InHub
  <2>2. CASE InCallback \/ OutCallback
    <3>1. PICK p \in Endpoints : CalledFor(p)
      BY <2>2, CallbackRuns DEF Inv, Typed
    <3>2. pipes'["ep0"] = pipes["ep0"] /\ hub' = hub /\ lib' = lib
      BY <3>1 DEF CalledFor, Pipes, Endpoints
    <3> QED BY <3>2 DEF Inv, EnumInv, InLib, InHub
  <2>3. CASE ClientCancels
    <3>1. Cancelled("in")
      BY <2>3, CancelsStep DEF Inv, Typed
    <3>2. pipes'["ep0"] = pipes["ep0"] /\ hub' = hub /\ lib' = lib /\ dev' = dev
      BY <2>3, <3>1 DEF Cancelled, Pipes, ClientCancels
    <3> QED BY <3>2 DEF Inv, EnumInv, InLib, InHub
  <2>4. CASE ClientReleases
    BY <2>4, ReleaseStep DEF Inv, Typed, ClientReleases, EnumInv, InHub, InLib
  <2>5. CASE ControlCallback \/ Message \/ ClientClaims \/ ClientRemoves
    <3>1. UNCHANGED <<hub, lib, pipes>>
      BY <2>5 DEF ControlCallback, Message, ClientClaims, ClientRemoves
    <3> QED BY <3>1 DEF Inv, EnumInv, InHub, InLib
  <2> QED BY <1>3, <2>1, <2>2, <2>3, <2>4, <2>5 DEF Client
<1>4. CASE Engine \/ WriteTimeout \/ User
  <2>1. CASE EngineCancels
    <3>1. Cancelled("in")
      BY <2>1, CancelsStep DEF Inv, Typed
    <3>2. pipes'["ep0"] = pipes["ep0"] /\ hub' = hub /\ lib' = lib /\ dev' = dev
      BY <2>1, <3>1 DEF Cancelled, Pipes, EngineCancels
    <3> QED BY <3>2 DEF Inv, EnumInv, InLib, InHub
  <2>2. CASE EngineReleases
    BY <2>2, ReleaseStep DEF Inv, Typed, EngineReleases, CallbackFirst, EnumInv, InHub, InLib
  <2>3. CASE Claim
    <3>1. CASE Enabled
      BY <2>3, <3>1, ClaimStep DEF Inv, Typed, EnumInv, InHub, InLib, Claim
    <3>2. CASE ~Enabled
      BY <2>3, <3>2, RemovesStep DEF Inv, EnumInv, InHub, InLib, Claim
    <3> QED BY <3>1, <3>2
  <2>4. CASE FirstPoll
    <3>1. Submitted("in")
      BY <2>4, SubmitsStep DEF Inv, Typed
    <3> QED BY <2>4, <3>1 DEF Inv, Typed, Submitted, FirstPoll, EnumInv, InHub, InLib, Pipes
  <2>5. CASE RequestSetup
    <3>1. engine.at = "setup" /\ (handle # "none" => dev.listed)
      BY <2>5 DEF Inv, RequestSetup, HandleInv, RefInv
    <3>2. dev.listed => hub.stage = "none"
      BY DEF Inv, DevInv
    <3>3. hub' = hub /\ lib' = lib /\ (hub.stage = "none" \/ pipes' = pipes)
      BY <2>5, <3>1, <3>2, RequestSetupStep
    <3> QED BY <3>3 DEF Inv, EnumInv, InLib, InHub
  <2>6. CASE Write
    <3>1. Submitted("out")
      BY <2>6, SubmitsStep DEF Inv, Typed
    <3> QED BY <2>6, <3>1 DEF Inv, Typed, Submitted, Write, Turn, Accepts, IsOpen, EnumInv, InHub, InLib, Pipes
  <2>7. CASE WriteTimeout
    <3>1. Cancelled("out")
      BY <2>7, CancelsStep DEF Inv, Typed
    <3>2. pipes'["ep0"] = pipes["ep0"] /\ hub' = hub /\ lib' = lib /\ dev' = dev
      BY <2>7, <3>1 DEF WriteTimeout
    <3> QED BY <3>2 DEF Inv, EnumInv, InLib, InHub
  <2>8. CASE EngineCloses \/ EngineRemoves \/ EngineClosed \/ NoticeGone \/ AutoConnect \/ OpenFailed \/
              Found \/ NotFound \/ Assign \/ SetupAnswered \/ Opened \/ WriteDone \/ Connect \/ Disconnect
    <3>1. UNCHANGED <<hub, lib, pipes>>
      BY <2>8 DEF EngineCloses, EngineRemoves, EngineClosed, NoticeGone, AutoConnect, OpenFailed, Found, NotFound,
         Assign, SetupAnswered, Opened, WriteDone, Connect, Disconnect, hostVars
    <3> QED BY <3>1 DEF Inv, EnumInv, InHub, InLib
  <2> QED BY <1>4, <2>1, <2>2, <2>3, <2>4, <2>5, <2>6, <2>7, <2>8 DEF Engine, User
<1> QED BY <1>1, <1>2, <1>3, <1>4 DEF Next

-----------------------------------------------------------------------------
(* The flags on their way to the client *)

\* The flags of the device, waiting or taken, fit its state: it is freed only when nobody has it open.
LEMMA ActKept ==
    ASSUME Inv, ~Races, Next
    PROVE  ActInv'
<1>1. CASE Lib
  <2>0. LibTurn /\ ClientCaughtUp /\ UNCHANGED linkVars
    BY <1>1 DEF Lib
  <2>1. CASE LibTake
    BY <2>1 DEF Inv, LibTake, ActInv, FlagsOf, LibFlags
  <2>2. CASE UsbhTake
    BY <2>2, UsbhTakeStep DEF Inv, Typed, ActInv, FlagsOf, LibFlags
  <2>3. CASE HaltAndFlush
    BY <2>3, HaltStep DEF Inv, Typed, ActInv, FlagsOf, LibFlags
  <2>4. CASE DefaultPipe
    BY <2>4, DefaultPipeStep DEF Inv, ActInv, FlagsOf, LibFlags
  <2>5. CASE SendGone
    BY <2>5, SendGoneStep DEF Inv, ActInv, FlagsOf, LibFlags
  <2>6. CASE SendNew
    BY <2>6 DEF Inv, Typed, SendNew, Device, Rest, ActInv, FlagsOf, LibFlags, LibTyped, LibObject
  <2>7. CASE Free
    BY <2>7, FreeStep DEF Inv, Typed, ActInv, FlagsOf, LibFlags, Gone
  <2>8. CASE HubTake
    BY <2>8, HubTakeStep DEF Inv, Typed, ActInv, FlagsOf, LibFlags
  <2>9. CASE PortLost
    BY <2>9, PortLostStep DEF Inv, Typed, ActInv, FlagsOf, LibFlags
  <2>10. CASE NoEvent
    BY <2>10 DEF Inv, Typed, NoEvent, HubDone, Rest, ActInv, FlagsOf, LibFlags, LibTyped, LibObject
  <2>11. CASE Connection
    BY <2>11 DEF Inv, Connection, ActInv, FlagsOf, LibFlags
  <2>12. CASE Debounced
    BY <2>12 DEF Inv, Debounced, ActInv, FlagsOf, LibFlags
  <2>13. CASE ResetPort \/ ResetDone
    BY <2>13, ResetStep DEF Inv, Typed, ActInv, FlagsOf, LibFlags
  <2>14. CASE Recover
    BY <2>14 DEF Inv, Typed, Recover, Recoverable, Panic, HubDone, Rest, ActInv, FlagsOf, LibFlags, LibTyped,
       LibObject
  <2>15. CASE EnumStart
    BY <2>15, EnumStartStep DEF Inv, Typed, ActInv, FlagsOf, LibFlags, Staged
  <2>16. CASE EnumTransfer("get", "check", "cleanup failed")
    <3>1. Transferred("get", "check", "cleanup failed")
      BY <2>16, EnumTransferStep DEF Inv, Typed
    <3> QED BY <3>1 DEF Inv, Transferred, Staged, ActInv, FlagsOf, LibFlags
  <2>17. CASE EnumCheck("check", "get string", "cleanup failed")
    <3>1. Checked("check", "get string", "cleanup failed")
      BY <2>17, EnumCheckStep DEF Inv, Typed
    <3> QED BY <3>1 DEF Inv, Checked, Staged, ActInv, FlagsOf, LibFlags
  <2>18. CASE EnumTransfer("get string", "check string", "cleanup")
    <3>1. Transferred("get string", "check string", "cleanup")
      BY <2>18, EnumTransferStep DEF Inv, Typed
    <3> QED BY <3>1 DEF Inv, Transferred, Staged, ActInv, FlagsOf, LibFlags
  <2>19. CASE EnumCheck("check string", "cleanup", "cleanup")
    <3>1. Checked("check string", "cleanup", "cleanup")
      BY <2>19, EnumCheckStep DEF Inv, Typed
    <3> QED BY <3>1 DEF Inv, Checked, Staged, ActInv, FlagsOf, LibFlags
  <2>20. CASE EnumCleanup
    BY <2>20, EnumCleanupStep DEF ActInv, FlagsOf, LibFlags
  <2>21. CASE EnumFailed
    BY <2>21, EnumFailedStep DEF Inv, Typed, ActInv, FlagsOf, LibFlags, Gone
  <2>22. CASE EnumNothing
    BY <2>22 DEF Inv, Typed, EnumNothing, Enum, StageDone, HubDone, Rest, ActInv, FlagsOf, LibFlags
  <2> QED BY <1>1, <2>1, <2>2, <2>3, <2>4, <2>5, <2>6, <2>7, <2>8, <2>9, <2>10, <2>11, <2>12, <2>13, <2>14, <2>15,
     <2>16, <2>17, <2>18, <2>19, <2>20, <2>21, <2>22 DEF Lib, LibGoesOn
<1>2. CASE Bus
  <2>0. UNCHANGED linkVars
    BY <1>2 DEF Bus
  <2>1. CASE Stalls \/ (\E p \in Pipes : Completes(p) \/ Fails(p))
    <3>1. PICK p \in Pipes : Answered(p)
      BY <2>1, AnswerStep DEF Inv, Typed
    <3>2. CASE p = "ep0"
      BY <3>1, <3>2 DEF Inv, Answered, ActInv, FlagsOf, LibFlags
    <3>3. CASE p \in Endpoints
      BY <3>1, <3>3 DEF Inv, Answered, ActInv, FlagsOf, LibFlags
    <3> QED BY <3>2, <3>3 DEF Pipes, Endpoints
  <2>2. CASE Plug \/ (Unplug /\ NotBeforePoll) \/ ConnectionInterrupt \/ SecondEvent
    <3>1. UNCHANGED <<dev, lib>>
      BY <2>2 DEF Plug, Unplug, ConnectionInterrupt, SecondEvent
    <3> QED BY <3>1 DEF Inv, ActInv, FlagsOf, LibFlags
  <2> QED BY <1>2, <2>1, <2>2 DEF Bus, Interrupt
<1>3. CASE Client
  <2>1. CASE ClientRemoves
    <3>1. Removed /\ lib' = lib
      BY <2>1, RemovesStep DEF ClientRemoves
    <3>2. CASE dev.gone /\ ~dev.pending
      BY <3>1, <3>2 DEF Inv, Removed, ActInv, FlagsOf, LibFlags
    <3>3. CASE ~(dev.gone /\ ~dev.pending)
      BY <3>1, <3>3 DEF Inv, Removed, ActInv, FlagsOf, LibFlags
    <3> QED BY <3>2, <3>3
  <2>2. CASE (\E p \in Endpoints : TakesEndpoint(p)) \/ (InCallback \/ OutCallback) \/ ControlCallback \/
              Message \/ ClientClaims \/ ClientCancels \/ ClientReleases
    <3>1. UNCHANGED <<dev, lib>>
      BY <2>2 DEF TakesEndpoint, InCallback, OutCallback, ControlCallback, Message, ClientClaims, ClientCancels,
         ClientReleases
    <3> QED BY <3>1 DEF Inv, ActInv, FlagsOf, LibFlags
  <2> QED BY <1>3, <2>1, <2>2 DEF Client
<1>4. CASE Engine \/ WriteTimeout \/ User
  <2>1. CASE EngineRemoves
    <3>1. Removed /\ lib' = lib
      BY <2>1, RemovesStep DEF EngineRemoves
    <3>2. CASE dev.gone /\ ~dev.pending
      BY <3>1, <3>2 DEF Inv, Removed, ActInv, FlagsOf, LibFlags
    <3>3. CASE ~(dev.gone /\ ~dev.pending)
      BY <3>1, <3>3 DEF Inv, Removed, ActInv, FlagsOf, LibFlags
    <3> QED BY <3>2, <3>3
  <2>2. CASE Found
    BY <2>2 DEF Inv, Typed, Found, Opens, Settled, Step, ActInv, FlagsOf, LibFlags
  <2>3. CASE Claim
    <3>1. CASE Enabled
      BY <2>3, <3>1, ClaimStep DEF Inv, ActInv, FlagsOf, LibFlags, Claim
    <3>2. CASE ~Enabled
      <4>1. Removed /\ lib' = lib
        BY <2>3, <3>2, RemovesStep DEF Claim
      <4>2. CASE dev.gone /\ ~dev.pending
        BY <4>1, <4>2 DEF Inv, Removed, ActInv, FlagsOf, LibFlags
      <4>3. CASE ~(dev.gone /\ ~dev.pending)
        BY <4>1, <4>3 DEF Inv, Removed, ActInv, FlagsOf, LibFlags
      <4> QED BY <4>2, <4>3
    <3> QED BY <3>1, <3>2
  <2>4. CASE RequestSetup
    BY <2>4, RequestSetupStep DEF Inv, ActInv, FlagsOf, LibFlags
  <2>5. CASE EngineCloses \/ EngineCancels \/ EngineReleases \/ EngineClosed \/ NoticeGone \/ AutoConnect \/
              OpenFailed \/ NotFound \/ FirstPoll \/ Assign \/ SetupAnswered \/ Opened \/ Write \/ WriteDone \/
              WriteTimeout \/ Connect \/ Disconnect
    <3>1. UNCHANGED <<dev, lib>>
      BY <2>5 DEF EngineCloses, EngineCancels, EngineReleases, EngineClosed, NoticeGone, AutoConnect, OpenFailed,
         NotFound, FirstPoll, Assign, SetupAnswered, Opened, Write, WriteDone, WriteTimeout, Connect, Disconnect,
         hostVars
    <3> QED BY <3>1 DEF Inv, ActInv, FlagsOf, LibFlags
  <2> QED BY <1>4, <2>1, <2>2, <2>3, <2>4, <2>5 DEF Engine, User
<1> QED BY <1>1, <1>2, <1>3, <1>4 DEF Next

\* As long as the client has a lost device to deal with, no other is found.
LEMMA GoneKept ==
    ASSUME Inv, ~Races, Next
    PROVE  GoneInv'
<1>1. CASE Lib
  <2>0. LibTurn /\ ClientCaughtUp /\ UNCHANGED linkVars
    BY <1>1 DEF Lib
  <2>1. CASE LibTake
    BY <2>1, <2>0 DEF Inv, Typed, LibTake, GoneInv, Leaving, Closing, LibFlags, LibTyped, LibObject, linkVars
  <2>2. CASE UsbhTake
    BY <2>2, <2>0, UsbhTakeStep DEF Inv, Typed, GoneInv, Leaving, LibFlags, linkVars
  <2>3. CASE HaltAndFlush
    BY <2>3, HaltStep DEF Inv, Typed, GoneInv, Leaving, Closing, LibFlags, ActInv, FlagsOf
  <2>4. CASE DefaultPipe
    BY <2>4, <2>0, DefaultPipeStep DEF Inv, Typed, GoneInv, Leaving, LibFlags, MsgTyped, linkVars
  <2>5. CASE SendGone
    BY <2>5, SendGoneStep DEF Inv, GoneInv, Leaving, LibFlags
  <2>6. CASE SendNew
    BY <2>6, <2>0 DEF Inv, Typed, SendNew, Device, Rest, GoneInv, Leaving, Closing, LibFlags, DevInv, LibTyped,
       LibObject, linkVars
  <2>7. CASE Free
    BY <2>7, FreeStep DEF Inv, Typed, GoneInv, Leaving, Closing, LibFlags, DevInv, LibInv, ActInv, FlagsOf
  <2>8. CASE HubTake
    BY <2>8, <2>0, HubTakeStep DEF Inv, Typed, GoneInv, Leaving, LibFlags, linkVars
  <2>9. CASE PortLost
    BY <2>9, PortLostStep DEF Inv, Typed, GoneInv
  <2>10. CASE NoEvent
    BY <2>10, <2>0 DEF Inv, Typed, NoEvent, HubDone, Rest, GoneInv, Leaving, Closing, LibFlags, DevInv, LibTyped,
       LibObject, linkVars
  <2>11. CASE Connection
    BY <2>11 DEF Inv, Typed, Connection, GoneInv, Leaving, Closing, LibFlags, DevInv, LibInv, ResetInv, PortInv,
       LibTyped, LibObject
  <2>12. CASE Debounced
    <3>1. ~dev.listed
      BY <2>12 DEF Inv, Debounced, ResetInv, PortInv, DevInv
    <3>2. ~Leaving
      BY <2>12, <2>0, <3>1 DEF Inv, Debounced, ClientCaughtUp, DevInv, IdleDev, Leaving, LibFlags, Closing
    <3>3. ~Leaving'
      BY <2>12, <2>0, <3>2 DEF Debounced, Leaving, LibFlags, linkVars
    <3> QED BY <3>3 DEF GoneInv
  <2>13. CASE ResetPort \/ ResetDone
    BY <2>13, <2>0, ResetStep DEF Inv, Typed, GoneInv, Leaving, LibFlags, linkVars
  <2>14. CASE Recover
    BY <2>14 DEF Inv, Typed, Recover, Recoverable, Panic, HubDone, Rest, GoneInv, Leaving, Closing, LibFlags, DevInv,
       LibInv, ResetInv, PortInv, StageInv, ActInv, FlagsOf, MsgTyped, HubTyped, HubObject, LibTyped, LibObject
  <2>15. CASE EnumStart
    BY <2>15, <2>0, EnumStartStep DEF Inv, Typed, GoneInv, Leaving, LibFlags, linkVars, Staged
  <2>16. CASE EnumTransfer("get", "check", "cleanup failed")
    <3>1. Transferred("get", "check", "cleanup failed")
      BY <2>16, EnumTransferStep DEF Inv, Typed
    <3> QED BY <3>1, <2>0 DEF Inv, Typed, Transferred, Staged, GoneInv, Leaving, LibFlags, linkVars
  <2>17. CASE EnumCheck("check", "get string", "cleanup failed")
    <3>1. Checked("check", "get string", "cleanup failed")
      BY <2>17, EnumCheckStep DEF Inv, Typed
    <3> QED BY <3>1, <2>0 DEF Inv, Typed, Checked, Staged, GoneInv, Leaving, LibFlags, linkVars
  <2>18. CASE EnumTransfer("get string", "check string", "cleanup")
    <3>1. Transferred("get string", "check string", "cleanup")
      BY <2>18, EnumTransferStep DEF Inv, Typed
    <3> QED BY <3>1, <2>0 DEF Inv, Typed, Transferred, Staged, GoneInv, Leaving, LibFlags, linkVars
  <2>19. CASE EnumCheck("check string", "cleanup", "cleanup")
    <3>1. Checked("check string", "cleanup", "cleanup")
      BY <2>19, EnumCheckStep DEF Inv, Typed
    <3> QED BY <3>1, <2>0 DEF Inv, Typed, Checked, Staged, GoneInv, Leaving, LibFlags, linkVars
  <2>20. CASE EnumCleanup
    <3>1. ~Leaving
      BY <2>20, EnumCleanupStep DEF Inv, GoneInv, StageInv
    <3>2. "gone" \notin dev'.actions /\ lib'.at # "device" /\ msgs' = msgs /\ client' = client
      BY <2>20, <2>0, EnumCleanupStep DEF linkVars
    <3>3. ~Leaving'
      BY <3>1, <3>2 DEF Leaving, LibFlags
    <3> QED BY <3>3 DEF GoneInv
  <2>21. CASE EnumFailed
    BY <2>21, <2>0, EnumFailedStep DEF Inv, Typed, GoneInv, Leaving, Closing, LibFlags, StageInv, linkVars, Gone
  <2>22. CASE EnumNothing
    BY <2>22, <2>0 DEF Inv, Typed, EnumNothing, Enum, StageDone, HubDone, Rest, GoneInv, Leaving, Closing, LibFlags,
       DevInv, LibTyped, LibObject, linkVars
  <2> QED BY <1>1, <2>1, <2>2, <2>3, <2>4, <2>5, <2>6, <2>7, <2>8, <2>9, <2>10, <2>11, <2>12, <2>13, <2>14, <2>15,
     <2>16, <2>17, <2>18, <2>19, <2>20, <2>21, <2>22 DEF Lib, LibGoesOn
<1>2. CASE Bus
  <2>0. UNCHANGED linkVars
    BY <1>2 DEF Bus
  <2>1. CASE (Unplug /\ NotBeforePoll)
    BY <2>1, <2>0, UnplugStep DEF Inv, Typed, GoneInv, Leaving, LibFlags, linkVars
  <2>2. CASE ConnectionInterrupt
    BY <2>2, <2>0 DEF Inv, Typed, ConnectionInterrupt, RootEvent, Notify, GoneInv, Leaving, Closing, LibFlags, DevInv,
       HubTyped, HubObject, linkVars
  <2>3. CASE SecondEvent
    BY <2>3, <2>0 DEF Inv, Typed, SecondEvent, Quiet, InGap, RootEvent, Notify, GoneInv, Leaving, Closing, LibFlags,
       DevInv, HubTyped, HubObject, linkVars
  <2>4. CASE Stalls \/ (\E p \in Pipes : Completes(p) \/ Fails(p))
    <3>1. PICK p \in Pipes : Answered(p)
      BY <2>4, AnswerStep DEF Inv, Typed
    <3>2. CASE p = "ep0"
      BY <3>1, <3>2, <2>0 DEF Inv, Typed, Answered, GoneInv, Leaving, Closing, LibFlags, linkVars
    <3>3. CASE p \in Endpoints
      BY <3>1, <3>3, <2>0 DEF Inv, Typed, Answered, GoneInv, Leaving, Closing, LibFlags, linkVars
    <3> QED BY <3>2, <3>3 DEF Pipes, Endpoints
  <2>5. CASE Plug
    <3>1. UNCHANGED <<hub, dev, lib, msgs, client>>
      BY <2>5, <2>0 DEF Plug, linkVars
    <3> QED BY <3>1 DEF Inv, GoneInv, Leaving, LibFlags
  <2> QED BY <1>2, <2>1, <2>2, <2>3, <2>4, <2>5 DEF Bus, Interrupt
<1>3. CASE Client
  <2>1. CASE \E p \in Endpoints : TakesEndpoint(p)
    <3>1. PICK p \in Endpoints : TakesEndpoint(p)
      BY <2>1
    <3>2. Taken(p)
      BY <3>1, TakesStep DEF Inv, Typed
    <3> QED BY <3>2 DEF Inv, Taken, GoneInv, Leaving, Closing, LibFlags
  <2>2. CASE InCallback \/ OutCallback
    <3>1. PICK p \in Endpoints : CalledFor(p)
      BY <2>2, CallbackRuns DEF Inv, Typed
    <3> QED BY <3>1 DEF Inv, CalledFor, GoneInv, Leaving, Closing, LibFlags
  <2>3. CASE Message
    BY <2>3 DEF Inv, Message, GoneInv, Leaving
  <2>4. CASE ClientClaims
    BY <2>4 DEF Inv, ClientClaims, GoneInv, Leaving, Closing
  <2>5. CASE ClientCancels
    <3>1. Cancelled("in")
      BY <2>5, CancelsStep DEF Inv, Typed
    <3> QED BY <2>5, <3>1 DEF Inv, ClientCancels, GoneInv, Leaving, Closing
  <2>6. CASE ClientReleases
    BY <2>6, ReleaseStep DEF Inv, ClientReleases, GoneInv, Leaving, Closing
  <2>7. CASE ClientRemoves
    <3>1. Removed /\ lib' = lib /\ msgs' = msgs /\ hub' = hub /\ (client' = client \/ client'.at = "wait")
      BY <2>7, RemovesStep DEF ClientRemoves
    <3>2. "gone" \in dev'.actions => "gone" \in dev.actions
      BY <3>1 DEF Removed
    <3> QED BY <3>1, <3>2 DEF Inv, GoneInv, Leaving, LibFlags, Closing
  <2>8. CASE ControlCallback
    <3>1. UNCHANGED <<hub, dev, lib, msgs, client>>
      BY <2>8 DEF ControlCallback
    <3> QED BY <3>1 DEF Inv, GoneInv, Leaving, LibFlags
  <2> QED BY <1>3, <2>1, <2>2, <2>3, <2>4, <2>5, <2>6, <2>7, <2>8 DEF Client
<1>4. CASE Engine \/ WriteTimeout \/ User
  <2>1. CASE EngineRemoves
    <3>1. Removed /\ lib' = lib /\ msgs' = msgs /\ hub' = hub /\ (client' = client \/ client'.at = "wait")
      BY <2>1, RemovesStep DEF EngineRemoves
    <3>2. "gone" \in dev'.actions => "gone" \in dev.actions
      BY <3>1 DEF Removed
    <3> QED BY <3>1, <3>2 DEF Inv, GoneInv, Leaving, LibFlags, Closing
  <2>2. CASE Found
    BY <2>2 DEF Inv, Typed, Found, Opens, GoneInv, Leaving, LibFlags, linkVarsButEngine
  <2>3. CASE Claim
    <3>1. CASE Enabled
      BY <2>3, <3>1, ClaimStep DEF Inv, GoneInv, Leaving, LibFlags, Claim
    <3>2. CASE ~Enabled
      <4>1. Removed /\ lib' = lib /\ msgs' = msgs /\ hub' = hub /\ (client' = client \/ client'.at = "wait")
        BY <2>3, <3>2, RemovesStep DEF Claim
      <4>2. "gone" \in dev'.actions => "gone" \in dev.actions
        BY <4>1 DEF Removed
      <4> QED BY <4>1, <4>2 DEF Inv, GoneInv, Leaving, LibFlags, Closing
    <3> QED BY <3>1, <3>2
  <2>4. CASE RequestSetup
    BY <2>4, RequestSetupStep DEF Inv, GoneInv, Leaving, LibFlags
  <2>5. CASE EngineCloses \/ EngineCancels \/ EngineReleases \/ EngineClosed \/ NoticeGone \/ AutoConnect \/
              OpenFailed \/ NotFound \/ FirstPoll \/ Assign \/ SetupAnswered \/ Opened \/ Write \/ WriteDone \/
              WriteTimeout \/ Connect \/ Disconnect
    <3>1. UNCHANGED <<hub, dev, lib, msgs, client>>
      BY <2>5 DEF EngineCloses, EngineCancels, EngineReleases, EngineClosed, NoticeGone, AutoConnect, OpenFailed,
         NotFound, FirstPoll, Assign, SetupAnswered, Opened, Write, WriteDone, WriteTimeout, Connect, Disconnect,
         linkVarsButEngine, hostVars
    <3> QED BY <3>1 DEF Inv, GoneInv, Leaving, LibFlags
  <2> QED BY <1>4, <2>1, <2>2, <2>3, <2>4, <2>5 DEF Engine, User
<1> QED BY <1>1, <1>2, <1>3, <1>4 DEF Next

\* The end of a device is told once.
LEMMA OnceKept ==
    ASSUME Inv, ~Races, Next
    PROVE  GoneOnce'
<1>1. CASE Lib
  <2>0. LibTurn /\ ClientCaughtUp /\ UNCHANGED linkVars
    BY <1>1 DEF Lib
  <2>1. CASE LibTake
    BY <2>1 DEF Inv, LibTake, GoneOnce, LibFlags
  <2>2. CASE UsbhTake
    BY <2>2, UsbhTakeStep DEF Inv, Typed, GoneOnce, LibFlags
  <2>3. CASE HaltAndFlush
    BY <2>3, HaltStep DEF Inv, Typed, GoneOnce, LibFlags
  <2>4. CASE DefaultPipe
    BY <2>4, DefaultPipeStep DEF Inv, GoneOnce, LibFlags
  <2>5. CASE SendGone
    BY <2>5, SendGoneStep DEF Inv, GoneOnce, LibFlags
  <2>6. CASE SendNew
    BY <2>6 DEF Inv, SendNew, Rest, GoneOnce, LibFlags
  <2>7. CASE Free
    BY <2>7, FreeStep DEF Inv, Typed, GoneOnce, LibFlags, Gone
  <2>8. CASE HubTake
    BY <2>8, HubTakeStep DEF Inv, Typed, GoneOnce, LibFlags
  <2>9. CASE PortLost
    <3>1. lib.at = "hub" /\ lib'.at # "device" /\ msgs' = msgs
      BY <2>9, PortLostStep DEF Inv, Typed
    <3>2. "gone" \in dev'.actions => "gone" \in dev.actions \/ hub.state = "active"
      BY <2>9, PortLostStep DEF Inv, Typed
    <3>3. hub.state = "active" => msgs = <<>>
      BY DEF Inv, GoneInv, Leaving
    <3> QED BY <3>1, <3>2, <3>3 DEF Inv, GoneOnce, LibFlags
  <2>10. CASE NoEvent
    BY <2>10 DEF Inv, NoEvent, HubDone, Rest, GoneOnce, LibFlags
  <2>11. CASE Connection
    BY <2>11 DEF Inv, Connection, GoneOnce, LibFlags
  <2>12. CASE Debounced
    BY <2>12 DEF Inv, Debounced, GoneOnce, LibFlags
  <2>13. CASE ResetPort \/ ResetDone
    BY <2>13, ResetStep DEF Inv, Typed, GoneOnce, LibFlags
  <2>14. CASE Recover
    BY <2>14 DEF Inv, Typed, Recover, Recoverable, Panic, HubDone, Rest, GoneOnce, LibFlags, LibTyped, LibObject
  <2>15. CASE EnumStart
    BY <2>15, EnumStartStep DEF Inv, Typed, GoneOnce, LibFlags, Staged
  <2>16. CASE EnumTransfer("get", "check", "cleanup failed")
    <3>1. Transferred("get", "check", "cleanup failed")
      BY <2>16, EnumTransferStep DEF Inv, Typed
    <3> QED BY <3>1 DEF Inv, Transferred, Staged, GoneOnce, LibFlags
  <2>17. CASE EnumCheck("check", "get string", "cleanup failed")
    <3>1. Checked("check", "get string", "cleanup failed")
      BY <2>17, EnumCheckStep DEF Inv, Typed
    <3> QED BY <3>1 DEF Inv, Checked, Staged, GoneOnce, LibFlags
  <2>18. CASE EnumTransfer("get string", "check string", "cleanup")
    <3>1. Transferred("get string", "check string", "cleanup")
      BY <2>18, EnumTransferStep DEF Inv, Typed
    <3> QED BY <3>1 DEF Inv, Transferred, Staged, GoneOnce, LibFlags
  <2>19. CASE EnumCheck("check string", "cleanup", "cleanup")
    <3>1. Checked("check string", "cleanup", "cleanup")
      BY <2>19, EnumCheckStep DEF Inv, Typed
    <3> QED BY <3>1 DEF Inv, Checked, Staged, GoneOnce, LibFlags
  <2>20. CASE EnumCleanup
    BY <2>20, EnumCleanupStep DEF GoneOnce, LibFlags
  <2>21. CASE EnumFailed
    BY <2>21, EnumFailedStep DEF Inv, Typed, GoneOnce, LibFlags, Gone
  <2>22. CASE EnumNothing
    BY <2>22 DEF Inv, Typed, EnumNothing, Enum, StageDone, HubDone, Rest, GoneOnce, LibFlags
  <2> QED BY <1>1, <2>1, <2>2, <2>3, <2>4, <2>5, <2>6, <2>7, <2>8, <2>9, <2>10, <2>11, <2>12, <2>13, <2>14, <2>15,
     <2>16, <2>17, <2>18, <2>19, <2>20, <2>21, <2>22 DEF Lib, LibGoesOn
<1>2. CASE Bus
  <2>0. UNCHANGED linkVars
    BY <1>2 DEF Bus
  <2>1. CASE Stalls \/ (\E p \in Pipes : Completes(p) \/ Fails(p))
    <3>1. PICK p \in Pipes : Answered(p)
      BY <2>1, AnswerStep DEF Inv, Typed
    <3>2. CASE p = "ep0"
      BY <3>1, <3>2 DEF Inv, Answered, GoneOnce, LibFlags
    <3>3. CASE p \in Endpoints
      BY <3>1, <3>3 DEF Inv, Answered, GoneOnce, LibFlags
    <3> QED BY <3>2, <3>3 DEF Pipes, Endpoints
  <2>2. CASE Plug \/ (Unplug /\ NotBeforePoll) \/ ConnectionInterrupt \/ SecondEvent
    <3>1. UNCHANGED <<dev, lib, msgs>>
      BY <2>2 DEF Plug, Unplug, ConnectionInterrupt, SecondEvent
    <3> QED BY <3>1 DEF Inv, GoneOnce, LibFlags
  <2> QED BY <1>2, <2>1, <2>2 DEF Bus, Interrupt
<1>3. CASE Client
  <2>1. CASE Message
    BY <2>1 DEF Inv, Message, GoneOnce, LibFlags
  <2>2. CASE ClientRemoves
    <3>1. Removed /\ lib' = lib /\ msgs' = msgs
      BY <2>2, RemovesStep DEF ClientRemoves
    <3>2. "gone" \in dev'.actions => "gone" \in dev.actions
      BY <3>1 DEF Removed
    <3> QED BY <3>1, <3>2 DEF Inv, GoneOnce, LibFlags
  <2>3. CASE (\E p \in Endpoints : TakesEndpoint(p)) \/ (InCallback \/ OutCallback) \/ ControlCallback \/
              ClientClaims \/ ClientCancels \/ ClientReleases
    <3>1. UNCHANGED <<dev, lib, msgs>>
      BY <2>3 DEF TakesEndpoint, InCallback, OutCallback, ControlCallback, ClientClaims, ClientCancels, ClientReleases
    <3> QED BY <3>1 DEF Inv, GoneOnce, LibFlags
  <2> QED BY <1>3, <2>1, <2>2, <2>3 DEF Client
<1>4. CASE Engine \/ WriteTimeout \/ User
  <2>1. CASE EngineRemoves
    <3>1. Removed /\ lib' = lib /\ msgs' = msgs
      BY <2>1, RemovesStep DEF EngineRemoves
    <3>2. "gone" \in dev'.actions => "gone" \in dev.actions
      BY <3>1 DEF Removed
    <3> QED BY <3>1, <3>2 DEF Inv, GoneOnce, LibFlags
  <2>2. CASE Found
    BY <2>2 DEF Inv, Found, GoneOnce, LibFlags
  <2>3. CASE Claim
    <3>1. CASE Enabled
      BY <2>3, <3>1, ClaimStep DEF Inv, GoneOnce, LibFlags, Claim
    <3>2. CASE ~Enabled
      <4>1. Removed /\ lib' = lib /\ msgs' = msgs
        BY <2>3, <3>2, RemovesStep DEF Claim
      <4>2. "gone" \in dev'.actions => "gone" \in dev.actions
        BY <4>1 DEF Removed
      <4> QED BY <4>1, <4>2 DEF Inv, GoneOnce, LibFlags
    <3> QED BY <3>1, <3>2
  <2>4. CASE RequestSetup
    BY <2>4, RequestSetupStep DEF Inv, GoneOnce, LibFlags
  <2>5. CASE EngineCloses \/ EngineCancels \/ EngineReleases \/ EngineClosed \/ NoticeGone \/ AutoConnect \/
              OpenFailed \/ NotFound \/ FirstPoll \/ Assign \/ SetupAnswered \/ Opened \/ Write \/ WriteDone \/
              WriteTimeout \/ Connect \/ Disconnect
    <3>1. UNCHANGED <<dev, lib, msgs>>
      BY <2>5 DEF EngineCloses, EngineCancels, EngineReleases, EngineClosed, NoticeGone, AutoConnect, OpenFailed,
         NotFound, FirstPoll, Assign, SetupAnswered, Opened, Write, WriteDone, WriteTimeout, Connect, Disconnect,
         hostVars
    <3> QED BY <3>1 DEF Inv, GoneOnce, LibFlags
  <2> QED BY <1>4, <2>1, <2>2, <2>3, <2>4, <2>5 DEF Engine, User
<1> QED BY <1>1, <1>2, <1>3, <1>4 DEF Next

-----------------------------------------------------------------------------
(* The pipes *)

LEMMA EnabledStays ==
    ASSUME Inv, Enabled
    PROVE  ~Leaving
BY DEF Inv, Enabled, PortInv, GoneInv

\* When the end of the device is told, no transfer of an endpoint is in flight.
LEMMA QuietKept ==
    ASSUME Inv, ~Races, Next
    PROVE  QuietInv'
<1>1. CASE Lib
  <2>0. LibTurn /\ ClientCaughtUp /\ UNCHANGED linkVars
    BY <1>1 DEF Lib
  <2>1. CASE LibTake
    BY <2>1 DEF Inv, LibTake, QuietInv, LibFlags
  <2>2. CASE UsbhTake
    BY <2>2, UsbhTakeStep DEF Inv, Typed, QuietInv, LibFlags, ActInv
  <2>3. CASE HaltAndFlush
    <3>1. SUFFICES ASSUME NEW q \in Endpoints PROVE pipes'[q].urb # "inflight"
      BY DEF QuietInv
    <3>2. pipes[q].state = "none" => pipes[q].urb = "idle"
      BY DEF Inv, PipeInv, PipeAt, Off
    <3> QED BY <2>3, <3>2, HaltStep DEF Inv, Typed
  <2>4. CASE DefaultPipe
    BY <2>4, DefaultPipeStep DEF Inv, QuietInv, LibFlags
  <2>5. CASE SendGone
    BY <2>5, SendGoneStep DEF Inv, QuietInv, LibFlags
  <2>6. CASE SendNew
    BY <2>6 DEF Inv, Typed, SendNew, Rest, QuietInv, LibFlags
  <2>7. CASE Free
    BY <2>7, FreeStep DEF Inv, Typed, QuietInv, LibFlags, Gone
  <2>8. CASE HubTake
    BY <2>8, HubTakeStep DEF Inv, Typed, QuietInv, LibFlags
  <2>9. CASE PortLost
    BY <2>9, PortLostStep DEF Inv, Typed, QuietInv, LibFlags
  <2>10. CASE NoEvent
    BY <2>10 DEF Inv, Typed, NoEvent, HubDone, Rest, QuietInv, LibFlags
  <2>11. CASE Connection
    BY <2>11 DEF Inv, Connection, QuietInv, LibFlags
  <2>12. CASE Debounced
    BY <2>12 DEF Inv, Debounced, QuietInv, LibFlags
  <2>13. CASE ResetPort \/ ResetDone
    BY <2>13, ResetStep DEF Inv, Typed, QuietInv, LibFlags
  <2>14. CASE Recover
    BY <2>14 DEF Inv, Typed, Recover, Recoverable, Panic, HubDone, Rest, QuietInv, LibFlags, LibTyped, LibObject
  <2>15. CASE EnumStart
    BY <2>15, EnumStartStep DEF Inv, Typed, QuietInv, LibFlags, Staged
  <2>16. CASE EnumTransfer("get", "check", "cleanup failed")
    <3>1. Transferred("get", "check", "cleanup failed")
      BY <2>16, EnumTransferStep DEF Inv, Typed
    <3> QED BY <3>1 DEF Inv, Transferred, Staged, QuietInv, LibFlags
  <2>17. CASE EnumCheck("check", "get string", "cleanup failed")
    <3>1. Checked("check", "get string", "cleanup failed")
      BY <2>17, EnumCheckStep DEF Inv, Typed
    <3> QED BY <3>1 DEF Inv, Checked, Staged, QuietInv, LibFlags
  <2>18. CASE EnumTransfer("get string", "check string", "cleanup")
    <3>1. Transferred("get string", "check string", "cleanup")
      BY <2>18, EnumTransferStep DEF Inv, Typed
    <3> QED BY <3>1 DEF Inv, Transferred, Staged, QuietInv, LibFlags
  <2>19. CASE EnumCheck("check string", "cleanup", "cleanup")
    <3>1. Checked("check string", "cleanup", "cleanup")
      BY <2>19, EnumCheckStep DEF Inv, Typed
    <3> QED BY <3>1 DEF Inv, Checked, Staged, QuietInv, LibFlags
  <2>20. CASE EnumCleanup
    BY <2>20, EnumCleanupStep DEF Inv, QuietInv, LibFlags
  <2>21. CASE EnumFailed
    BY <2>21, EnumFailedStep DEF Inv, Typed, QuietInv, LibFlags, Gone
  <2>22. CASE EnumNothing
    BY <2>22 DEF Inv, Typed, EnumNothing, Enum, StageDone, HubDone, Rest, QuietInv, LibFlags
  <2> QED BY <1>1, <2>1, <2>2, <2>3, <2>4, <2>5, <2>6, <2>7, <2>8, <2>9, <2>10, <2>11, <2>12, <2>13, <2>14, <2>15,
     <2>16, <2>17, <2>18, <2>19, <2>20, <2>21, <2>22 DEF Lib, LibGoesOn
<1>2. CASE Bus
  <2>0. UNCHANGED linkVars
    BY <1>2 DEF Bus
  <2>1. CASE Stalls \/ (\E p \in Pipes : Completes(p) \/ Fails(p))
    <3>1. PICK p \in Pipes : Answered(p)
      BY <2>1, AnswerStep DEF Inv, Typed
    <3>2. CASE p = "ep0"
      BY <3>1, <3>2 DEF Inv, Answered, QuietInv, LibFlags, Endpoints, Pipes
    <3>3. CASE p \in Endpoints
      BY <3>1, <3>3 DEF Inv, Answered, QuietInv, LibFlags
    <3> QED BY <3>2, <3>3 DEF Pipes, Endpoints
  <2>2. CASE Plug \/ (Unplug /\ NotBeforePoll) \/ ConnectionInterrupt \/ SecondEvent
    <3>1. UNCHANGED <<pipes, lib, msgs>>
      BY <2>2 DEF Plug, Unplug, ConnectionInterrupt, SecondEvent
    <3> QED BY <3>1 DEF Inv, QuietInv, LibFlags
  <2> QED BY <1>2, <2>1, <2>2 DEF Bus, Interrupt
<1>3. CASE Client
  <2>1. CASE \E p \in Endpoints : TakesEndpoint(p)
    <3>1. PICK p \in Endpoints : TakesEndpoint(p)
      BY <2>1
    <3>2. Taken(p)
      BY <3>1, TakesStep DEF Inv, Typed
    <3> QED BY <3>2 DEF Inv, Taken, QuietInv, LibFlags, Endpoints, Pipes
  <2>2. CASE InCallback \/ OutCallback
    <3>1. PICK p \in Endpoints : CalledFor(p)
      BY <2>2, CallbackRuns DEF Inv, Typed
    <3>2. SUFFICES ASSUME NEW q \in Endpoints, Leaving, pipes[q].urb # "inflight" PROVE pipes'[q].urb # "inflight"
      BY <3>1 DEF Inv, QuietInv, CalledFor, LibFlags, Leaving
    <3>3. ~Enabled
      BY <3>2, EnabledStays
    <3>4. pipes[p].urb \in Finished
      BY <3>1 DEF Inv, PipeInv, PipeAt, CalledFor
    <3>5. CASE q = p
      BY <3>1, <3>3, <3>4, <3>5 DEF CalledFor
    <3>6. CASE q # p
      BY <3>1, <3>2, <3>6 DEF CalledFor, Pipes, Endpoints
    <3> QED BY <3>5, <3>6
  <2>3. CASE Message
    BY <2>3 DEF Inv, Message, QuietInv
  <2>4. CASE ClientCancels
    <3>1. Cancelled("in") /\ lib' = lib /\ msgs' = msgs
      BY <2>4, CancelsStep DEF Inv, Typed, ClientCancels
    <3>2. SUFFICES ASSUME NEW q \in Endpoints, pipes[q].urb # "inflight" PROVE pipes'[q].urb # "inflight"
      BY <3>1 DEF Inv, QuietInv, LibFlags
    <3>3. CASE q = "in"
      BY <3>1, <3>2, <3>3 DEF Cancelled
    <3>4. CASE q # "in"
      BY <3>1, <3>2, <3>4 DEF Cancelled, Pipes, Endpoints
    <3> QED BY <3>3, <3>4
  <2>5. CASE ClientReleases
    BY <2>5, ReleaseStep DEF Inv, Typed, ClientReleases, QuietInv
  <2>6. CASE ControlCallback \/ ClientClaims \/ ClientRemoves
    <3>1. UNCHANGED <<pipes, lib, msgs>>
      BY <2>6 DEF ControlCallback, ClientClaims, ClientRemoves
    <3> QED BY <3>1 DEF Inv, QuietInv, LibFlags
  <2> QED BY <1>3, <2>1, <2>2, <2>3, <2>4, <2>5, <2>6 DEF Client
<1>4. CASE Engine \/ WriteTimeout \/ User
  <2>1. CASE EngineCancels
    <3>1. Cancelled("in") /\ lib' = lib /\ msgs' = msgs
      BY <2>1, CancelsStep DEF Inv, Typed, EngineCancels
    <3>2. SUFFICES ASSUME NEW q \in Endpoints, pipes[q].urb # "inflight" PROVE pipes'[q].urb # "inflight"
      BY <3>1 DEF Inv, QuietInv, LibFlags
    <3>3. CASE q = "in"
      BY <3>1, <3>2, <3>3 DEF Cancelled
    <3>4. CASE q # "in"
      BY <3>1, <3>2, <3>4 DEF Cancelled, Pipes, Endpoints
    <3> QED BY <3>3, <3>4
  <2>2. CASE EngineReleases
    BY <2>2, ReleaseStep DEF Inv, Typed, EngineReleases, QuietInv
  <2>3. CASE Claim
    <3>1. CASE Enabled
      BY <2>3, <3>1, ClaimStep DEF Inv, Typed, QuietInv
    <3>2. CASE ~Enabled
      BY <2>3, <3>2, RemovesStep DEF Inv, QuietInv, LibFlags, Claim
    <3> QED BY <3>1, <3>2
  <2>4. CASE FirstPoll
    <3>1. Enabled
      BY <2>4 DEF Inv, SubmitInv, FirstPoll
    <3>2. "gone" \notin LibFlags /\ msgs = <<>>
      BY <3>1, EnabledStays DEF Leaving
    <3>3. lib' = lib /\ msgs' = msgs /\ client' = client
      BY <2>4 DEF FirstPoll
    <3> QED BY <3>2, <3>3 DEF QuietInv, LibFlags
  <2>5. CASE RequestSetup
    BY <2>5, RequestSetupStep DEF Inv, QuietInv, LibFlags, Endpoints, Submitted, Pipes
  <2>6. CASE Write
    <3>1. Enabled
      BY <2>6 DEF Write, Accepts
    <3>2. "gone" \notin LibFlags /\ msgs = <<>>
      BY <3>1, EnabledStays DEF Leaving
    <3>3. lib' = lib /\ msgs' = msgs /\ client' = client
      BY <2>6 DEF Write
    <3> QED BY <3>2, <3>3 DEF QuietInv, LibFlags
  <2>7. CASE WriteTimeout
    <3>1. Cancelled("out") /\ lib' = lib /\ msgs' = msgs
      BY <2>7, CancelsStep DEF Inv, Typed, WriteTimeout
    <3>2. SUFFICES ASSUME NEW q \in Endpoints, pipes[q].urb # "inflight" PROVE pipes'[q].urb # "inflight"
      BY <3>1 DEF Inv, QuietInv, LibFlags
    <3>3. CASE q = "out"
      BY <3>1, <3>2, <3>3 DEF Cancelled
    <3>4. CASE q # "out"
      BY <3>1, <3>2, <3>4 DEF Cancelled, Pipes, Endpoints
    <3> QED BY <3>3, <3>4
  <2>8. CASE EngineCloses \/ EngineRemoves \/ EngineClosed \/ NoticeGone \/ AutoConnect \/ OpenFailed \/
              Found \/ NotFound \/ Assign \/ SetupAnswered \/ Opened \/ WriteDone \/ Connect \/ Disconnect
    <3>1. UNCHANGED <<pipes, lib, msgs>>
      BY <2>8 DEF EngineCloses, EngineRemoves, EngineClosed, NoticeGone, AutoConnect, OpenFailed, Found, NotFound,
         Assign, SetupAnswered, Opened, WriteDone, Connect, Disconnect, hostVars
    <3> QED BY <3>1 DEF Inv, QuietInv, LibFlags
  <2> QED BY <1>4, <2>1, <2>2, <2>3, <2>4, <2>5, <2>6, <2>7, <2>8 DEF Engine, User
<1> QED BY <1>1, <1>2, <1>3, <1>4 DEF Next

\* The client task closes the device with both endpoints at rest.
LEMMA ClosedKept ==
    ASSUME Inv, ~Races, Next
    PROVE  ClosedInv'
<1>1. CASE Lib
  <2>0. LibTurn /\ ClientCaughtUp /\ UNCHANGED linkVars
    BY <1>1 DEF Lib
  <2>1. CASE HaltAndFlush
    BY <2>1, <2>0, HaltStep DEF Inv, Typed, ClosedInv, linkVars
  <2>2. CASE DefaultPipe
    BY <2>2, <2>0, DefaultPipeStep DEF Inv, ClosedInv, linkVars
  <2>3. CASE Free
    BY <2>3, <2>0, FreeStep DEF Inv, Typed, ClosedInv, linkVars, Gone
  <2>4. CASE EnumStart
    BY <2>4, <2>0, EnumStartStep DEF Inv, Typed, ClosedInv, linkVars
  <2>5. CASE EnumTransfer("get", "check", "cleanup failed")
    <3>1. Transferred("get", "check", "cleanup failed")
      BY <2>5, EnumTransferStep DEF Inv, Typed
    <3> QED BY <3>1, <2>0 DEF Inv, Transferred, ClosedInv, linkVars
  <2>6. CASE EnumCheck("check", "get string", "cleanup failed")
    <3>1. Checked("check", "get string", "cleanup failed")
      BY <2>6, EnumCheckStep DEF Inv, Typed
    <3> QED BY <3>1, <2>0 DEF Inv, Checked, ClosedInv, linkVars
  <2>7. CASE EnumTransfer("get string", "check string", "cleanup")
    <3>1. Transferred("get string", "check string", "cleanup")
      BY <2>7, EnumTransferStep DEF Inv, Typed
    <3> QED BY <3>1, <2>0 DEF Inv, Transferred, ClosedInv, linkVars
  <2>8. CASE EnumCheck("check string", "cleanup", "cleanup")
    <3>1. Checked("check string", "cleanup", "cleanup")
      BY <2>8, EnumCheckStep DEF Inv, Typed
    <3> QED BY <3>1, <2>0 DEF Inv, Checked, ClosedInv, linkVars
  <2>9. CASE EnumFailed
    BY <2>9, <2>0, EnumFailedStep DEF Inv, Typed, ClosedInv, linkVars, Gone
  <2>10. CASE LibTake \/ UsbhTake \/ SendGone \/ SendNew \/ HubTake \/ PortLost \/ NoEvent \/ Connection \/
              Debounced \/ (ResetPort \/ ResetDone) \/ Recover \/ EnumCleanup \/ EnumNothing
    <3>1. UNCHANGED <<pipes, client>>
      BY <2>10, <2>0 DEF LibTake, UsbhTake, SendGone, SendNew, HubTake, PortLost, NoEvent, Connection, Debounced,
         ResetPort, ResetDone, Recover, EnumCleanup, EnumNothing, linkVars
    <3> QED BY <3>1 DEF Inv, ClosedInv
  <2> QED BY <1>1, <2>1, <2>2, <2>3, <2>4, <2>5, <2>6, <2>7, <2>8, <2>9, <2>10 DEF Lib, LibGoesOn
<1>2. CASE Bus
  <2>0. UNCHANGED linkVars
    BY <1>2 DEF Bus
  <2>1. CASE Stalls \/ (\E p \in Pipes : Completes(p) \/ Fails(p))
    <3>1. PICK p \in Pipes : Answered(p)
      BY <2>1, AnswerStep DEF Inv, Typed
    <3>2. CASE p = "ep0"
      BY <3>1, <3>2, <2>0 DEF Inv, Answered, ClosedInv, Endpoints, linkVars, Pipes
    <3>3. CASE p \in Endpoints
      BY <3>1, <3>3, <2>0 DEF Inv, Answered, ClosedInv, linkVars
    <3> QED BY <3>2, <3>3 DEF Pipes, Endpoints
  <2>2. CASE Plug \/ (Unplug /\ NotBeforePoll) \/ ConnectionInterrupt \/ SecondEvent
    <3>1. UNCHANGED <<pipes, client>>
      BY <2>2, <2>0 DEF Plug, Unplug, ConnectionInterrupt, SecondEvent, linkVars
    <3> QED BY <3>1 DEF Inv, ClosedInv
  <2> QED BY <1>2, <2>1, <2>2 DEF Bus, Interrupt
<1>3. CASE Client
  <2>1. CASE \E p \in Endpoints : TakesEndpoint(p)
    <3>1. PICK p \in Endpoints : TakesEndpoint(p)
      BY <2>1
    <3>2. Taken(p)
      BY <3>1, TakesStep DEF Inv, Typed
    <3> QED BY <3>2 DEF Taken, ClosedInv, Closing
  <2>2. CASE InCallback \/ OutCallback
    <3>1. PICK p \in Endpoints : CalledFor(p)
      BY <2>2, CallbackRuns DEF Inv, Typed
    <3> QED BY <3>1 DEF CalledFor, ClosedInv, Closing
  <2>3. CASE Message
    <3>1. pipes' = pipes /\ client.at = "wait" /\ msgs # <<>> /\ \A p \in Endpoints : ~pipes[p].pending
      BY <2>3 DEF Message, InOrderOfLists
    <3>2. SUFFICES ASSUME NEW q \in Endpoints PROVE pipes[q].urb = "idle" /\ ~pipes[q].pending
      BY <3>1 DEF ClosedInv
    <3>3. client.ep # q
      BY <3>1 DEF Inv, ClientInv, Endpoints
    <3>4. pipes[q].urb \notin Finished /\ pipes[q].urb # "inflight"
      BY <3>1, <3>3 DEF Inv, PipeInv, PipeAt, QuietInv
    <3>5. pipes[q] \in PipeObject
      BY DEF Inv, Typed, PipesTyped, Pipes, Endpoints
    <3> QED BY <3>1, <3>4, <3>5 DEF PipeObject
  <2>4. CASE ClientClaims
    BY <2>4 DEF Inv, ClientClaims, ClosedInv, Closing
  <2>5. CASE ClientCancels
    <3>1. Cancelled("in")
      BY <2>5, CancelsStep DEF Inv, Typed
    <3> QED BY <2>5, <3>1 DEF Inv, Cancelled, ClientCancels, CancelsPoll, ClosedInv, Closing
  <2>6. CASE ClientReleases
    BY <2>6, ReleaseStep DEF Inv, Typed, ClientReleases, ClosedInv
  <2>7. CASE ClientRemoves
    <3>1. Removed
      BY <2>7, RemovesStep
    <3> QED BY <2>7, <3>1 DEF ClientRemoves, ClosedInv, Closing
  <2>8. CASE ControlCallback
    <3>1. UNCHANGED <<pipes, client>>
      BY <2>8 DEF ControlCallback
    <3> QED BY <3>1 DEF Inv, ClosedInv
  <2> QED BY <1>3, <2>1, <2>2, <2>3, <2>4, <2>5, <2>6, <2>7, <2>8 DEF Client
<1>4. CASE Engine \/ WriteTimeout \/ User
  <2>1. CASE EngineCancels
    <3>1. Cancelled("in")
      BY <2>1, CancelsStep DEF Inv, Typed
    <3> QED BY <2>1, <3>1 DEF Inv, Cancelled, EngineCancels, CancelsPoll, ClosedInv
  <2>2. CASE EngineReleases
    BY <2>2, ReleaseStep DEF Inv, Typed, EngineReleases, ClosedInv
  <2>3. CASE Claim
    <3>1. CASE Enabled
      BY <2>3, <3>1, ClaimStep DEF Inv, Typed, ClosedInv
    <3>2. CASE ~Enabled
      BY <2>3, <3>2, RemovesStep DEF Inv, ClosedInv, Claim
    <3> QED BY <3>1, <3>2
  <2>4. CASE FirstPoll
    <3>1. Enabled
      BY <2>4 DEF Inv, SubmitInv, FirstPoll
    <3>2. client.at \notin Closing
      BY <3>1, EnabledStays DEF Leaving
    <3>3. lib' = lib /\ msgs' = msgs /\ client' = client
      BY <2>4 DEF FirstPoll
    <3> QED BY <3>2, <3>3 DEF ClosedInv
  <2>5. CASE RequestSetup
    BY <2>5, RequestSetupStep DEF Inv, ClosedInv, Endpoints, Submitted, Pipes
  <2>6. CASE Write
    <3>1. Enabled
      BY <2>6 DEF Write, Accepts
    <3>2. client.at \notin Closing
      BY <3>1, EnabledStays DEF Leaving
    <3>3. lib' = lib /\ msgs' = msgs /\ client' = client
      BY <2>6 DEF Write
    <3> QED BY <3>2, <3>3 DEF ClosedInv
  <2>7. CASE WriteTimeout
    <3>1. Cancelled("out")
      BY <2>7, CancelsStep DEF Inv, Typed
    <3> QED BY <2>7, <3>1 DEF Inv, Cancelled, WriteTimeout, ClosedInv, Endpoints, Pipes
  <2>8. CASE EngineCloses \/ EngineRemoves \/ EngineClosed \/ NoticeGone \/ AutoConnect \/ OpenFailed \/
              Found \/ NotFound \/ Assign \/ SetupAnswered \/ Opened \/ WriteDone \/ Connect \/ Disconnect
    <3>1. UNCHANGED <<pipes, client>>
      BY <2>8 DEF EngineCloses, EngineRemoves, EngineClosed, NoticeGone, AutoConnect, OpenFailed, Found, NotFound,
         Assign, SetupAnswered, Opened, WriteDone, Connect, Disconnect, linkVarsButEngine, hostVars
    <3> QED BY <3>1 DEF Inv, ClosedInv
  <2> QED BY <1>4, <2>1, <2>2, <2>3, <2>4, <2>5, <2>6, <2>7, <2>8 DEF Engine, User
<1> QED BY <1>1, <1>2, <1>3, <1>4 DEF Next

LEMMA PipesSame ==
    ASSUME PipeInv, \A p \in Endpoints : pipes'[p] = pipes[p], client' = client
    PROVE  PipeInv'
BY DEF PipeInv, PipeAt, Off

\* A finished transfer of an endpoint waits on the list of the client or is with the client task.
LEMMA PipeKept ==
    ASSUME Inv, ~Races, Next
    PROVE  PipeInv'
<1>1. CASE Lib
  <2>0. LibTurn /\ ClientCaughtUp /\ UNCHANGED linkVars
    BY <1>1 DEF Lib
  <2>1. CASE HaltAndFlush
    BY <2>1, <2>0, HaltStep DEF Inv, Typed, PipeInv, PipeAt, Off, linkVars
  <2>2. CASE DefaultPipe
    <3>1. (\A p \in Endpoints : pipes'[p] = pipes[p]) /\ client' = client
      BY <2>2, <2>0, DefaultPipeStep DEF linkVars
    <3> QED BY <3>1, PipesSame DEF Inv
  <2>3. CASE Free
    <3>1. (\A p \in Endpoints : pipes'[p] = pipes[p]) /\ client' = client
      BY <2>3, <2>0, FreeStep DEF Inv, Typed, Gone, linkVars
    <3> QED BY <3>1, PipesSame DEF Inv
  <2>4. CASE EnumStart
    <3>1. (\A p \in Endpoints : pipes'[p] = pipes[p]) /\ client' = client
      BY <2>4, <2>0, EnumStartStep DEF Inv, Typed, linkVars
    <3> QED BY <3>1, PipesSame DEF Inv
  <2>5. CASE EnumTransfer("get", "check", "cleanup failed")
    <3>1. Transferred("get", "check", "cleanup failed")
      BY <2>5, EnumTransferStep DEF Inv, Typed
    <3>2. (\A p \in Endpoints : pipes'[p] = pipes[p]) /\ client' = client
      BY <2>0, <3>1 DEF Transferred, linkVars
    <3> QED BY <3>2, PipesSame DEF Inv
  <2>6. CASE EnumCheck("check", "get string", "cleanup failed")
    <3>1. Checked("check", "get string", "cleanup failed")
      BY <2>6, EnumCheckStep DEF Inv, Typed
    <3>2. (\A p \in Endpoints : pipes'[p] = pipes[p]) /\ client' = client
      BY <2>0, <3>1 DEF Checked, linkVars
    <3> QED BY <3>2, PipesSame DEF Inv
  <2>7. CASE EnumTransfer("get string", "check string", "cleanup")
    <3>1. Transferred("get string", "check string", "cleanup")
      BY <2>7, EnumTransferStep DEF Inv, Typed
    <3>2. (\A p \in Endpoints : pipes'[p] = pipes[p]) /\ client' = client
      BY <2>0, <3>1 DEF Transferred, linkVars
    <3> QED BY <3>2, PipesSame DEF Inv
  <2>8. CASE EnumCheck("check string", "cleanup", "cleanup")
    <3>1. Checked("check string", "cleanup", "cleanup")
      BY <2>8, EnumCheckStep DEF Inv, Typed
    <3>2. (\A p \in Endpoints : pipes'[p] = pipes[p]) /\ client' = client
      BY <2>0, <3>1 DEF Checked, linkVars
    <3> QED BY <3>2, PipesSame DEF Inv
  <2>9. CASE EnumFailed
    <3>1. (\A p \in Endpoints : pipes'[p] = pipes[p]) /\ client' = client
      BY <2>9, <2>0, EnumFailedStep DEF Inv, Typed, Gone, linkVars
    <3> QED BY <3>1, PipesSame DEF Inv
  <2>10. CASE LibTake \/ UsbhTake \/ SendGone \/ SendNew \/ HubTake \/ PortLost \/ NoEvent \/ Connection \/
              Debounced \/ (ResetPort \/ ResetDone) \/ Recover \/ EnumCleanup \/ EnumNothing
    <3>1. UNCHANGED <<pipes, client>>
      BY <2>10, <2>0 DEF LibTake, UsbhTake, SendGone, SendNew, HubTake, PortLost, NoEvent, Connection, Debounced,
         ResetPort, ResetDone, Recover, EnumCleanup, EnumNothing, linkVars
    <3> QED BY <3>1 DEF Inv, PipeInv, PipeAt, Off
  <2> QED BY <1>1, <2>1, <2>2, <2>3, <2>4, <2>5, <2>6, <2>7, <2>8, <2>9, <2>10 DEF Lib, LibGoesOn
<1>2. CASE Bus
  <2>0. UNCHANGED linkVars
    BY <1>2 DEF Bus
  <2>1. CASE Stalls \/ (\E p \in Pipes : Completes(p) \/ Fails(p))
    <3>1. PICK p \in Pipes : Answered(p)
      BY <2>1, AnswerStep DEF Inv, Typed
    <3>2. CASE p = "ep0"
      BY <3>1, <3>2, <2>0 DEF Inv, Answered, PipeInv, PipeAt, Off, Endpoints, linkVars, Pipes
    <3>3. CASE p \in Endpoints
      BY <3>1, <3>3, <2>0 DEF Inv, Answered, PipeInv, PipeAt, Off, Endpoints, linkVars, Pipes
    <3> QED BY <3>2, <3>3 DEF Pipes, Endpoints
  <2>2. CASE Plug \/ (Unplug /\ NotBeforePoll) \/ ConnectionInterrupt \/ SecondEvent
    <3>1. UNCHANGED <<pipes, client>>
      BY <2>2, <2>0 DEF Plug, Unplug, ConnectionInterrupt, SecondEvent, linkVars
    <3> QED BY <3>1 DEF Inv, PipeInv, PipeAt, Off
  <2> QED BY <1>2, <2>1, <2>2 DEF Bus, Interrupt
<1>3. CASE Client
  <2>1. CASE \E p \in Endpoints : TakesEndpoint(p)
    <3>1. PICK p \in Endpoints : Taken(p)
      BY <2>1, TakesStep DEF Inv, Typed
    <3>2. SUFFICES ASSUME NEW q \in Endpoints PROVE PipeAt(q)'
      BY DEF PipeInv
    <3>3. PipeAt(q)
      BY DEF Inv, PipeInv
    <3>4. client.ep # q
      BY <3>1 DEF Inv, ClientInv, Taken, Endpoints
    <3>5. CASE q = p
      BY <3>1, <3>3, <3>4, <3>5 DEF Taken, PipeAt, Off
    <3>6. CASE q # p
      <4>1. pipes'[q] = pipes[q]
        BY <3>1, <3>6 DEF Taken, Pipes, Endpoints
      <4> QED BY <3>1, <3>3, <3>4, <3>6, <4>1 DEF Taken, PipeAt, Off
    <3> QED BY <3>5, <3>6
  <2>2. CASE InCallback \/ OutCallback
    <3>1. PICK p \in Endpoints : CalledFor(p)
      BY <2>2, CallbackRuns DEF Inv, Typed
    <3> QED BY <3>1 DEF Inv, CalledFor, PipeInv, PipeAt, Off, Endpoints, Pipes
  <2>3. CASE Message
    BY <2>3 DEF Inv, Typed, Message, PipeInv, PipeAt, Off, TasksTyped, ClientObject
  <2>4. CASE ClientClaims
    BY <2>4 DEF Inv, ClientClaims, PipeInv, PipeAt, Off
  <2>5. CASE ClientCancels
    <3>1. Cancelled("in") /\ client'.ep = client.ep
      BY <2>5, CancelsStep DEF Inv, Typed, ClientCancels
    <3>2. SUFFICES ASSUME NEW q \in Endpoints PROVE PipeAt(q)'
      BY DEF PipeInv
    <3>3. PipeAt(q)
      BY DEF Inv, PipeInv
    <3>4. ~pipes["in"].pending /\ ~pipes["in"].error /\ client.ep # "in"
      BY <2>5 DEF Inv, ClientCancels, ClosedInv, Closing, PipeInv, PipeAt, Endpoints
    <3>5. CASE q = "in"
      BY <3>1, <3>3, <3>4, <3>5 DEF Cancelled, PipeAt
    <3>6. CASE q # "in"
      <4>1. pipes'[q] = pipes[q]
        BY <3>1, <3>6 DEF Cancelled, Pipes, Endpoints
      <4> QED BY <3>1, <3>3, <3>4, <3>6, <4>1 DEF PipeAt, Off
    <3> QED BY <3>5, <3>6
  <2>6. CASE ClientReleases
    <3>1. (\A p \in Endpoints : Off(p)') /\ client'.ep = "none"
      BY <2>6, ReleaseStep DEF Inv, Typed, ClientReleases, Off, ClientInv
    <3> QED BY <3>1 DEF PipeInv, PipeAt, Off, Endpoints
  <2>7. CASE ClientRemoves
    <3>1. Removed
      BY <2>7, RemovesStep
    <3> QED BY <2>7, <3>1 DEF Inv, ClientRemoves, PipeInv, PipeAt, Off
  <2>8. CASE ControlCallback
    <3>1. UNCHANGED <<pipes, client>>
      BY <2>8 DEF ControlCallback
    <3> QED BY <3>1 DEF Inv, PipeInv, PipeAt, Off
  <2> QED BY <1>3, <2>1, <2>2, <2>3, <2>4, <2>5, <2>6, <2>7, <2>8 DEF Client
<1>4. CASE Engine \/ WriteTimeout \/ User
  <2>1. CASE EngineCancels
    <3>1. Cancelled("in") /\ client'.ep = client.ep
      BY <2>1, CancelsStep DEF Inv, Typed, EngineCancels
    <3>2. SUFFICES ASSUME NEW q \in Endpoints PROVE PipeAt(q)'
      BY DEF PipeInv
    <3>3. PipeAt(q)
      BY DEF Inv, PipeInv
    <3>4. ~pipes["in"].pending /\ ~pipes["in"].error /\ client.ep # "in"
      BY <2>1 DEF Inv, EngineCancels, NoCallback, PipeInv, PipeAt, Endpoints
    <3>5. CASE q = "in"
      BY <3>1, <3>3, <3>4, <3>5 DEF Cancelled, PipeAt
    <3>6. CASE q # "in"
      <4>1. pipes'[q] = pipes[q]
        BY <3>1, <3>6 DEF Cancelled, Pipes, Endpoints
      <4> QED BY <3>1, <3>3, <3>4, <3>6, <4>1 DEF PipeAt, Off
    <3> QED BY <3>5, <3>6
  <2>2. CASE EngineReleases
    BY <2>2, ReleaseStep DEF Inv, Typed, EngineReleases, CallbackFirst, Endable, Busy, PipeInv, PipeAt, Off
  <2>3. CASE Claim
    <3>1. CASE Enabled
      <4>1. (\A p \in Endpoints : pipes'[p].state = "active" /\ pipes'[p].urb = "idle" /\ ~pipes'[p].pending
                                  /\ ~pipes'[p].error) /\ client' = client
        BY <2>3, <3>1, ClaimStep DEF Inv, Typed, Claim
      <4>2. \A p \in Endpoints : client.ep # p
        BY <2>3 DEF Inv, Claim, CdcInv, InterfaceInv, Off, PipeInv, PipeAt
      <4> QED BY <4>1, <4>2 DEF PipeInv, PipeAt
    <3>2. CASE ~Enabled
      <4>1. (\A p \in Endpoints : pipes'[p] = pipes[p]) /\ client' = client
        BY <2>3, <3>2 DEF Claim
      <4> QED BY <4>1, PipesSame DEF Inv
    <3> QED BY <3>1, <3>2
  <2>4. CASE FirstPoll
    <3>1. Submitted("in") /\ client' = client
      BY <2>4, SubmitsStep DEF Inv, Typed, FirstPoll
    <3>2. SUFFICES ASSUME NEW q \in Endpoints PROVE PipeAt(q)'
      BY DEF PipeInv
    <3>3. PipeAt(q)
      BY DEF Inv, PipeInv
    <3>4. pipes["in"].urb = "idle" /\ pipes["in"].state = "active"
      BY <2>4 DEF Inv, FirstPoll, SubmitInv
    <3>5. CASE q = "in"
      BY <3>1, <3>3, <3>4, <3>5 DEF Submitted, PipeAt
    <3>6. CASE q # "in"
      <4>1. pipes'[q] = pipes[q]
        BY <3>1, <3>6 DEF Submitted, Pipes, Endpoints
      <4> QED BY <3>1, <3>3, <3>6, <4>1 DEF PipeAt, Off
    <3> QED BY <3>5, <3>6
  <2>5. CASE RequestSetup
    BY <2>5, RequestSetupStep DEF Inv, PipeInv, PipeAt, Off, Endpoints, Submitted, Pipes
  <2>6. CASE Write
    <3>1. Submitted("out") /\ client' = client
      BY <2>6, SubmitsStep DEF Inv, Typed, Write
    <3>2. SUFFICES ASSUME NEW q \in Endpoints PROVE PipeAt(q)'
      BY DEF PipeInv
    <3>3. PipeAt(q)
      BY DEF Inv, PipeInv
    <3>4. pipes["out"].urb = "idle" /\ pipes["out"].state = "active"
      BY <2>6 DEF Write, Accepts
    <3>5. CASE q = "out"
      BY <3>1, <3>3, <3>4, <3>5 DEF Submitted, PipeAt
    <3>6. CASE q # "out"
      <4>1. pipes'[q] = pipes[q]
        BY <3>1, <3>6 DEF Submitted, Pipes, Endpoints
      <4> QED BY <3>1, <3>3, <3>6, <4>1 DEF PipeAt, Off
    <3> QED BY <3>5, <3>6
  <2>7. CASE WriteTimeout
    <3>1. Cancelled("out") /\ client'.ep = client.ep
      BY <2>7, CancelsStep DEF Inv, Typed, WriteTimeout
    <3>2. SUFFICES ASSUME NEW q \in Endpoints PROVE PipeAt(q)'
      BY DEF PipeInv
    <3>3. PipeAt(q)
      BY DEF Inv, PipeInv
    <3>4. ~pipes["out"].pending /\ ~pipes["out"].error /\ client.ep # "out"
      BY <2>7 DEF Inv, WriteTimeout, NoCallback, PipeInv, PipeAt, Endpoints
    <3>5. CASE q = "out"
      BY <3>1, <3>3, <3>4, <3>5 DEF Cancelled, PipeAt
    <3>6. CASE q # "out"
      <4>1. pipes'[q] = pipes[q]
        BY <3>1, <3>6 DEF Cancelled, Pipes, Endpoints
      <4> QED BY <3>1, <3>3, <3>4, <3>6, <4>1 DEF PipeAt, Off
    <3> QED BY <3>5, <3>6
  <2>8. CASE EngineCloses \/ EngineRemoves \/ EngineClosed \/ NoticeGone \/ AutoConnect \/ OpenFailed \/
              Found \/ NotFound \/ Assign \/ SetupAnswered \/ Opened \/ WriteDone \/ Connect \/ Disconnect
    <3>1. UNCHANGED <<pipes, client>>
      BY <2>8 DEF EngineCloses, EngineRemoves, EngineClosed, NoticeGone, AutoConnect, OpenFailed, Found, NotFound,
         Assign, SetupAnswered, Opened, WriteDone, Connect, Disconnect, linkVarsButEngine, hostVars
    <3> QED BY <3>1 DEF Inv, PipeInv, PipeAt, Off
  <2> QED BY <1>4, <2>1, <2>2, <2>3, <2>4, <2>5, <2>6, <2>7, <2>8 DEF Engine, User
<1> QED BY <1>1, <1>2, <1>3, <1>4 DEF Next

\* The client task works on an endpoint exactly when it is in a callback.
LEMMA ClientKept ==
    ASSUME Inv, ~Races, Next
    PROVE  ClientInv'
<1>1. CASE Lib
  <2>1. UNCHANGED <<client>>
    BY <1>1 DEF Lib, linkVars
  <2> QED BY <2>1 DEF Inv, ClientInv
<1>2. CASE Bus
  <2>1. UNCHANGED <<client>>
    BY <1>2 DEF Bus, linkVars
  <2> QED BY <2>1 DEF Inv, ClientInv
<1>3. CASE Client
  <2>1. CASE \E p \in Endpoints : TakesEndpoint(p)
    <3>1. PICK p \in Endpoints : TakesEndpoint(p)
      BY <2>1
    <3>2. Taken(p)
      BY <3>1, TakesStep DEF Inv, Typed
    <3> QED BY <3>2 DEF Taken, ClientInv, Endpoints
  <2>2. CASE InCallback \/ OutCallback
    <3>1. PICK p \in Endpoints : CalledFor(p)
      BY <2>2, CallbackRuns DEF Inv, Typed
    <3> QED BY <3>1 DEF CalledFor, ClientInv
  <2>3. CASE Message
    BY <2>3 DEF Inv, Typed, Message, ClientInv, TasksTyped, ClientObject
  <2>4. CASE ClientClaims
    BY <2>4 DEF Inv, ClientClaims, ClientInv
  <2>5. CASE ClientCancels
    BY <2>5 DEF Inv, ClientCancels, ClientInv
  <2>6. CASE ClientReleases
    BY <2>6 DEF Inv, ClientReleases, ClientInv, TasksTyped, ClientObject
  <2>7. CASE ClientRemoves
    BY <2>7 DEF Inv, ClientRemoves, ClientInv, TasksTyped, ClientObject
  <2>8. CASE ControlCallback
    <3>1. UNCHANGED <<client>>
      BY <2>8 DEF ControlCallback
    <3> QED BY <3>1 DEF Inv, ClientInv
  <2> QED BY <1>3, <2>1, <2>2, <2>3, <2>4, <2>5, <2>6, <2>7, <2>8 DEF Client
<1>4. CASE Engine \/ WriteTimeout \/ User
  <2>1. UNCHANGED <<client>>
    BY <1>4 DEF Engine, User, EngineCloses, EngineCancels, EngineReleases, EngineRemoves, EngineClosed, NoticeGone,
       AutoConnect, OpenFailed, Found, NotFound, Claim, FirstPoll, Assign, RequestSetup, SetupAnswered, Opened, Write,
       WriteDone, WriteTimeout, Connect, Disconnect, linkVarsButEngine
  <2> QED BY <2>1 DEF Inv, ClientInv
<1> QED BY <1>1, <1>2, <1>3, <1>4 DEF Next

\* The pipes of the endpoints are there only as long as the interface is claimed.
LEMMA InterfaceKept ==
    ASSUME Inv, ~Races, Next
    PROVE  InterfaceInv'
<1>1. CASE Lib
  <2>0. LibTurn /\ ClientCaughtUp /\ UNCHANGED linkVars
    BY <1>1 DEF Lib
  <2>1. CASE HaltAndFlush
    BY <2>1, <2>0, HaltStep DEF Inv, Typed, InterfaceInv, Off, linkVars
  <2>2. CASE DefaultPipe
    BY <2>2, <2>0, DefaultPipeStep DEF Inv, InterfaceInv, Off, linkVars
  <2>3. CASE Free
    BY <2>3, <2>0, FreeStep DEF Inv, Typed, InterfaceInv, Off, linkVars, Gone
  <2>4. CASE EnumStart
    BY <2>4, <2>0, EnumStartStep DEF Inv, Typed, InterfaceInv, Off, linkVars
  <2>5. CASE EnumTransfer("get", "check", "cleanup failed")
    <3>1. Transferred("get", "check", "cleanup failed")
      BY <2>5, EnumTransferStep DEF Inv, Typed
    <3> QED BY <3>1, <2>0 DEF Inv, Transferred, InterfaceInv, Off, linkVars
  <2>6. CASE EnumCheck("check", "get string", "cleanup failed")
    <3>1. Checked("check", "get string", "cleanup failed")
      BY <2>6, EnumCheckStep DEF Inv, Typed
    <3> QED BY <3>1, <2>0 DEF Inv, Checked, InterfaceInv, Off, linkVars
  <2>7. CASE EnumTransfer("get string", "check string", "cleanup")
    <3>1. Transferred("get string", "check string", "cleanup")
      BY <2>7, EnumTransferStep DEF Inv, Typed
    <3> QED BY <3>1, <2>0 DEF Inv, Transferred, InterfaceInv, Off, linkVars
  <2>8. CASE EnumCheck("check string", "cleanup", "cleanup")
    <3>1. Checked("check string", "cleanup", "cleanup")
      BY <2>8, EnumCheckStep DEF Inv, Typed
    <3> QED BY <3>1, <2>0 DEF Inv, Checked, InterfaceInv, Off, linkVars
  <2>9. CASE EnumFailed
    BY <2>9, <2>0, EnumFailedStep DEF Inv, Typed, InterfaceInv, Off, linkVars, Gone
  <2>10. CASE LibTake \/ UsbhTake \/ SendGone \/ SendNew \/ HubTake \/ PortLost \/ NoEvent \/ Connection \/
              Debounced \/ (ResetPort \/ ResetDone) \/ Recover \/ EnumCleanup \/ EnumNothing
    <3>1. UNCHANGED <<pipes, cdc, engine, client>>
      BY <2>10, <2>0 DEF LibTake, UsbhTake, SendGone, SendNew, HubTake, PortLost, NoEvent, Connection, Debounced,
         ResetPort, ResetDone, Recover, EnumCleanup, EnumNothing, linkVars
    <3> QED BY <3>1 DEF Inv, InterfaceInv, Off
  <2> QED BY <1>1, <2>1, <2>2, <2>3, <2>4, <2>5, <2>6, <2>7, <2>8, <2>9, <2>10 DEF Lib, LibGoesOn
<1>2. CASE Bus
  <2>0. UNCHANGED linkVars
    BY <1>2 DEF Bus
  <2>1. CASE Stalls \/ (\E p \in Pipes : Completes(p) \/ Fails(p))
    <3>1. PICK p \in Pipes : Answered(p)
      BY <2>1, AnswerStep DEF Inv, Typed
    <3>2. CASE p = "ep0"
      BY <3>1, <3>2, <2>0 DEF Inv, Answered, InterfaceInv, Off, Endpoints, linkVars, Pipes
    <3>3. CASE p \in Endpoints
      BY <3>1, <3>3, <2>0 DEF Inv, Answered, InterfaceInv, Off, linkVars
    <3> QED BY <3>2, <3>3 DEF Pipes, Endpoints
  <2>2. CASE Plug \/ (Unplug /\ NotBeforePoll) \/ ConnectionInterrupt \/ SecondEvent
    <3>1. UNCHANGED <<pipes, cdc, engine, client>>
      BY <2>2, <2>0 DEF Plug, Unplug, ConnectionInterrupt, SecondEvent, linkVars
    <3> QED BY <3>1 DEF Inv, InterfaceInv, Off
  <2> QED BY <1>2, <2>1, <2>2 DEF Bus, Interrupt
<1>3. CASE Client
  <2>1. CASE \E p \in Endpoints : TakesEndpoint(p)
    <3>1. PICK p \in Endpoints : TakesEndpoint(p)
      BY <2>1
    <3>2. Taken(p)
      BY <3>1, TakesStep DEF Inv, Typed
    <3> QED BY <3>2 DEF Inv, Taken, InterfaceInv, Off
  <2>2. CASE InCallback \/ OutCallback
    <3>1. PICK p \in Endpoints : CalledFor(p)
      BY <2>2, CallbackRuns DEF Inv, Typed
    <3>2. ~Off(p)
      BY <3>1 DEF Inv, PipeInv, PipeAt, CalledFor, Off
    <3>3. ~(cdc = "none" \/ engine.at = "remove" \/ client.at = "remove")
      BY <3>2 DEF Inv, InterfaceInv
    <3>4. ~(cdc' = "none" \/ engine'.at = "remove" \/ client'.at = "remove")
      BY <3>1, <3>3 DEF CalledFor
    <3> QED BY <3>4 DEF InterfaceInv
  <2>3. CASE Message
    BY <2>3 DEF Inv, Typed, Message, InterfaceInv, Off, TasksTyped, ClientObject
  <2>4. CASE ClientClaims
    BY <2>4 DEF Inv, ClientClaims, InterfaceInv, Off
  <2>5. CASE ClientCancels
    <3>1. ~(cdc' = "none" \/ engine'.at = "remove" \/ client'.at = "remove")
      BY <2>5 DEF Inv, ClientCancels, CancelsPoll, MutexInv, EngineCloser, ClientCloser
    <3> QED BY <3>1 DEF InterfaceInv
  <2>6. CASE ClientReleases
    BY <2>6, ReleaseStep DEF Inv, Typed, ClientReleases, InterfaceInv, Off
  <2>7. CASE ClientRemoves
    <3>1. Removed
      BY <2>7, RemovesStep
    <3> QED BY <2>7, <3>1 DEF Inv, ClientRemoves, InterfaceInv, Off
  <2>8. CASE ControlCallback
    <3>1. UNCHANGED <<pipes, cdc, engine, client>>
      BY <2>8 DEF ControlCallback
    <3> QED BY <3>1 DEF Inv, InterfaceInv, Off
  <2> QED BY <1>3, <2>1, <2>2, <2>3, <2>4, <2>5, <2>6, <2>7, <2>8 DEF Client
<1>4. CASE Engine \/ WriteTimeout \/ User
  <2>1. CASE EngineCloses
    BY <2>1 DEF Inv, Typed, EngineCloses, TakesHandle, Step, InterfaceInv, Off, hostVars
  <2>2. CASE EngineCancels
    <3>1. ~(cdc' = "none" \/ engine'.at = "remove" \/ client'.at = "remove")
      BY <2>2 DEF Inv, EngineCancels, CancelsPoll, Step, MutexInv, EngineCloser, ClientCloser
    <3> QED BY <3>1 DEF InterfaceInv
  <2>3. CASE EngineReleases
    BY <2>3, ReleaseStep DEF Inv, Typed, EngineReleases, InterfaceInv, Off
  <2>4. CASE EngineRemoves
    <3>1. Removed
      BY <2>4, RemovesStep
    <3> QED BY <2>4, <3>1 DEF Inv, EngineRemoves, InterfaceInv, Off
  <2>5. CASE EngineClosed
    BY <2>5 DEF Inv, Typed, EngineClosed, Step, InterfaceInv, Off, hostVars
  <2>6. CASE NoticeGone
    BY <2>6 DEF Inv, Typed, NoticeGone, Turn, Step, InterfaceInv, Off, hostVars
  <2>7. CASE AutoConnect
    BY <2>7 DEF Inv, Typed, AutoConnect, Turn, StartsOpen, Step, InterfaceInv, Off, hostVars
  <2>8. CASE OpenFailed
    BY <2>8 DEF Inv, Typed, OpenFailed, Step, InterfaceInv, Off, hostVars
  <2>9. CASE Found
    BY <2>9 DEF Inv, Found, InterfaceInv, Off
  <2>10. CASE NotFound
    BY <2>10 DEF Inv, Typed, NotFound, InterfaceInv, Off, hostVars
  <2>11. CASE Claim
    <3>1. CASE Enabled
      <4>1. ~(cdc' = "none" \/ engine'.at = "remove" \/ client'.at = "remove")
        BY <2>11, <3>1 DEF Inv, Typed, Claim, Step, CdcInv, TasksTyped, EngineObject
      <4> QED BY <4>1 DEF InterfaceInv
    <3>2. CASE ~Enabled
      <4>1. cdc = "none" /\ pipes' = pipes
        BY <2>11, <3>2 DEF Inv, Claim, CdcInv
      <4> QED BY <4>1 DEF Inv, InterfaceInv, Off
    <3> QED BY <3>1, <3>2
  <2>12. CASE FirstPoll
    <3>1. ~(cdc' = "none" \/ engine'.at = "remove" \/ client'.at = "remove")
      BY <2>12 DEF Inv, Typed, FirstPoll, Step, CdcInv, TasksTyped, EngineObject
    <3> QED BY <3>1 DEF InterfaceInv
  <2>13. CASE Assign
    BY <2>13 DEF Inv, Assign, InterfaceInv, Off, hostVars
  <2>14. CASE RequestSetup
    BY <2>14, RequestSetupStep DEF Inv, InterfaceInv, Off, Endpoints, Submitted, Pipes
  <2>15. CASE SetupAnswered
    BY <2>15 DEF Inv, SetupAnswered, InterfaceInv, Off
  <2>16. CASE Opened
    BY <2>16 DEF Inv, Typed, Opened, Step, InterfaceInv, Off, TasksTyped, EngineObject, hostVars
  <2>17. CASE Write
    <3>1. Submitted("out")
      BY <2>17, SubmitsStep DEF Inv, Typed
    <3> QED BY <2>17, <3>1 DEF Inv, Typed, Submitted, Write, Turn, Accepts, InterfaceInv, Off, Endpoints, TasksTyped,
       EngineObject
  <2>18. CASE WriteDone
    BY <2>18 DEF Inv, Typed, WriteDone, WriteEnds, Panic, InterfaceInv, Off, TasksTyped, EngineObject
  <2>19. CASE WriteTimeout
    <3>1. ~(cdc' = "none" \/ engine'.at = "remove" \/ client'.at = "remove")
      BY <2>19 DEF Inv, WriteTimeout, WriteEnds, HandleInv, CdcInv
    <3> QED BY <3>1 DEF InterfaceInv
  <2>20. CASE Connect
    BY <2>20 DEF Inv, Typed, Connect, Request, Turn, StartsOpen, Step, InterfaceInv, Off, TasksTyped, EngineObject,
       hostVars
  <2>21. CASE Disconnect
    BY <2>21 DEF Inv, Typed, Disconnect, Step, InterfaceInv, Off, hostVars
  <2> QED BY <1>4, <2>1, <2>2, <2>3, <2>4, <2>5, <2>6, <2>7, <2>8, <2>9, <2>10, <2>11, <2>12, <2>13, <2>14, <2>15,
     <2>16, <2>17, <2>18, <2>19, <2>20, <2>21 DEF Engine, User
<1> QED BY <1>1, <1>2, <1>3, <1>4 DEF Next

-----------------------------------------------------------------------------
(* Who holds the handle *)

LEMMA SubmitSame ==
    ASSUME SubmitInv, pipes'["in"] = pipes["in"], port' = port, engine' = engine
    PROVE  SubmitInv'
BY DEF SubmitInv, Enabled

\* The first poll finds the port enabled and its pipe free.
LEMMA SubmitKept ==
    ASSUME Inv, ~Races, Next
    PROVE  SubmitInv'
<1>1. CASE Lib
  <2>0. LibTurn /\ ClientCaughtUp /\ UNCHANGED linkVars
    BY <1>1 DEF Lib
  <2>1. CASE HaltAndFlush
    <3>1. "gone" \in LibFlags
      BY <2>1, HaltStep DEF Inv, Typed, ActInv, FlagsOf, LibFlags
    <3>2. engine.at # "submit"
      BY <3>1, EnabledStays DEF Inv, SubmitInv, Leaving
    <3> QED BY <2>0, <3>2 DEF linkVars, SubmitInv
  <2>2. CASE DefaultPipe
    <3>1. pipes'["in"] = pipes["in"] /\ port' = port /\ engine' = engine
      BY <2>2, <2>0, DefaultPipeStep DEF linkVars, Endpoints
    <3> QED BY <3>1, SubmitSame DEF Inv
  <2>3. CASE Free
    <3>1. pipes'["in"] = pipes["in"] /\ port' = port /\ engine' = engine
      BY <2>3, <2>0, FreeStep DEF Inv, Typed, Gone, linkVars, Endpoints
    <3> QED BY <3>1, SubmitSame DEF Inv
  <2>4. CASE PortLost
    BY <2>4, <2>0, PortLostStep DEF Inv, Typed, SubmitInv, Enabled, linkVars
  <2>5. CASE Connection
    BY <2>5, <2>0 DEF Inv, Connection, SubmitInv, Enabled, linkVars
  <2>6. CASE Debounced
    <3>1. engine.at # "submit"
      BY <2>6 DEF Inv, Debounced, ResetInv, SubmitInv, Enabled
    <3> QED BY <2>0, <3>1 DEF linkVars, SubmitInv
  <2>7. CASE ResetPort \/ ResetDone
    BY <2>7, <2>0, ResetStep DEF Inv, Typed, SubmitInv, Enabled, linkVars
  <2>8. CASE Recover
    <3>1. engine.at # "submit"
      BY <2>8 DEF Inv, Recover, RecoverInv, InLib, InHub, PortInv, SubmitInv, Enabled
    <3> QED BY <2>0, <3>1 DEF linkVars, SubmitInv
  <2>9. CASE EnumStart
    <3>1. pipes'["in"] = pipes["in"] /\ port' = port /\ engine' = engine
      BY <2>9, <2>0, EnumStartStep DEF Inv, Typed, Staged, linkVars, Endpoints
    <3> QED BY <3>1, SubmitSame DEF Inv
  <2>10. CASE EnumTransfer("get", "check", "cleanup failed")
    <3>1. Transferred("get", "check", "cleanup failed")
      BY <2>10, EnumTransferStep DEF Inv, Typed
    <3>2. pipes'["in"] = pipes["in"] /\ port' = port /\ engine' = engine
      BY <2>0, <3>1 DEF Transferred, Staged, linkVars, Endpoints
    <3> QED BY <3>2, SubmitSame DEF Inv
  <2>11. CASE EnumCheck("check", "get string", "cleanup failed")
    <3>1. Checked("check", "get string", "cleanup failed")
      BY <2>11, EnumCheckStep DEF Inv, Typed
    <3>2. pipes'["in"] = pipes["in"] /\ port' = port /\ engine' = engine
      BY <2>0, <3>1 DEF Checked, Staged, linkVars, Endpoints
    <3> QED BY <3>2, SubmitSame DEF Inv
  <2>12. CASE EnumTransfer("get string", "check string", "cleanup")
    <3>1. Transferred("get string", "check string", "cleanup")
      BY <2>12, EnumTransferStep DEF Inv, Typed
    <3>2. pipes'["in"] = pipes["in"] /\ port' = port /\ engine' = engine
      BY <2>0, <3>1 DEF Transferred, Staged, linkVars, Endpoints
    <3> QED BY <3>2, SubmitSame DEF Inv
  <2>13. CASE EnumCheck("check string", "cleanup", "cleanup")
    <3>1. Checked("check string", "cleanup", "cleanup")
      BY <2>13, EnumCheckStep DEF Inv, Typed
    <3>2. pipes'["in"] = pipes["in"] /\ port' = port /\ engine' = engine
      BY <2>0, <3>1 DEF Checked, Staged, linkVars, Endpoints
    <3> QED BY <3>2, SubmitSame DEF Inv
  <2>14. CASE EnumFailed
    <3>1. pipes'["in"] = pipes["in"] /\ port' = port /\ engine' = engine
      BY <2>14, <2>0, EnumFailedStep DEF Inv, Typed, Gone, linkVars, Endpoints
    <3> QED BY <3>1, SubmitSame DEF Inv
  <2>15. CASE LibTake \/ UsbhTake \/ SendGone \/ SendNew \/ HubTake \/ NoEvent \/ EnumCleanup \/ EnumNothing
    <3>1. UNCHANGED <<pipes, engine, port>>
      BY <2>15, <2>0 DEF LibTake, UsbhTake, SendGone, SendNew, HubTake, NoEvent, EnumCleanup, EnumNothing, linkVars
    <3> QED BY <3>1 DEF Inv, SubmitInv, Enabled
  <2> QED BY <1>1, <2>1, <2>2, <2>3, <2>4, <2>5, <2>6, <2>7, <2>8, <2>9, <2>10, <2>11, <2>12, <2>13, <2>14, <2>15 DEF
     Lib, LibGoesOn
<1>2. CASE Bus
  <2>0. UNCHANGED linkVars
    BY <1>2 DEF Bus
  <2>1. CASE (Unplug /\ NotBeforePoll)
    BY <2>1, <2>0, UnplugStep DEF SubmitInv, linkVars, NotBeforePoll
  <2>2. CASE ConnectionInterrupt
    BY <2>2, <2>0 DEF Inv, ConnectionInterrupt, SubmitInv, Enabled, linkVars
  <2>3. CASE SecondEvent
    BY <2>3, <2>0 DEF Inv, Typed, SecondEvent, SubmitInv, Enabled, PortTyped, PortObject, linkVars
  <2>4. CASE Stalls \/ (\E p \in Pipes : Completes(p) \/ Fails(p))
    <3>1. PICK p \in Pipes : Answered(p)
      BY <2>4, AnswerStep DEF Inv, Typed
    <3>2. CASE p = "ep0"
      BY <3>1, <3>2, <2>0 DEF Inv, Answered, SubmitInv, Enabled, linkVars, Pipes
    <3>3. CASE p \in Endpoints
      BY <3>1, <3>3, <2>0 DEF Inv, Answered, SubmitInv, Enabled, linkVars, Pipes
    <3> QED BY <3>2, <3>3 DEF Pipes, Endpoints
  <2>5. CASE Plug
    <3>1. UNCHANGED <<pipes, engine, port>>
      BY <2>5, <2>0 DEF Plug, linkVars
    <3> QED BY <3>1 DEF Inv, SubmitInv, Enabled
  <2> QED BY <1>2, <2>1, <2>2, <2>3, <2>4, <2>5 DEF Bus, Interrupt
<1>3. CASE Client
  <2>1. CASE \E p \in Endpoints : TakesEndpoint(p)
    <3>1. PICK p \in Endpoints : TakesEndpoint(p)
      BY <2>1
    <3>2. Taken(p)
      BY <3>1, TakesStep DEF Inv, Typed
    <3> QED BY <3>2 DEF Inv, Taken, SubmitInv, Enabled, Pipes
  <2>2. CASE InCallback \/ OutCallback
    <3>1. PICK p \in Endpoints : CalledFor(p)
      BY <2>2, CallbackRuns DEF Inv, Typed
    <3>2. CASE engine.at # "submit"
      BY <3>1, <3>2 DEF CalledFor, SubmitInv
    <3>3. CASE engine.at = "submit"
      <4>1. p # "in"
        BY <3>1, <3>3 DEF Inv, SubmitInv, PipeInv, PipeAt, CalledFor
      <4>2. pipes'["in"] = pipes["in"] /\ port' = port /\ engine' = engine
        BY <3>1, <4>1 DEF CalledFor, Pipes
      <4> QED BY <4>2, SubmitSame DEF Inv
    <3> QED BY <3>2, <3>3
  <2>3. CASE ClientCancels
    <3>1. engine.at # "submit" /\ engine' = engine
      BY <2>3 DEF Inv, ClientCancels, CdcInv
    <3> QED BY <3>1 DEF SubmitInv
  <2>4. CASE ClientReleases
    <3>1. engine.at # "submit" /\ engine' = engine
      BY <2>4 DEF Inv, ClientReleases, CdcInv
    <3> QED BY <3>1 DEF SubmitInv
  <2>5. CASE ClientRemoves
    <3>1. Removed
      BY <2>5, RemovesStep
    <3> QED BY <2>5, <3>1 DEF Inv, ClientRemoves, SubmitInv, Enabled
  <2>6. CASE ControlCallback \/ Message \/ ClientClaims
    <3>1. UNCHANGED <<pipes, engine, port>>
      BY <2>6 DEF ControlCallback, Message, ClientClaims
    <3> QED BY <3>1 DEF Inv, SubmitInv, Enabled
  <2> QED BY <1>3, <2>1, <2>2, <2>3, <2>4, <2>5, <2>6 DEF Client
<1>4. CASE Engine \/ WriteTimeout \/ User
  <2>1. CASE EngineCloses
    BY <2>1 DEF EngineCloses, Step, SubmitInv
  <2>2. CASE EngineCancels
    <3>1. Cancelled("in")
      BY <2>2, CancelsStep DEF Inv, Typed
    <3> QED BY <2>2, <3>1 DEF EngineCancels, Step, SubmitInv
  <2>3. CASE EngineReleases
    BY <2>3, ReleaseStep DEF EngineReleases, Step, SubmitInv
  <2>4. CASE EngineRemoves
    <3>1. Removed
      BY <2>4, RemovesStep
    <3> QED BY <2>4, <3>1 DEF EngineRemoves, Step, SubmitInv
  <2>5. CASE EngineClosed
    BY <2>5 DEF EngineClosed, Step, SubmitInv
  <2>6. CASE NoticeGone
    BY <2>6 DEF NoticeGone, Step, SubmitInv
  <2>7. CASE AutoConnect
    BY <2>7 DEF AutoConnect, StartsOpen, Step, SubmitInv
  <2>8. CASE OpenFailed
    BY <2>8 DEF OpenFailed, Step, SubmitInv
  <2>9. CASE Found
    BY <2>9 DEF Found, Step, SubmitInv
  <2>10. CASE NotFound
    BY <2>10 DEF NotFound, Step, SubmitInv
  <2>11. CASE Claim
    <3>1. CASE Enabled
      BY <2>11, <3>1, ClaimStep DEF Inv, Typed, SubmitInv, Enabled, Endpoints, Claim
    <3>2. CASE ~Enabled
      BY <2>11, <3>2, RemovesStep DEF Inv, Typed, SubmitInv, Claim, Step, TasksTyped, EngineObject
    <3> QED BY <3>1, <3>2
  <2>12. CASE FirstPoll
    <3>1. Submitted("in")
      BY <2>12, SubmitsStep DEF Inv, Typed
    <3> QED BY <2>12, <3>1 DEF Inv, Typed, FirstPoll, Step, SubmitInv, TasksTyped, EngineObject
  <2>13. CASE Assign
    BY <2>13 DEF Assign, SubmitInv
  <2>14. CASE RequestSetup
    BY <2>14, RequestSetupStep DEF SubmitInv
  <2>15. CASE SetupAnswered
    BY <2>15 DEF SetupAnswered, SubmitInv
  <2>16. CASE Opened
    BY <2>16 DEF Inv, Typed, Opened, Step, SubmitInv, TasksTyped, EngineObject
  <2>17. CASE Write
    <3>1. Submitted("out")
      BY <2>17, SubmitsStep DEF Inv, Typed
    <3> QED BY <2>17, <3>1 DEF Inv, Typed, Submitted, Write, SubmitInv, TasksTyped, EngineObject
  <2>18. CASE WriteDone
    BY <2>18 DEF Inv, Typed, WriteDone, WriteEnds, SubmitInv, TasksTyped, EngineObject
  <2>19. CASE WriteTimeout
    <3>1. Cancelled("out")
      BY <2>19, CancelsStep DEF Inv, Typed
    <3> QED BY <2>19, <3>1 DEF Inv, Typed, Cancelled, WriteTimeout, WriteEnds, SubmitInv, TasksTyped, EngineObject
  <2>20. CASE Connect
    BY <2>20 DEF Inv, Typed, Connect, Request, Turn, StartsOpen, Step, SubmitInv, TasksTyped, EngineObject
  <2>21. CASE Disconnect
    BY <2>21 DEF Disconnect, Step, SubmitInv
  <2> QED BY <1>4, <2>1, <2>2, <2>3, <2>4, <2>5, <2>6, <2>7, <2>8, <2>9, <2>10, <2>11, <2>12, <2>13, <2>14, <2>15,
     <2>16, <2>17, <2>18, <2>19, <2>20, <2>21 DEF Engine, User
<1> QED BY <1>1, <1>2, <1>3, <1>4 DEF Next

\* A handle is never stale: the engine writes and sets up only with an open device.
LEMMA HandleKept ==
    ASSUME Inv, ~Races, Next
    PROVE  HandleInv'
<1>1. CASE Lib
  <2>1. UNCHANGED <<handle, engine, client, cdc>>
    BY <1>1 DEF Lib, linkVars
  <2> QED BY <2>1 DEF Inv, HandleInv, EngineCloser, ClientCloser, Opening
<1>2. CASE Bus
  <2>1. UNCHANGED <<handle, engine, client, cdc>>
    BY <1>2 DEF Bus, linkVars
  <2> QED BY <2>1 DEF Inv, HandleInv, EngineCloser, ClientCloser, Opening
<1>3. CASE Client
  <2>1. CASE \E p \in Endpoints : TakesEndpoint(p)
    <3>1. PICK p \in Endpoints : TakesEndpoint(p)
      BY <2>1
    <3>2. Taken(p)
      BY <3>1, TakesStep DEF Inv, Typed
    <3> QED BY <3>2 DEF Inv, Taken, HandleInv, EngineCloser, ClientCloser, Opening
  <2>2. CASE InCallback \/ OutCallback
    <3>1. PICK p \in Endpoints : CalledFor(p)
      BY <2>2, CallbackRuns DEF Inv, Typed
    <3> QED BY <3>1 DEF Inv, CalledFor, HandleInv, EngineCloser, ClientCloser, Opening
  <2>3. CASE Message
    BY <2>3 DEF Inv, Typed, Message, HandleInv, EngineCloser, ClientCloser, Opening, TasksTyped, ClientObject
  <2>4. CASE ClientClaims
    BY <2>4 DEF Inv, Typed, ClientClaims, EngineOutOfHandle, TakesHandle, ClaimsHandle, HandleInv, MutexInv
  <2>5. CASE ClientCancels
    BY <2>5 DEF Inv, ClientCancels, HandleInv, ClientCloser
  <2>6. CASE ClientReleases
    BY <2>6 DEF Inv, Typed, ClientReleases, HandleInv, CdcInv
  <2>7. CASE ClientRemoves
    BY <2>7 DEF Inv, Typed, ClientRemoves, RemovesDevice, ClosedDevice, LastClosed, SetActions, Notify, CloseFails,
       Panic, Stale, HandleInv, MutexInv, CdcInv, TasksTyped, EngineObject
  <2>8. CASE ControlCallback
    <3>1. UNCHANGED <<handle, engine, client, cdc>>
      BY <2>8 DEF ControlCallback
    <3> QED BY <3>1 DEF Inv, HandleInv, EngineCloser, ClientCloser, Opening
  <2> QED BY <1>3, <2>1, <2>2, <2>3, <2>4, <2>5, <2>6, <2>7, <2>8 DEF Client
<1>4. CASE Engine \/ WriteTimeout \/ User
  <2>1. CASE EngineCloses
    BY <2>1 DEF Inv, EngineCloses, TakesHandle, ClaimsHandle, Step, HandleInv
  <2>2. CASE EngineCancels
    BY <2>2 DEF Inv, Typed, EngineCancels, NoCallback, CancelsPoll, Step, HandleInv, EngineCloser
  <2>3. CASE EngineReleases
    BY <2>3 DEF Inv, Typed, EngineReleases, CallbackFirst, ReleasesInterface, Endable, Busy, Panic, Step, HandleInv,
       CdcInv, TasksTyped, EngineObject
  <2>4. CASE EngineRemoves
    BY <2>4 DEF Inv, Typed, EngineRemoves, Settled, RemovesDevice, ClosedDevice, LastClosed, SetActions, Notify,
       CloseFails, Panic, Stale, Step, HandleInv, MutexInv, CdcInv, EngineCloser, TasksTyped, EngineObject
  <2>5. CASE EngineClosed
    BY <2>5 DEF Inv, Typed, EngineClosed, Step, HandleInv, EngineCloser, ClientCloser, Opening
  <2>6. CASE NoticeGone
    BY <2>6 DEF Inv, Typed, NoticeGone, Turn, Step, HandleInv, EngineCloser, ClientCloser, Opening
  <2>7. CASE AutoConnect
    BY <2>7 DEF Inv, Typed, AutoConnect, Turn, StartsOpen, Step, HandleInv, EngineCloser, ClientCloser, Opening
  <2>8. CASE OpenFailed
    BY <2>8 DEF Inv, Typed, OpenFailed, Step, HandleInv, EngineCloser, ClientCloser, Opening
  <2>9. CASE Found
    BY <2>9 DEF Inv, Typed, Found, Step, HandleInv, linkVarsButEngine
  <2>10. CASE NotFound
    BY <2>10 DEF Inv, NotFound, Step, HandleInv, linkVarsButEngine
  <2>11. CASE Claim
    <3>1. CASE Enabled
      BY <2>11, <3>1, ClaimStep DEF Inv, Typed, HandleInv, CdcInv, TasksTyped, EngineObject, Claim
    <3>2. CASE ~Enabled
      BY <2>11, <3>2, RemovesStep DEF Inv, Typed, HandleInv, CdcInv, Claim, Step, TasksTyped, EngineObject
    <3> QED BY <3>1, <3>2
  <2>12. CASE FirstPoll
    BY <2>12 DEF Inv, Typed, FirstPoll, Accepts, Panic, Step, HandleInv, CdcInv, TasksTyped, EngineObject
  <2>13. CASE Assign
    BY <2>13 DEF Inv, Typed, Assign, HandleInv, CdcInv, EngineCloser, ClientCloser, Opening
  <2>14. CASE RequestSetup
    BY <2>14, RequestSetupStep DEF Inv, HandleInv, EngineCloser, ClientCloser, Opening
  <2>15. CASE SetupAnswered
    BY <2>15 DEF Inv, Typed, SetupAnswered, HandleInv, EngineCloser, ClientCloser, Opening
  <2>16. CASE Opened
    BY <2>16 DEF Inv, Typed, Opened, Step, HandleInv, EngineCloser, ClientCloser, Opening, TasksTyped, EngineObject
  <2>17. CASE Write
    BY <2>17 DEF Inv, Typed, Write, Turn, Accepts, Panic, HandleInv, EngineCloser, ClientCloser, Opening, IsOpen,
       TasksTyped, EngineObject
  <2>18. CASE WriteDone
    BY <2>18 DEF Inv, Typed, WriteDone, WriteEnds, HandleInv, EngineCloser, ClientCloser, Opening
  <2>19. CASE WriteTimeout
    BY <2>19 DEF Inv, Typed, WriteTimeout, NoCallback, Retired, Cleared, WriteEnds, HandleInv, EngineCloser,
       ClientCloser, Opening
  <2>20. CASE Connect
    BY <2>20 DEF Inv, Typed, Connect, Request, Turn, StartsOpen, Step, HandleInv, EngineCloser, ClientCloser, Opening,
       TasksTyped, EngineObject
  <2>21. CASE Disconnect
    BY <2>21 DEF Inv, Typed, Disconnect, Request, Turn, Step, HandleInv, EngineCloser, ClientCloser, Opening
  <2> QED BY <1>4, <2>1, <2>2, <2>3, <2>4, <2>5, <2>6, <2>7, <2>8, <2>9, <2>10, <2>11, <2>12, <2>13, <2>14, <2>15,
     <2>16, <2>17, <2>18, <2>19, <2>20, <2>21 DEF Engine, User
<1> QED BY <1>1, <1>2, <1>3, <1>4 DEF Next

\* Who closes or writes holds the mutex.
LEMMA MutexKept ==
    ASSUME Inv, ~Races, Next
    PROVE  MutexInv'
<1>1. CASE Lib
  <2>1. UNCHANGED <<engine, client, ioMtx>>
    BY <1>1 DEF Lib, linkVars
  <2> QED BY <2>1 DEF Inv, MutexInv, EngineCloser, ClientCloser
<1>2. CASE Bus
  <2>1. UNCHANGED <<engine, client, ioMtx>>
    BY <1>2 DEF Bus, linkVars
  <2> QED BY <2>1 DEF Inv, MutexInv, EngineCloser, ClientCloser
<1>3. CASE Client
  <2>1. CASE \E p \in Endpoints : TakesEndpoint(p)
    <3>1. PICK p \in Endpoints : TakesEndpoint(p)
      BY <2>1
    <3>2. Taken(p)
      BY <3>1, TakesStep DEF Inv, Typed
    <3> QED BY <3>2 DEF Inv, Taken, MutexInv, EngineCloser, ClientCloser
  <2>2. CASE InCallback \/ OutCallback
    <3>1. PICK p \in Endpoints : CalledFor(p)
      BY <2>2, CallbackRuns DEF Inv, Typed
    <3> QED BY <3>1 DEF Inv, CalledFor, MutexInv, EngineCloser, ClientCloser
  <2>3. CASE Message
    BY <2>3 DEF Inv, Typed, Message, ClientTurn, MutexInv, EngineCloser, ClientCloser, TasksTyped, ClientObject
  <2>4. CASE ClientClaims
    BY <2>4 DEF Inv, Typed, ClientClaims, EngineOutOfHandle, TakesHandle, ClaimsHandle, MutexInv, EngineCloser,
       ClientCloser
  <2>5. CASE ClientCancels
    BY <2>5 DEF Inv, Typed, ClientCancels, CancelsPoll, Retired, MutexInv, EngineCloser, ClientCloser
  <2>6. CASE ClientReleases
    BY <2>6 DEF Inv, Typed, ClientReleases, MutexInv, EngineCloser, ClientCloser, TasksTyped, ClientObject
  <2>7. CASE ClientRemoves
    BY <2>7 DEF Inv, Typed, ClientRemoves, RemovesDevice, ClosedDevice, LastClosed, SetActions, Notify, CloseFails,
       Panic, MutexInv, EngineCloser, ClientCloser, TasksTyped, ClientObject, EngineObject
  <2>8. CASE ControlCallback
    <3>1. UNCHANGED <<engine, client, ioMtx>>
      BY <2>8 DEF ControlCallback
    <3> QED BY <3>1 DEF Inv, MutexInv, EngineCloser, ClientCloser
  <2> QED BY <1>3, <2>1, <2>2, <2>3, <2>4, <2>5, <2>6, <2>7, <2>8 DEF Client
<1>4. CASE Engine \/ WriteTimeout \/ User
  <2>1. CASE EngineCloses
    BY <2>1 DEF Inv, Typed, EngineCloses, TakesHandle, ClaimsHandle, Closes, Step, MutexInv, EngineCloser,
       ClientCloser
  <2>2. CASE EngineCancels
    BY <2>2 DEF Inv, Typed, EngineCancels, NoCallback, CancelsPoll, Step, MutexInv, EngineCloser, ClientCloser
  <2>3. CASE EngineReleases
    BY <2>3 DEF Inv, Typed, EngineReleases, CallbackFirst, ReleasesInterface, Endable, Busy, Panic, Step, HandleInv,
       MutexInv, EngineCloser, ClientCloser, TasksTyped, EngineObject
  <2>4. CASE EngineRemoves
    BY <2>4 DEF Inv, Typed, EngineRemoves, Settled, RemovesDevice, ClosedDevice, LastClosed, SetActions, Notify,
       CloseFails, Panic, Stale, Step, HandleInv, MutexInv, EngineCloser, ClientCloser, TasksTyped, EngineObject
  <2>5. CASE EngineClosed
    BY <2>5 DEF Inv, Typed, EngineClosed, Step, MutexInv, EngineCloser, ClientCloser
  <2>6. CASE NoticeGone
    BY <2>6 DEF Inv, Typed, NoticeGone, Turn, Step, MutexInv, EngineCloser, ClientCloser
  <2>7. CASE AutoConnect
    BY <2>7 DEF Inv, Typed, AutoConnect, Turn, StartsOpen, Step, MutexInv, EngineCloser, ClientCloser
  <2>8. CASE OpenFailed
    BY <2>8 DEF Inv, Typed, OpenFailed, Step, MutexInv, EngineCloser, ClientCloser
  <2>9. CASE Found
    BY <2>9 DEF Inv, Typed, Found, Opens, Settled, Step, HandleInv, MutexInv, EngineCloser, ClientCloser,
       linkVarsButEngine
  <2>10. CASE NotFound
    BY <2>10 DEF Inv, Typed, NotFound, Step, MutexInv, EngineCloser, ClientCloser, linkVarsButEngine
  <2>11. CASE Claim
    <3>1. CASE Enabled
      BY <2>11, <3>1, ClaimStep DEF Inv, Typed, HandleInv, MutexInv, EngineCloser, ClientCloser, TasksTyped,
         EngineObject, Claim
    <3>2. CASE ~Enabled
      BY <2>11, <3>2, RemovesStep DEF Inv, Typed, HandleInv, MutexInv, EngineCloser, ClientCloser, Claim, Step,
         TasksTyped, EngineObject
    <3> QED BY <3>1, <3>2
  <2>12. CASE FirstPoll
    BY <2>12 DEF Inv, Typed, FirstPoll, Accepts, Panic, Step, HandleInv, MutexInv, EngineCloser, ClientCloser,
       TasksTyped, EngineObject
  <2>13. CASE Assign
    BY <2>13 DEF Inv, Typed, Assign, MutexInv, EngineCloser, ClientCloser
  <2>14. CASE RequestSetup
    BY <2>14, RequestSetupStep DEF Inv, MutexInv, EngineCloser, ClientCloser
  <2>15. CASE SetupAnswered
    BY <2>15 DEF Inv, SetupAnswered, MutexInv, EngineCloser, ClientCloser
  <2>16. CASE Opened
    BY <2>16 DEF Inv, Typed, Opened, Step, HandleInv, MutexInv, EngineCloser, ClientCloser, TasksTyped, EngineObject
  <2>17. CASE Write
    BY <2>17 DEF Inv, Typed, Write, Turn, MutexInv, ClientCloser, TasksTyped, EngineObject
  <2>18. CASE WriteDone
    BY <2>18 DEF Inv, Typed, WriteDone, WriteEnds, Panic, HandleInv, MutexInv, EngineCloser, ClientCloser
  <2>19. CASE WriteTimeout
    BY <2>19 DEF Inv, Typed, WriteTimeout, NoCallback, Retired, Cleared, WriteEnds, HandleInv, MutexInv, EngineCloser,
       ClientCloser
  <2>20. CASE Connect
    BY <2>20 DEF Inv, Typed, Connect, Request, Turn, StartsOpen, Step, HandleInv, MutexInv, EngineCloser,
       ClientCloser, TasksTyped, EngineObject
  <2>21. CASE Disconnect
    BY <2>21 DEF Inv, Typed, Disconnect, Request, Turn, Step, MutexInv, EngineCloser, ClientCloser
  <2> QED BY <1>4, <2>1, <2>2, <2>3, <2>4, <2>5, <2>6, <2>7, <2>8, <2>9, <2>10, <2>11, <2>12, <2>13, <2>14, <2>15,
     <2>16, <2>17, <2>18, <2>19, <2>20, <2>21 DEF Engine, User
<1> QED BY <1>1, <1>2, <1>3, <1>4 DEF Next

\* The state of the driver's device follows who opens it and who closes it.
LEMMA CdcKept ==
    ASSUME Inv, ~Races, Next
    PROVE  CdcInv'
<1>1. CASE Lib
  <2>1. UNCHANGED <<handle, engine, client, cdc>>
    BY <1>1 DEF Lib, linkVars
  <2> QED BY <2>1 DEF Inv, CdcInv, ClientCloser
<1>2. CASE Bus
  <2>1. UNCHANGED <<handle, engine, client, cdc>>
    BY <1>2 DEF Bus, linkVars
  <2> QED BY <2>1 DEF Inv, CdcInv, ClientCloser
<1>3. CASE Client
  <2>1. CASE \E p \in Endpoints : TakesEndpoint(p)
    <3>1. PICK p \in Endpoints : TakesEndpoint(p)
      BY <2>1
    <3>2. Taken(p)
      BY <3>1, TakesStep DEF Inv, Typed
    <3> QED BY <3>2 DEF Inv, Taken, CdcInv, ClientCloser
  <2>2. CASE InCallback \/ OutCallback
    <3>1. PICK p \in Endpoints : CalledFor(p)
      BY <2>2, CallbackRuns DEF Inv, Typed
    <3> QED BY <3>1 DEF Inv, CalledFor, CdcInv, ClientCloser
  <2>3. CASE Message
    BY <2>3 DEF Inv, Typed, Message, CdcInv, ClientCloser, TasksTyped, ClientObject
  <2>4. CASE ClientClaims
    BY <2>4 DEF Inv, Typed, ClientClaims, EngineOutOfHandle, TakesHandle, ClaimsHandle, Closes, HandleInv, CdcInv,
       ClientCloser, Opening
  <2>5. CASE ClientCancels
    BY <2>5 DEF Inv, Typed, ClientCancels, CancelsPoll, HandleInv, MutexInv, CdcInv, EngineCloser, ClientCloser
  <2>6. CASE ClientReleases
    BY <2>6 DEF Inv, ClientReleases, CdcInv, TasksTyped, ClientObject
  <2>7. CASE ClientRemoves
    BY <2>7 DEF Inv, Typed, ClientRemoves, RemovesDevice, ClosedDevice, LastClosed, SetActions, Notify, CloseFails,
       Panic, Stale, HandleInv, MutexInv, CdcInv, EngineCloser, ClientCloser, TasksTyped, ClientObject, EngineObject
  <2>8. CASE ControlCallback
    <3>1. UNCHANGED <<handle, engine, client, cdc>>
      BY <2>8 DEF ControlCallback
    <3> QED BY <3>1 DEF Inv, CdcInv, ClientCloser
  <2> QED BY <1>3, <2>1, <2>2, <2>3, <2>4, <2>5, <2>6, <2>7, <2>8 DEF Client
<1>4. CASE Engine \/ WriteTimeout \/ User
  <2>1. CASE EngineCloses
    BY <2>1 DEF Inv, Typed, EngineCloses, TakesHandle, ClaimsHandle, Closes, Step, CdcInv
  <2>2. CASE EngineCancels
    BY <2>2 DEF Inv, Typed, EngineCancels, NoCallback, CancelsPoll, Retired, Cleared, Step, HandleInv, MutexInv,
       CdcInv, EngineCloser, ClientCloser
  <2>3. CASE EngineReleases
    BY <2>3 DEF Inv, Typed, EngineReleases, CallbackFirst, ReleasesInterface, Endable, Busy, Panic, Step, CdcInv,
       TasksTyped, EngineObject
  <2>4. CASE EngineRemoves
    BY <2>4 DEF Inv, Typed, EngineRemoves, Settled, RemovesDevice, ClosedDevice, LastClosed, SetActions, Notify,
       CloseFails, Panic, Stale, Step, HandleInv, MutexInv, CdcInv, EngineCloser, ClientCloser, TasksTyped,
       EngineObject
  <2>5. CASE EngineClosed
    BY <2>5 DEF Inv, EngineClosed, Step, CdcInv
  <2>6. CASE NoticeGone
    BY <2>6 DEF Inv, NoticeGone, Turn, Step, CdcInv
  <2>7. CASE AutoConnect
    BY <2>7 DEF Inv, AutoConnect, Turn, StartsOpen, Step, CdcInv
  <2>8. CASE OpenFailed
    BY <2>8 DEF Inv, OpenFailed, Step, CdcInv
  <2>9. CASE Found
    BY <2>9 DEF Inv, Typed, Found, Opens, Settled, Step, HandleInv, MutexInv, CdcInv, ClientCloser, linkVarsButEngine
  <2>10. CASE NotFound
    BY <2>10 DEF Inv, NotFound, Step, CdcInv, linkVarsButEngine
  <2>11. CASE Claim
    <3>1. CASE Enabled
      BY <2>11, <3>1, ClaimStep DEF Inv, Typed, HandleInv, MutexInv, CdcInv, ClientCloser, TasksTyped, EngineObject,
         Claim
    <3>2. CASE ~Enabled
      BY <2>11, <3>2, RemovesStep DEF Inv, Typed, CdcInv, Removed, Claim, Step, TasksTyped, EngineObject
    <3> QED BY <3>1, <3>2
  <2>12. CASE FirstPoll
    BY <2>12 DEF Inv, Typed, FirstPoll, Accepts, Panic, Step, HandleInv, MutexInv, CdcInv, ClientCloser, TasksTyped,
       EngineObject
  <2>13. CASE Assign
    BY <2>13 DEF Inv, Assign, CdcInv
  <2>14. CASE RequestSetup
    BY <2>14, RequestSetupStep DEF Inv, CdcInv
  <2>15. CASE SetupAnswered
    BY <2>15 DEF Inv, SetupAnswered, CdcInv
  <2>16. CASE Opened
    BY <2>16 DEF Inv, Typed, Opened, Step, HandleInv, MutexInv, CdcInv, TasksTyped, EngineObject
  <2>17. CASE Write
    BY <2>17 DEF Inv, Typed, Write, Turn, Accepts, CdcInv, TasksTyped, EngineObject
  <2>18. CASE WriteDone
    BY <2>18 DEF Inv, WriteDone, WriteEnds, HandleInv, CdcInv
  <2>19. CASE WriteTimeout
    BY <2>19 DEF Inv, Typed, WriteTimeout, NoCallback, WriteEnds, HandleInv, CdcInv
  <2>20. CASE Connect
    BY <2>20 DEF Inv, Typed, Connect, Request, Turn, StartsOpen, Step, CdcInv, TasksTyped, EngineObject
  <2>21. CASE Disconnect
    BY <2>21 DEF Inv, Disconnect, Request, Turn, Step, CdcInv
  <2> QED BY <1>4, <2>1, <2>2, <2>3, <2>4, <2>5, <2>6, <2>7, <2>8, <2>9, <2>10, <2>11, <2>12, <2>13, <2>14, <2>15,
     <2>16, <2>17, <2>18, <2>19, <2>20, <2>21 DEF Engine, User
<1> QED BY <1>1, <1>2, <1>3, <1>4 DEF Next

\* The device is open exactly as long as the driver has its device.
LEMMA RefKept ==
    ASSUME Inv, ~Races, Next
    PROVE  RefInv'
<1>1. CASE Lib
  <2>0. LibTurn /\ ClientCaughtUp /\ UNCHANGED linkVars
    BY <1>1 DEF Lib
  <2>1. CASE UsbhTake
    BY <2>1, <2>0, UsbhTakeStep DEF Inv, Typed, RefInv, linkVars
  <2>2. CASE DefaultPipe
    BY <2>2, <2>0, DefaultPipeStep DEF Inv, RefInv, linkVars
  <2>3. CASE Free
    <3>1. "free" \in LibFlags /\ ~dev'.listed /\ dev'.ref = 0 /\ cdc' = cdc /\ engine' = engine
      BY <2>3, <2>0, FreeStep DEF Inv, Typed, Gone, LibFlags, linkVars
    <3>2. dev.ref = 0
      BY <3>1 DEF Inv, ActInv, FlagsOf
    <3> QED BY <3>1, <3>2 DEF Inv, RefInv
  <2>4. CASE PortLost
    BY <2>4, <2>0, PortLostStep DEF Inv, Typed, RefInv, linkVars
  <2>5. CASE EnumStart
    BY <2>5, <2>0, EnumStartStep DEF Inv, Typed, RefInv, DevInv, linkVars, Staged
  <2>6. CASE EnumCleanup
    BY <2>6, <2>0, EnumCleanupStep DEF Inv, RefInv, linkVars
  <2>7. CASE EnumFailed
    BY <2>7, <2>0, EnumFailedStep DEF Inv, Typed, RefInv, DevInv, linkVars, Gone
  <2>8. CASE LibTake \/ HaltAndFlush \/ SendGone \/ SendNew \/ HubTake \/ NoEvent \/ Connection \/ Debounced \/
              (ResetPort \/ ResetDone) \/ Recover \/ EnumTransfer("get", "check", "cleanup failed") \/
              EnumCheck("check", "get string", "cleanup failed") \/
              EnumTransfer("get string", "check string", "cleanup") \/
              EnumCheck("check string", "cleanup", "cleanup") \/ EnumNothing
    <3>1. UNCHANGED <<dev, cdc, engine>>
      BY <2>8, <2>0 DEF LibTake, HaltAndFlush, SendGone, SendNew, HubTake, NoEvent, Connection, Debounced, ResetPort,
         ResetDone, Recover, EnumTransfer, EnumCheck, EnumNothing, linkVars
    <3> QED BY <3>1 DEF Inv, RefInv
  <2> QED BY <1>1, <2>1, <2>2, <2>3, <2>4, <2>5, <2>6, <2>7, <2>8 DEF Lib, LibGoesOn
<1>2. CASE Bus
  <2>0. UNCHANGED linkVars
    BY <1>2 DEF Bus
  <2>1. CASE Stalls \/ (\E p \in Pipes : Completes(p) \/ Fails(p))
    <3>1. PICK p \in Pipes : Answered(p)
      BY <2>1, AnswerStep DEF Inv, Typed
    <3>2. CASE p = "ep0"
      BY <3>1, <3>2, <2>0 DEF Inv, Answered, RefInv, linkVars
    <3>3. CASE p \in Endpoints
      BY <3>1, <3>3, <2>0 DEF Inv, Answered, RefInv, linkVars
    <3> QED BY <3>2, <3>3 DEF Pipes, Endpoints
  <2>2. CASE Plug \/ (Unplug /\ NotBeforePoll) \/ ConnectionInterrupt \/ SecondEvent
    <3>1. UNCHANGED <<dev, cdc, engine>>
      BY <2>2, <2>0 DEF Plug, Unplug, ConnectionInterrupt, SecondEvent, linkVars
    <3> QED BY <3>1 DEF Inv, RefInv
  <2> QED BY <1>2, <2>1, <2>2 DEF Bus, Interrupt
<1>3. CASE Client
  <2>1. CASE ClientCancels
    <3>1. Cancelled("in")
      BY <2>1, CancelsStep DEF Inv, Typed
    <3> QED BY <2>1, <3>1 DEF Inv, ClientCancels, CancelsPoll, RefInv, CdcInv
  <2>2. CASE ClientRemoves
    <3>1. Removed
      BY <2>2, RemovesStep
    <3> QED BY <2>2, <3>1 DEF Inv, Typed, Removed, ClientRemoves, RefInv, CdcInv, TasksTyped, EngineObject
  <2>3. CASE (\E p \in Endpoints : TakesEndpoint(p)) \/ (InCallback \/ OutCallback) \/ ControlCallback \/
              Message \/ ClientClaims \/ ClientReleases
    <3>1. UNCHANGED <<dev, cdc, engine>>
      BY <2>3 DEF TakesEndpoint, InCallback, OutCallback, ControlCallback, Message, ClientClaims, ClientReleases
    <3> QED BY <3>1 DEF Inv, RefInv
  <2> QED BY <1>3, <2>1, <2>2, <2>3 DEF Client
<1>4. CASE Engine \/ WriteTimeout \/ User
  <2>1. CASE EngineCloses
    BY <2>1 DEF Inv, Typed, EngineCloses, TakesHandle, ClaimsHandle, Closes, Step, RefInv, TasksTyped, EngineObject,
       hostVars
  <2>2. CASE EngineCancels
    <3>1. Cancelled("in")
      BY <2>2, CancelsStep DEF Inv, Typed
    <3> QED BY <2>2, <3>1 DEF Inv, Typed, Cancelled, EngineCancels, CancelsPoll, RefInv, CdcInv
  <2>3. CASE EngineReleases
    BY <2>3, ReleaseStep DEF Inv, EngineReleases, Step, RefInv
  <2>4. CASE EngineRemoves
    <3>1. Removed
      BY <2>4, RemovesStep
    <3> QED BY <2>4, <3>1 DEF Inv, Typed, Removed, EngineRemoves, Step, RefInv, TasksTyped, EngineObject
  <2>5. CASE EngineClosed
    BY <2>5 DEF Inv, Typed, EngineClosed, Step, RefInv, TasksTyped, EngineObject, hostVars
  <2>6. CASE NoticeGone
    BY <2>6 DEF Inv, Typed, NoticeGone, Turn, Step, RefInv, TasksTyped, EngineObject, hostVars
  <2>7. CASE AutoConnect
    BY <2>7 DEF Inv, Typed, AutoConnect, Turn, StartsOpen, Step, RefInv, EngineObject, hostVars
  <2>8. CASE OpenFailed
    BY <2>8 DEF Inv, Typed, OpenFailed, Step, RefInv, TasksTyped, EngineObject, hostVars
  <2>9. CASE Found
    <3>1. cdc = "none" /\ dev.ref = 0 /\ dev.listed
      BY <2>9 DEF Inv, Found, Opens, RefInv
    <3>2. cdc' = "none" /\ dev'.ref = 1 /\ dev'.listed /\ engine'.at = "claim"
      BY <2>9, <3>1 DEF Found, Step, linkVarsButEngine
    <3> QED BY <3>2 DEF RefInv
  <2>10. CASE NotFound
    BY <2>10 DEF Inv, Typed, NotFound, Step, RefInv, TasksTyped, EngineObject, hostVars, linkVarsButEngine
  <2>11. CASE Claim
    <3>1. CASE Enabled
      BY <2>11, <3>1, ClaimStep DEF Inv, Typed, RefInv
    <3>2. CASE ~Enabled
      BY <2>11, <3>2, RemovesStep DEF Inv, Typed, RefInv, Removed, Claim, Step, TasksTyped, EngineObject
    <3> QED BY <3>1, <3>2
  <2>12. CASE FirstPoll
    <3>1. Submitted("in")
      BY <2>12, SubmitsStep DEF Inv, Typed
    <3> QED BY <2>12, <3>1 DEF Inv, FirstPoll, RefInv, CdcInv
  <2>13. CASE Assign
    BY <2>13 DEF Inv, Assign, RefInv, hostVars
  <2>14. CASE RequestSetup
    BY <2>14, RequestSetupStep DEF Inv, RefInv
  <2>15. CASE SetupAnswered
    BY <2>15 DEF Inv, SetupAnswered, RefInv
  <2>16. CASE Opened
    BY <2>16 DEF Inv, Typed, Opened, Step, RefInv, TasksTyped, EngineObject, hostVars
  <2>17. CASE Write
    <3>1. Submitted("out")
      BY <2>17, SubmitsStep DEF Inv, Typed
    <3> QED BY <2>17, <3>1 DEF Inv, Typed, Write, Turn, RefInv, TasksTyped, EngineObject
  <2>18. CASE WriteDone
    BY <2>18 DEF Inv, Typed, WriteDone, WriteEnds, RefInv, TasksTyped, EngineObject
  <2>19. CASE WriteTimeout
    <3>1. Cancelled("out")
      BY <2>19, CancelsStep DEF Inv, Typed
    <3> QED BY <2>19, <3>1 DEF Inv, Typed, Cancelled, WriteTimeout, WriteEnds, RefInv, TasksTyped, EngineObject
  <2>20. CASE Connect
    BY <2>20 DEF Inv, Typed, Connect, Request, Turn, StartsOpen, Step, RefInv, TasksTyped, EngineObject, hostVars
  <2>21. CASE Disconnect
    BY <2>21 DEF Inv, Typed, Disconnect, Request, Turn, Step, RefInv, TasksTyped, EngineObject, hostVars
  <2> QED BY <1>4, <2>1, <2>2, <2>3, <2>4, <2>5, <2>6, <2>7, <2>8, <2>9, <2>10, <2>11, <2>12, <2>13, <2>14, <2>15,
     <2>16, <2>17, <2>18, <2>19, <2>20, <2>21 DEF Engine, User
<1> QED BY <1>1, <1>2, <1>3, <1>4 DEF Next

LEMMA WaitSame ==
    ASSUME WaitInv, dev'.ctrl = dev.ctrl, dev'.listed <=> dev.listed,
           pipes'["ep0"].urb = "idle" <=> pipes["ep0"].urb = "idle",
           engine'.at = "waiting" <=> engine.at = "waiting", semaphore'.ctrl = semaphore.ctrl,
           ctrlDone'.there <=> ctrlDone.there
    PROVE  WaitInv'
BY DEF WaitInv

\* A request is in flight exactly as long as the engine waits for its answer.
LEMMA WaitKept ==
    ASSUME Inv, ~Races, Next
    PROVE  WaitInv'
<1>1. CASE Lib
  <2>0. LibTurn /\ ClientCaughtUp /\ UNCHANGED linkVars
    BY <1>1 DEF Lib
  <2>1. CASE UsbhTake
    BY <2>1, <2>0, UsbhTakeStep DEF Inv, Typed, WaitInv, linkVars
  <2>2. CASE HaltAndFlush
    <3>1. dev'.ctrl = dev.ctrl /\ (dev'.listed <=> dev.listed)
          /\ (pipes'["ep0"].urb = "idle" <=> pipes["ep0"].urb = "idle")
          /\ (engine'.at = "waiting" <=> engine.at = "waiting") /\ semaphore'.ctrl = semaphore.ctrl
          /\ (ctrlDone'.there <=> ctrlDone.there)
      BY <2>2, <2>0, HaltStep DEF Inv, Typed, linkVars
    <3> QED BY <3>1, WaitSame DEF Inv
  <2>3. CASE DefaultPipe
    BY <2>3, <2>0, DefaultPipeStep DEF Inv, WaitInv, linkVars
  <2>4. CASE Free
    BY <2>4, <2>0, FreeStep DEF Inv, Typed, WaitInv, linkVars, Gone
  <2>5. CASE PortLost
    BY <2>5, <2>0, PortLostStep DEF Inv, Typed, WaitInv, linkVars
  <2>6. CASE EnumStart
    BY <2>6, <2>0, EnumStartStep DEF Inv, Typed, WaitInv, linkVars, Staged
  <2>7. CASE EnumTransfer("get", "check", "cleanup failed")
    <3>1. Transferred("get", "check", "cleanup failed")
      BY <2>7, EnumTransferStep DEF Inv, Typed
    <3> QED BY <3>1, <2>0 DEF Inv, Transferred, Staged, WaitInv, DevInv, linkVars
  <2>8. CASE EnumCheck("check", "get string", "cleanup failed")
    <3>1. Checked("check", "get string", "cleanup failed")
      BY <2>8, EnumCheckStep DEF Inv, Typed
    <3> QED BY <3>1, <2>0 DEF Inv, Checked, Staged, WaitInv, DevInv, linkVars
  <2>9. CASE EnumTransfer("get string", "check string", "cleanup")
    <3>1. Transferred("get string", "check string", "cleanup")
      BY <2>9, EnumTransferStep DEF Inv, Typed
    <3> QED BY <3>1, <2>0 DEF Inv, Transferred, Staged, WaitInv, DevInv, linkVars
  <2>10. CASE EnumCheck("check string", "cleanup", "cleanup")
    <3>1. Checked("check string", "cleanup", "cleanup")
      BY <2>10, EnumCheckStep DEF Inv, Typed
    <3> QED BY <3>1, <2>0 DEF Inv, Checked, Staged, WaitInv, DevInv, linkVars
  <2>11. CASE EnumCleanup
    <3>1. pipes["ep0"].urb = "idle" /\ dev.ctrl = 0
      BY <2>11, EnumCleanupStep DEF Inv, EnumInv, WaitInv
    <3>2. pipes' = pipes /\ dev'.ctrl = 0 /\ engine' = engine /\ semaphore' = semaphore /\ ctrlDone' = ctrlDone
      BY <2>11, <2>0, <3>1, EnumCleanupStep DEF linkVars
    <3> QED BY <3>1, <3>2 DEF Inv, WaitInv
  <2>12. CASE EnumFailed
    BY <2>12, <2>0, EnumFailedStep DEF Inv, Typed, WaitInv, linkVars, Gone
  <2>13. CASE LibTake \/ SendGone \/ SendNew \/ HubTake \/ NoEvent \/ Connection \/ Debounced \/
              (ResetPort \/ ResetDone) \/ Recover \/ EnumNothing
    <3>1. UNCHANGED <<dev, engine, pipes, ctrlDone, semaphore>>
      BY <2>13, <2>0 DEF LibTake, SendGone, SendNew, HubTake, NoEvent, Connection, Debounced, ResetPort, ResetDone,
         Recover, EnumNothing, linkVars
    <3> QED BY <3>1 DEF Inv, WaitInv
  <2> QED BY <1>1, <2>1, <2>2, <2>3, <2>4, <2>5, <2>6, <2>7, <2>8, <2>9, <2>10, <2>11, <2>12, <2>13 DEF Lib, LibGoesOn
<1>2. CASE Bus
  <2>0. UNCHANGED linkVars
    BY <1>2 DEF Bus
  <2>1. CASE Stalls \/ (\E p \in Pipes : Completes(p) \/ Fails(p))
    <3>1. PICK p \in Pipes : Answered(p)
      BY <2>1, AnswerStep DEF Inv, Typed
    <3>2. pipes'["ep0"].urb = "idle" <=> pipes["ep0"].urb = "idle"
      BY <3>1 DEF Answered, Pipes
    <3> QED BY <2>0, <3>1, <3>2, WaitSame DEF Inv, Answered, linkVars
  <2>2. CASE Plug \/ (Unplug /\ NotBeforePoll) \/ ConnectionInterrupt \/ SecondEvent
    <3>1. UNCHANGED <<dev, engine, pipes, ctrlDone, semaphore>>
      BY <2>2, <2>0 DEF Plug, Unplug, ConnectionInterrupt, SecondEvent, linkVars
    <3> QED BY <3>1 DEF Inv, WaitInv
  <2> QED BY <1>2, <2>1, <2>2 DEF Bus, Interrupt
<1>3. CASE Client
  <2>1. CASE \E p \in Endpoints : TakesEndpoint(p)
    <3>1. PICK p \in Endpoints : Taken(p)
      BY <2>1, TakesStep DEF Inv, Typed
    <3>2. pipes'["ep0"] = pipes["ep0"]
      BY <3>1 DEF Taken, Pipes, Endpoints
    <3> QED BY <3>1, <3>2, WaitSame DEF Inv, Taken
  <2>2. CASE InCallback \/ OutCallback
    <3>1. PICK p \in Endpoints : CalledFor(p)
      BY <2>2, CallbackRuns DEF Inv, Typed
    <3>2. pipes'["ep0"] = pipes["ep0"]
      BY <3>1 DEF CalledFor, Pipes, Endpoints
    <3> QED BY <3>1, <3>2, WaitSame DEF Inv, CalledFor
  <2>3. CASE ControlCallback
    <3>1. dev' = dev /\ pipes' = pipes /\ dev.ctrl = 0 /\ ~ctrlDone'.there
      BY <2>3 DEF Inv, ControlCallback, WaitInv
    <3> QED BY <3>1 DEF Inv, WaitInv
  <2>4. CASE ClientCancels
    <3>1. Cancelled("in")
      BY <2>4, CancelsStep DEF Inv, Typed
    <3>2. pipes'["ep0"] = pipes["ep0"]
      BY <3>1 DEF Cancelled, Pipes
    <3>3. (engine'.at = "waiting" <=> engine.at = "waiting") /\ UNCHANGED <<dev, semaphore, ctrlDone>>
      BY <2>4 DEF ClientCancels
    <3> QED BY <3>2, <3>3, WaitSame DEF Inv
  <2>5. CASE ClientReleases
    BY <2>5, ReleaseStep DEF Inv, Typed, ClientReleases, WaitInv
  <2>6. CASE ClientRemoves
    <3>1. Removed /\ engine'.at = engine.at /\ UNCHANGED <<pipes, semaphore, ctrlDone>> /\ dev.ctrl = 0
      BY <2>6, RemovesStep DEF Inv, ClientRemoves, WaitInv, HandleInv, ClientCloser
    <3> QED BY <3>1, WaitSame DEF Inv, Removed
  <2>7. CASE Message \/ ClientClaims
    <3>1. UNCHANGED <<dev, engine, pipes, ctrlDone, semaphore>>
      BY <2>7 DEF Message, ClientClaims
    <3> QED BY <3>1 DEF Inv, WaitInv
  <2> QED BY <1>3, <2>1, <2>2, <2>3, <2>4, <2>5, <2>6, <2>7 DEF Client
<1>4. CASE Engine \/ WriteTimeout \/ User
  <2>1. CASE EngineCloses
    BY <2>1 DEF Inv, Typed, EngineCloses, TakesHandle, ClaimsHandle, WaitInv, hostVars
  <2>2. CASE EngineCancels
    <3>1. Cancelled("in")
      BY <2>2, CancelsStep DEF Inv, Typed
    <3>2. pipes'["ep0"] = pipes["ep0"]
      BY <3>1 DEF Cancelled, Pipes
    <3>3. (engine'.at = "waiting" <=> engine.at = "waiting") /\ UNCHANGED <<dev, semaphore, ctrlDone>>
      BY <2>2 DEF EngineCancels, Step
    <3> QED BY <3>2, <3>3, WaitSame DEF Inv
  <2>3. CASE EngineReleases
    BY <2>3, ReleaseStep DEF Inv, Typed, EngineReleases, WaitInv
  <2>4. CASE EngineRemoves
    <3>1. Removed
      BY <2>4, RemovesStep
    <3> QED BY <2>4, <3>1 DEF Inv, Removed, EngineRemoves, WaitInv
  <2>5. CASE EngineClosed
    BY <2>5 DEF Inv, EngineClosed, WaitInv, hostVars
  <2>6. CASE NoticeGone
    BY <2>6 DEF Inv, Typed, NoticeGone, Turn, WaitInv, hostVars
  <2>7. CASE AutoConnect
    BY <2>7 DEF Inv, Typed, AutoConnect, Turn, WaitInv, hostVars
  <2>8. CASE OpenFailed
    BY <2>8 DEF Inv, OpenFailed, WaitInv, hostVars
  <2>9. CASE Found
    BY <2>9 DEF Inv, Found, WaitInv
  <2>10. CASE NotFound
    BY <2>10 DEF Inv, NotFound, WaitInv, hostVars
  <2>11. CASE Claim
    <3>1. CASE Enabled
      BY <2>11, <3>1, ClaimStep DEF Inv, Typed, WaitInv, Claim
    <3>2. CASE ~Enabled
      BY <2>11, <3>2, RemovesStep DEF Inv, WaitInv, Removed, Claim
    <3> QED BY <3>1, <3>2
  <2>12. CASE FirstPoll
    <3>1. Submitted("in")
      BY <2>12, SubmitsStep DEF Inv, Typed
    <3> QED BY <2>12, <3>1 DEF Inv, Submitted, FirstPoll, WaitInv, Pipes
  <2>13. CASE Assign
    BY <2>13 DEF Inv, Assign, WaitInv, hostVars
  <2>14. CASE RequestSetup
    <3>1. engine.at = "setup" /\ (handle # "none" => dev.listed) /\ dev.ctrl # 1 /\ ~ctrlDone.there
      BY <2>14 DEF Inv, RequestSetup, HandleInv, RefInv, WaitInv
    <3>2. CASE handle # "none" /\ pipes["ep0"].urb = "idle" /\ Submitted("ep0")
               /\ dev'.ctrl = 1 /\ (dev'.listed <=> dev.listed) /\ engine'.at = "waiting" /\ semaphore'.ctrl = "none"
      BY <2>14, <3>1, <3>2, RequestSetupStep DEF WaitInv, Submitted
    <3>3. CASE engine'.at = "setup" /\ pipes' = pipes /\ dev' = dev /\ semaphore' = semaphore
      BY <2>14, <3>1, <3>3, RequestSetupStep DEF Inv, WaitInv
    <3> QED BY <2>14, <3>2, <3>3, RequestSetupStep
  <2>15. CASE SetupAnswered
    BY <2>15 DEF Inv, SetupAnswered, WaitInv
  <2>16. CASE Opened
    BY <2>16 DEF Inv, Opened, WaitInv, hostVars
  <2>17. CASE Write
    <3>1. Submitted("out")
      BY <2>17, SubmitsStep DEF Inv, Typed
    <3> QED BY <2>17, <3>1 DEF Inv, Typed, Submitted, Write, Turn, WaitInv, Pipes
  <2>18. CASE WriteDone
    BY <2>18 DEF Inv, WriteDone, WaitInv
  <2>19. CASE WriteTimeout
    <3>1. Cancelled("out")
      BY <2>19, CancelsStep DEF Inv, Typed
    <3>2. pipes'["ep0"] = pipes["ep0"]
      BY <3>1 DEF Cancelled, Pipes
    <3>3. (engine'.at = "waiting" <=> engine.at = "waiting") /\ UNCHANGED <<dev, semaphore, ctrlDone>>
      BY <2>19 DEF Inv, Typed, WriteTimeout, WriteEnds, TasksTyped, EngineObject
    <3> QED BY <3>2, <3>3, WaitSame DEF Inv
  <2>20. CASE Connect
    BY <2>20 DEF Inv, Typed, Connect, Request, Turn, WaitInv, hostVars
  <2>21. CASE Disconnect
    BY <2>21 DEF Inv, Typed, Disconnect, Request, Turn, WaitInv, hostVars
  <2> QED BY <1>4, <2>1, <2>2, <2>3, <2>4, <2>5, <2>6, <2>7, <2>8, <2>9, <2>10, <2>11, <2>12, <2>13, <2>14, <2>15,
     <2>16, <2>17, <2>18, <2>19, <2>20, <2>21 DEF Engine, User
<1> QED BY <1>1, <1>2, <1>3, <1>4 DEF Next

-----------------------------------------------------------------------------
(* The types of the next state *)

LEMMA StageTyped ==
    ASSUME HubTyped, NEW s, Stage(s),
           s \in {"none", "start", "get", "check", "get string", "check string", "cleanup", "cleanup failed"}
    PROVE  HubTyped'
<1>1. hub.actions \cup {"enum"} \subseteq HubFlags
  BY DEF HubTyped, HubObject, HubFlags
<1>2. PICK a : a \subseteq HubFlags /\ hub' = [hub EXCEPT !.stage = s, !.actions = a]
  BY <1>1 DEF Stage
<1> QED BY <1>2 DEF HubTyped, HubObject

LEMMA CountKept ==
    ASSUME Inv, ~Races, Next
    PROVE  CountTyped'
<1>1. CASE Lib
  <2>1. UNCHANGED <<plugged, plugs, faults, faulted, requests>>
    BY <1>1 DEF Lib, LibGoesOn, linkVars, LibTake, UsbhTake, HaltAndFlush, DefaultPipe, SendGone, SendNew, Free,
       HubTake, PortLost, NoEvent, Connection, Debounced, ResetPort, ResetDone, Recover, EnumStart, EnumTransfer,
       EnumCheck, EnumCleanup, EnumFailed, EnumNothing
  <2> QED BY <2>1 DEF Inv, Typed, CountTyped
<1>2. CASE Bus
  <2>0. UNCHANGED linkVars
    BY <1>2 DEF Bus
  <2>1. CASE Plug
    <3>1. plugged' = TRUE /\ plugs' = plugs + 1 /\ faulted' = FALSE /\ faults' = faults /\ plugs < MaxPlugs
          /\ requests' = requests
      BY <2>1, <2>0 DEF Plug, linkVars
    <3>2. plugs + 1 \in 0..MaxPlugs
      BY <3>1, UsbHostAssumption DEF Inv, Typed, CountTyped
    <3> QED BY <3>1, <3>2 DEF Inv, Typed, CountTyped
  <2>2. CASE (Unplug /\ NotBeforePoll)
    BY <2>2, <2>0, UsbHostAssumption, UsbLinkAssumption DEF Inv, Typed, Unplug, CountTyped, linkVars
  <2>3. CASE Stalls \/ (\E p \in Pipes : Completes(p) \/ Fails(p))
    <3>1. plugged' = plugged /\ plugs' = plugs /\ requests' = requests
      BY <2>3, <2>0 DEF Stalls, Completes, Fails, linkVars
    <3>2. \/ faults' = faults /\ faulted' = faulted
          \/ faults < MaxFaults /\ faults' = faults + 1 /\ faulted' = TRUE
      BY <2>3 DEF Stalls, Completes, Fails
    <3>3. faults < MaxFaults => faults + 1 \in 0..MaxFaults
      BY UsbHostAssumption DEF Inv, Typed, CountTyped
    <3> QED BY <3>1, <3>2, <3>3 DEF Inv, Typed, CountTyped
  <2>4. CASE ConnectionInterrupt \/ SecondEvent
    <3>1. UNCHANGED <<plugged, plugs, faults, faulted, requests>>
      BY <2>4, <2>0 DEF ConnectionInterrupt, SecondEvent, linkVars
    <3> QED BY <3>1 DEF Inv, Typed, CountTyped
  <2> QED BY <1>2, <2>1, <2>2, <2>3, <2>4 DEF Bus, Interrupt
<1>3. CASE Client
  <2>1. UNCHANGED <<plugged, plugs, faults, faulted, requests>>
    BY <1>3 DEF Client, TakesEndpoint, InCallback, OutCallback, ControlCallback, Message, ClientClaims, ClientCancels,
       ClientReleases, ClientRemoves
  <2> QED BY <2>1 DEF Inv, Typed, CountTyped
<1>4. CASE Engine \/ WriteTimeout \/ User
  <2>1. CASE WriteTimeout
    <3>1. UNCHANGED <<plugged, plugs, faulted, requests>> /\ faults < MaxFaults /\ faults' = faults + 1
      BY <2>1 DEF WriteTimeout
    <3>2. faults + 1 \in 0..MaxFaults
      BY <3>1, UsbHostAssumption DEF Inv, Typed, CountTyped
    <3> QED BY <3>1, <3>2 DEF Inv, Typed, CountTyped
  <2>2. CASE Connect
    BY <2>2, UsbHostAssumption, UsbLinkAssumption DEF Inv, Typed, Connect, Request, CountTyped, hostVars
  <2>3. CASE Disconnect
    BY <2>3, UsbHostAssumption, UsbLinkAssumption DEF Inv, Typed, Disconnect, Request, CountTyped, hostVars
  <2>4. CASE EngineCloses \/ EngineCancels \/ EngineReleases \/ EngineRemoves \/ EngineClosed \/ NoticeGone \/
              AutoConnect \/ OpenFailed \/ Found \/ NotFound \/ Claim \/ FirstPoll \/ Assign \/ RequestSetup \/
              SetupAnswered \/ Opened \/ Write \/ WriteDone
    <3>1. UNCHANGED <<plugged, plugs, faults, faulted, requests>>
      BY <2>4 DEF EngineCloses, EngineCancels, EngineReleases, EngineRemoves, EngineClosed, NoticeGone, AutoConnect,
         OpenFailed, Found, NotFound, Claim, FirstPoll, Assign, RequestSetup, SetupAnswered, Opened, Write, WriteDone,
         linkVarsButEngine, hostVars
    <3> QED BY <3>1 DEF Inv, Typed, CountTyped
  <2> QED BY <1>4, <2>1, <2>2, <2>3, <2>4 DEF Engine, User
<1> QED BY <1>1, <1>2, <1>3, <1>4 DEF Next

LEMMA PortTypeKept ==
    ASSUME Inv, ~Races, Next
    PROVE  PortTyped'
<1>1. CASE Lib
  <2>0. LibTurn /\ ClientCaughtUp /\ UNCHANGED linkVars
    BY <1>1 DEF Lib
  <2>1. CASE PortLost
    BY <2>1 DEF Inv, Typed, PortLost, PortTyped, PortObject
  <2>2. CASE Connection
    BY <2>2 DEF Inv, Typed, Connection, PortTyped, PortObject
  <2>3. CASE Debounced
    BY <2>3 DEF Inv, Typed, Debounced, PortTyped, PortObject
  <2>4. CASE ResetPort \/ ResetDone
    BY <2>4 DEF Inv, Typed, ResetPort, ResetDone, PortTyped, PortObject
  <2>5. CASE Recover
    BY <2>5 DEF Inv, Typed, Recover, PortTyped, PortObject
  <2>6. CASE LibTake \/ UsbhTake \/ HaltAndFlush \/ DefaultPipe \/ SendGone \/ SendNew \/ Free \/ HubTake \/
              NoEvent \/ EnumStart \/ EnumTransfer("get", "check", "cleanup failed") \/
              EnumCheck("check", "get string", "cleanup failed") \/
              EnumTransfer("get string", "check string", "cleanup") \/
              EnumCheck("check string", "cleanup", "cleanup") \/ EnumCleanup \/ EnumFailed \/ EnumNothing
    <3>1. UNCHANGED <<port>>
      BY <2>6 DEF LibTake, UsbhTake, HaltAndFlush, DefaultPipe, SendGone, SendNew, Free, HubTake, NoEvent, EnumStart,
         EnumTransfer, EnumCheck, EnumCleanup, EnumFailed, EnumNothing
    <3> QED BY <3>1 DEF Inv, Typed, PortTyped
  <2> QED BY <1>1, <2>1, <2>2, <2>3, <2>4, <2>5, <2>6 DEF Lib, LibGoesOn
<1>2. CASE Bus
  <2>0. UNCHANGED linkVars
    BY <1>2 DEF Bus
  <2>1. CASE (Unplug /\ NotBeforePoll)
    BY <2>1, UnplugStep DEF Inv, Typed
  <2>2. CASE ConnectionInterrupt
    BY <2>2 DEF Inv, Typed, ConnectionInterrupt, PortTyped, PortObject
  <2>3. CASE SecondEvent
    BY <2>3 DEF Inv, Typed, SecondEvent, PortTyped, PortObject
  <2>4. CASE Plug \/ (Stalls \/ (\E p \in Pipes : Completes(p) \/ Fails(p)))
    <3>1. UNCHANGED <<port>>
      BY <2>4 DEF Plug, Stalls, Completes, Fails
    <3> QED BY <3>1 DEF Inv, Typed, PortTyped
  <2> QED BY <1>2, <2>1, <2>2, <2>3, <2>4 DEF Bus, Interrupt
<1>3. CASE Client
  <2>1. UNCHANGED <<port>>
    BY <1>3, LinkSteps
  <2> QED BY <2>1 DEF Inv, Typed, PortTyped
<1>4. CASE Engine \/ WriteTimeout \/ User
  <2>1. UNCHANGED <<port>>
    BY <1>4, LinkSteps
  <2> QED BY <2>1 DEF Inv, Typed, PortTyped
<1> QED BY <1>1, <1>2, <1>3, <1>4 DEF Next

LEMMA HubTypeKept ==
    ASSUME Inv, ~Races, Next
    PROVE  HubTyped'
<1>1. CASE Lib
  <2>0. LibTurn /\ ClientCaughtUp /\ UNCHANGED linkVars
    BY <1>1 DEF Lib
  <2>1. CASE Free
    BY <2>1 DEF Inv, Typed, Free, HubTyped, HubObject, HubFlags
  <2>2. CASE HubTake
    BY <2>2 DEF Inv, Typed, HubTake, HubTyped, HubObject
  <2>3. CASE PortLost
    <3>1. \/ hub' = hub
          \/ hub' = [hub EXCEPT !.state = "recovery", !.actions = @ \cup {"recover"}]
          \/ hub' = [hub EXCEPT !.state = "recovery", !.actions = @ \cup {"enum"}, !.stage = "cleanup failed"]
          \/ hub' = [hub EXCEPT !.state = "recovery"]
      BY <2>3 DEF PortLost
    <3> QED BY <3>1 DEF Inv, Typed, HubTyped, HubObject, HubFlags
  <2>4. CASE ResetPort \/ ResetDone
    <3>1. CASE hub' = hub
      BY <3>1 DEF Inv, Typed, HubTyped
    <3>2. CASE hub' = [hub EXCEPT !.state = "enum", !.stage = "start", !.actions = @ \cup {"enum"}]
      BY <3>2 DEF Inv, Typed, HubTyped, HubObject, HubFlags
    <3> QED BY <2>4, <3>1, <3>2 DEF ResetPort, ResetDone
  <2>5. CASE Recover
    BY <2>5 DEF Inv, Typed, Recover, HubTyped, HubObject
  <2>6. CASE EnumStart
    BY <2>6, StageTyped DEF Inv, Typed, EnumStart
  <2>7. CASE EnumTransfer("get", "check", "cleanup failed")
    BY <2>7, StageTyped DEF Inv, Typed, EnumTransfer
  <2>8. CASE EnumCheck("check", "get string", "cleanup failed")
    BY <2>8 DEF Inv, Typed, EnumCheck, Enum, Stage, HubTyped, HubObject, HubFlags
  <2>9. CASE EnumTransfer("get string", "check string", "cleanup")
    BY <2>9, StageTyped DEF Inv, Typed, EnumTransfer
  <2>10. CASE EnumCheck("check string", "cleanup", "cleanup")
    BY <2>10 DEF Inv, Typed, EnumCheck, Enum, Stage, HubTyped, HubObject, HubFlags
  <2>11. CASE EnumCleanup
    BY <2>11 DEF Inv, Typed, EnumCleanup, HubTyped, HubObject
  <2>12. CASE EnumFailed
    BY <2>12 DEF Inv, Typed, EnumFailed, Enum, StageDone, HubDone, Rest, AfterFailure, HubTyped, HubObject, HubFlags
  <2>13. CASE LibTake \/ UsbhTake \/ HaltAndFlush \/ DefaultPipe \/ SendGone \/ SendNew \/ NoEvent \/
              Connection \/ Debounced \/ EnumNothing
    <3>1. UNCHANGED <<hub>>
      BY <2>13 DEF LibTake, UsbhTake, HaltAndFlush, DefaultPipe, SendGone, SendNew, NoEvent, Connection, Debounced,
         EnumNothing
    <3> QED BY <3>1 DEF Inv, Typed, HubTyped
  <2> QED BY <1>1, <2>1, <2>2, <2>3, <2>4, <2>5, <2>6, <2>7, <2>8, <2>9, <2>10, <2>11, <2>12, <2>13 DEF Lib, LibGoesOn
<1>2. CASE Bus
  <2>0. UNCHANGED linkVars
    BY <1>2 DEF Bus
  <2>1. CASE (Unplug /\ NotBeforePoll)
    <3>1. hub' = hub \/ hub' = [hub EXCEPT !.actions = @ \cup {"root"}]
      BY <2>1 DEF Unplug, RootEvent
    <3> QED BY <3>1 DEF Inv, Typed, HubTyped, HubObject, HubFlags
  <2>2. CASE ConnectionInterrupt
    BY <2>2 DEF Inv, Typed, ConnectionInterrupt, RootEvent, HubTyped, HubObject, HubFlags
  <2>3. CASE SecondEvent
    BY <2>3 DEF Inv, Typed, SecondEvent, RootEvent, HubTyped, HubObject, HubFlags
  <2>4. CASE Stalls \/ (\E p \in Pipes : Completes(p) \/ Fails(p))
    BY <2>4, AnswerStep DEF Inv, Typed, Answered
  <2>5. CASE Plug
    <3>1. UNCHANGED <<hub>>
      BY <2>5 DEF Plug
    <3> QED BY <3>1 DEF Inv, Typed, HubTyped
  <2> QED BY <1>2, <2>1, <2>2, <2>3, <2>4, <2>5 DEF Bus, Interrupt
<1>3. CASE Client
  <2>1. UNCHANGED <<hub>>
    BY <1>3, LinkSteps
  <2> QED BY <2>1 DEF Inv, Typed, HubTyped
<1>4. CASE Engine \/ WriteTimeout \/ User
  <2>1. UNCHANGED <<hub>>
    BY <1>4, LinkSteps
  <2> QED BY <2>1 DEF Inv, Typed, HubTyped
<1> QED BY <1>1, <1>2, <1>3, <1>4 DEF Next

LEMMA LibTypeKept ==
    ASSUME Inv, ~Races, Next
    PROVE  LibTyped'
<1>1. CASE Lib
  <2>0. LibTurn /\ ClientCaughtUp /\ UNCHANGED linkVars
    BY <1>1 DEF Lib
  <2>1. CASE LibTake
    BY <2>1 DEF Inv, Typed, LibTake, LibTyped, LibObject
  <2>2. CASE UsbhTake
    <3>1. dev.actions \subseteq DevFlags
      BY DEF Inv, Typed, DevTyped, DevObject
    <3>2. work' = work
      BY <2>2 DEF UsbhTake
    <3>3. CASE lib' = [lib EXCEPT !.at = "device", !.acts = dev.actions]
      BY <3>1, <3>2, <3>3 DEF Inv, Typed, LibTyped, LibObject
    <3>4. CASE lib' = [lib EXCEPT !.at = "hub take"]
      BY <3>2, <3>4 DEF Inv, Typed, LibTyped, LibObject
    <3> QED BY <2>2, <3>3, <3>4 DEF UsbhTake
  <2>3. CASE HaltAndFlush
    BY <2>3 DEF Inv, Typed, HaltAndFlush, Rest, LibTyped, LibObject
  <2>4. CASE DefaultPipe
    BY <2>4 DEF Inv, Typed, DefaultPipe, Notify, Rest, LibTyped, LibObject
  <2>5. CASE SendGone
    BY <2>5 DEF Inv, Typed, SendGone, Rest, LibTyped, LibObject
  <2>6. CASE SendNew
    BY <2>6 DEF Inv, Typed, SendNew, Rest, LibTyped, LibObject
  <2>7. CASE Free
    BY <2>7 DEF Inv, Typed, Free, Notify, Rest, LibTyped, LibObject
  <2>8. CASE HubTake
    <3>1. hub.actions \subseteq HubFlags
      BY DEF Inv, Typed, HubTyped, HubObject
    <3>2. work' = work
      BY <2>8 DEF HubTake
    <3>3. CASE lib' = [lib EXCEPT !.at = "hub", !.acts = hub.actions]
      BY <3>1, <3>2, <3>3 DEF Inv, Typed, LibTyped, LibObject
    <3>4. CASE lib' = [lib EXCEPT !.at = "wait", !.todo = {}]
      BY <3>2, <3>4 DEF Inv, Typed, LibTyped, LibObject
    <3> QED BY <2>8, <3>3, <3>4 DEF HubTake
  <2>9. CASE PortLost
    BY <2>9 DEF Inv, Typed, PortLost, HubDone, Rest, Notify, LibTyped, LibObject
  <2>10. CASE NoEvent
    BY <2>10 DEF Inv, Typed, NoEvent, HubDone, Rest, LibTyped, LibObject
  <2>11. CASE Connection
    BY <2>11 DEF Inv, Typed, Connection, LibTyped, LibObject
  <2>12. CASE Debounced
    BY <2>12 DEF Inv, Typed, Debounced, LibTyped, LibObject
  <2>13. CASE ResetPort \/ ResetDone
    <3>1. work' = work
      BY <2>13 DEF ResetPort, ResetDone
    <3>2. CASE lib' = [lib EXCEPT !.at = "resetting"]
      BY <3>1, <3>2 DEF Inv, Typed, LibTyped, LibObject
    <3>3. CASE lib' = After(lib.acts \ {"root"})
      BY <3>1, <3>3 DEF Inv, Typed, LibTyped, LibObject, After
    <3> QED BY <2>13, <3>2, <3>3 DEF ResetPort, ResetDone
  <2>14. CASE Recover
    BY <2>14 DEF Inv, Typed, Recover, HubDone, Rest, LibTyped, LibObject
  <2>15. CASE EnumStart
    BY <2>15 DEF Inv, Typed, EnumStart, StageDone, HubDone, Rest, LibTyped, LibObject
  <2>16. CASE EnumTransfer("get", "check", "cleanup failed")
    BY <2>16 DEF Inv, Typed, EnumTransfer, StageDone, HubDone, Rest, LibTyped, LibObject
  <2>17. CASE EnumCheck("check", "get string", "cleanup failed")
    BY <2>17 DEF Inv, Typed, EnumCheck, StageDone, HubDone, Rest, LibTyped, LibObject
  <2>18. CASE EnumTransfer("get string", "check string", "cleanup")
    BY <2>18 DEF Inv, Typed, EnumTransfer, StageDone, HubDone, Rest, LibTyped, LibObject
  <2>19. CASE EnumCheck("check string", "cleanup", "cleanup")
    BY <2>19 DEF Inv, Typed, EnumCheck, StageDone, HubDone, Rest, LibTyped, LibObject
  <2>20. CASE EnumCleanup
    BY <2>20 DEF Inv, Typed, EnumCleanup, Enum, StageDone, HubDone, Rest, Notify, LibTyped, LibObject
  <2>21. CASE EnumFailed
    BY <2>21 DEF Inv, Typed, EnumFailed, Enum, StageDone, HubDone, Rest, Notify, LibTyped, LibObject
  <2>22. CASE EnumNothing
    BY <2>22 DEF Inv, Typed, EnumNothing, StageDone, HubDone, Rest, LibTyped, LibObject
  <2> QED BY <1>1, <2>1, <2>2, <2>3, <2>4, <2>5, <2>6, <2>7, <2>8, <2>9, <2>10, <2>11, <2>12, <2>13, <2>14, <2>15,
     <2>16, <2>17, <2>18, <2>19, <2>20, <2>21, <2>22 DEF Lib, LibGoesOn
<1>2. CASE Bus
  <2>0. UNCHANGED linkVars
    BY <1>2 DEF Bus
  <2>1. CASE (Unplug /\ NotBeforePoll)
    BY <2>1 DEF Inv, Typed, Unplug, RootEvent, Notify, LibTyped
  <2>2. CASE ConnectionInterrupt
    BY <2>2 DEF Inv, Typed, ConnectionInterrupt, RootEvent, Notify, LibTyped
  <2>3. CASE SecondEvent
    BY <2>3 DEF Inv, Typed, SecondEvent, RootEvent, Notify, LibTyped
  <2>4. CASE Stalls \/ (\E p \in Pipes : Completes(p) \/ Fails(p))
    BY <2>4 DEF Inv, Typed, Stalls, Callback, SetActions, Notify, Completes, Fails, LibTyped
  <2>5. CASE Plug
    <3>1. UNCHANGED <<lib, work>>
      BY <2>5 DEF Plug
    <3> QED BY <3>1 DEF Inv, Typed, LibTyped
  <2> QED BY <1>2, <2>1, <2>2, <2>3, <2>4, <2>5 DEF Bus, Interrupt
<1>3. CASE Client
  <2>1. CASE ClientRemoves
    BY <2>1 DEF Inv, Typed, ClientRemoves, RemovesDevice, ClosedDevice, Notify, LibTyped
  <2>2. CASE (\E p \in Endpoints : TakesEndpoint(p)) \/ (InCallback \/ OutCallback) \/ ControlCallback \/
              Message \/ ClientClaims \/ ClientCancels \/ ClientReleases
    <3>1. UNCHANGED <<lib, work>>
      BY <2>2 DEF TakesEndpoint, InCallback, OutCallback, ControlCallback, Message, ClientClaims, ClientCancels,
         ClientReleases
    <3> QED BY <3>1 DEF Inv, Typed, LibTyped
  <2> QED BY <1>3, <2>1, <2>2 DEF Client
<1>4. CASE Engine \/ WriteTimeout \/ User
  <2>1. CASE EngineRemoves
    BY <2>1 DEF Inv, Typed, EngineRemoves, Settled, RemovesDevice, Notify, LibTyped
  <2>2. CASE Claim
    BY <2>2 DEF Inv, Typed, Claim, Settled, RemovesDevice, Notify, LibTyped
  <2>3. CASE EngineCloses \/ EngineCancels \/ EngineReleases \/ EngineClosed \/ NoticeGone \/ AutoConnect \/
              OpenFailed \/ Found \/ NotFound \/ FirstPoll \/ Assign \/ RequestSetup \/ SetupAnswered \/
              Opened \/ Write \/ WriteDone \/ WriteTimeout \/ Connect \/ Disconnect
    <3>1. UNCHANGED <<lib, work>>
      BY <2>3 DEF EngineCloses, EngineCancels, EngineReleases, EngineClosed, NoticeGone, AutoConnect, OpenFailed,
         Found, NotFound, FirstPoll, Assign, RequestSetup, SetupAnswered, Opened, Write, WriteDone, WriteTimeout,
         Connect, Disconnect, hostVars
    <3> QED BY <3>1 DEF Inv, Typed, LibTyped
  <2> QED BY <1>4, <2>1, <2>2, <2>3 DEF Engine, User
<1> QED BY <1>1, <1>2, <1>3, <1>4 DEF Next

LEMMA MsgTypeKept ==
    ASSUME Inv, ~Races, Next
    PROVE  MsgTyped'
<1>1. CASE Lib
  <2>0. LibTurn /\ ClientCaughtUp /\ UNCHANGED linkVars
    BY <1>1 DEF Lib
  <2>1. CASE DefaultPipe
    BY <2>1 DEF Inv, Typed, DefaultPipe, MsgTyped
  <2>2. CASE SendGone
    BY <2>2, SendGoneStep DEF Inv, Typed, MsgTyped
  <2>3. CASE LibTake \/ UsbhTake \/ HaltAndFlush \/ SendNew \/ Free \/ HubTake \/ PortLost \/ NoEvent \/
              Connection \/ Debounced \/ (ResetPort \/ ResetDone) \/ Recover \/ EnumStart \/
              EnumTransfer("get", "check", "cleanup failed") \/
              EnumCheck("check", "get string", "cleanup failed") \/
              EnumTransfer("get string", "check string", "cleanup") \/
              EnumCheck("check string", "cleanup", "cleanup") \/ EnumCleanup \/ EnumFailed \/ EnumNothing
    <3>1. UNCHANGED <<msgs, ctrlDone>>
      BY <2>3 DEF LibTake, UsbhTake, HaltAndFlush, SendNew, Free, HubTake, PortLost, NoEvent, Connection, Debounced,
         ResetPort, ResetDone, Recover, EnumStart, EnumTransfer, EnumCheck, EnumCleanup, EnumFailed, EnumNothing
    <3> QED BY <3>1 DEF Inv, Typed, MsgTyped
  <2> QED BY <1>1, <2>1, <2>2, <2>3 DEF Lib, LibGoesOn
<1>2. CASE Bus
  <2>1. UNCHANGED <<msgs, ctrlDone>>
    BY <1>2 DEF Bus, Interrupt, linkVars, Plug, Unplug, ConnectionInterrupt, SecondEvent, Stalls, Completes, Fails
  <2> QED BY <2>1 DEF Inv, Typed, MsgTyped
<1>3. CASE Client
  <2>1. CASE ControlCallback
    BY <2>1 DEF Inv, Typed, ControlCallback, MsgTyped
  <2>2. CASE Message
    <3>1. msgs = <<"gone">> /\ msgs' = Tail(msgs) /\ ctrlDone' = ctrlDone
      BY <2>2 DEF Inv, Typed, MsgTyped, Message
    <3>2. Tail(<<"gone">>) = <<>>
      OBVIOUS
    <3> QED BY <3>1, <3>2 DEF Inv, Typed, MsgTyped
  <2>3. CASE (\E p \in Endpoints : TakesEndpoint(p)) \/ (InCallback \/ OutCallback) \/ ClientClaims \/
              ClientCancels \/ ClientReleases \/ ClientRemoves
    <3>1. UNCHANGED <<msgs, ctrlDone>>
      BY <2>3 DEF TakesEndpoint, InCallback, OutCallback, ClientClaims, ClientCancels, ClientReleases, ClientRemoves
    <3> QED BY <3>1 DEF Inv, Typed, MsgTyped
  <2> QED BY <1>3, <2>1, <2>2, <2>3 DEF Client
<1>4. CASE Engine \/ WriteTimeout \/ User
  <2>1. UNCHANGED <<msgs, ctrlDone>>
    BY <1>4 DEF Engine, User, EngineCloses, EngineCancels, EngineReleases, EngineRemoves, EngineClosed, NoticeGone,
       AutoConnect, OpenFailed, Found, NotFound, Claim, FirstPoll, Assign, RequestSetup, SetupAnswered, Opened, Write,
       WriteDone, WriteTimeout, Connect, Disconnect, hostVars
  <2> QED BY <2>1 DEF Inv, Typed, MsgTyped
<1> QED BY <1>1, <1>2, <1>3, <1>4 DEF Next

LEMMA PipeTypeKept ==
    ASSUME Inv, ~Races, Next
    PROVE  PipesTyped'
<1>1. CASE Lib
  <2>0. LibTurn /\ ClientCaughtUp /\ UNCHANGED linkVars
    BY <1>1 DEF Lib
  <2>1. CASE HaltAndFlush
    BY <2>1, HaltStep DEF Inv, Typed
  <2>2. CASE DefaultPipe
    BY <2>2, DefaultPipeStep
  <2>3. CASE Free
    BY <2>3, FreeStep DEF Inv, Typed, Gone
  <2>4. CASE EnumStart
    BY <2>4, EnumStartStep DEF Inv, Typed, PipesTyped
  <2>5. CASE EnumTransfer("get", "check", "cleanup failed")
    <3>1. Transferred("get", "check", "cleanup failed")
      BY <2>5, EnumTransferStep DEF Inv, Typed
    <3> QED BY <3>1 DEF Inv, Typed, Transferred, PipesTyped
  <2>6. CASE EnumCheck("check", "get string", "cleanup failed")
    <3>1. Checked("check", "get string", "cleanup failed")
      BY <2>6, EnumCheckStep DEF Inv, Typed
    <3> QED BY <3>1 DEF Checked
  <2>7. CASE EnumTransfer("get string", "check string", "cleanup")
    <3>1. Transferred("get string", "check string", "cleanup")
      BY <2>7, EnumTransferStep DEF Inv, Typed
    <3> QED BY <3>1 DEF Inv, Typed, Transferred, PipesTyped
  <2>8. CASE EnumCheck("check string", "cleanup", "cleanup")
    <3>1. Checked("check string", "cleanup", "cleanup")
      BY <2>8, EnumCheckStep DEF Inv, Typed
    <3> QED BY <3>1 DEF Checked
  <2>9. CASE EnumFailed
    BY <2>9, EnumFailedStep DEF Inv, Typed, Gone
  <2>10. CASE LibTake \/ UsbhTake \/ SendGone \/ SendNew \/ HubTake \/ PortLost \/ NoEvent \/ Connection \/
              Debounced \/ (ResetPort \/ ResetDone) \/ Recover \/ EnumCleanup \/ EnumNothing
    <3>1. UNCHANGED <<pipes>>
      BY <2>10 DEF LibTake, UsbhTake, SendGone, SendNew, HubTake, PortLost, NoEvent, Connection, Debounced, ResetPort,
         ResetDone, Recover, EnumCleanup, EnumNothing
    <3> QED BY <3>1 DEF Inv, Typed, PipesTyped
  <2> QED BY <1>1, <2>1, <2>2, <2>3, <2>4, <2>5, <2>6, <2>7, <2>8, <2>9, <2>10 DEF Lib, LibGoesOn
<1>2. CASE Bus
  <2>0. UNCHANGED linkVars
    BY <1>2 DEF Bus
  <2>1. CASE Stalls \/ (\E p \in Pipes : Completes(p) \/ Fails(p))
    <3>1. PICK p \in Pipes : Answered(p)
      BY <2>1, AnswerStep DEF Inv, Typed
    <3>2. CASE p = "ep0"
      BY <3>1, <3>2 DEF Answered
    <3>3. CASE p \in Endpoints
      BY <3>1, <3>3 DEF Answered
    <3> QED BY <3>2, <3>3 DEF Pipes, Endpoints
  <2>2. CASE Plug \/ (Unplug /\ NotBeforePoll) \/ ConnectionInterrupt \/ SecondEvent
    <3>1. UNCHANGED <<pipes>>
      BY <2>2 DEF Plug, Unplug, ConnectionInterrupt, SecondEvent
    <3> QED BY <3>1 DEF Inv, Typed, PipesTyped
  <2> QED BY <1>2, <2>1, <2>2 DEF Bus, Interrupt
<1>3. CASE Client
  <2>1. CASE \E p \in Endpoints : TakesEndpoint(p)
    <3>1. PICK p \in Endpoints : TakesEndpoint(p)
      BY <2>1
    <3>2. Taken(p)
      BY <3>1, TakesStep DEF Inv, Typed
    <3> QED BY <3>2 DEF Taken
  <2>2. CASE InCallback \/ OutCallback
    <3>1. PICK p \in Endpoints : CalledFor(p)
      BY <2>2, CallbackRuns DEF Inv, Typed
    <3> QED BY <3>1 DEF CalledFor
  <2>3. CASE ClientCancels
    <3>1. Cancelled("in")
      BY <2>3, CancelsStep DEF Inv, Typed
    <3> QED BY <2>3, <3>1 DEF Cancelled
  <2>4. CASE ClientReleases
    BY <2>4, ReleaseStep DEF Inv, Typed, ClientReleases
  <2>5. CASE ControlCallback \/ Message \/ ClientClaims \/ ClientRemoves
    <3>1. UNCHANGED <<pipes>>
      BY <2>5 DEF ControlCallback, Message, ClientClaims, ClientRemoves
    <3> QED BY <3>1 DEF Inv, Typed, PipesTyped
  <2> QED BY <1>3, <2>1, <2>2, <2>3, <2>4, <2>5 DEF Client
<1>4. CASE Engine \/ WriteTimeout \/ User
  <2>1. CASE EngineCancels
    <3>1. Cancelled("in")
      BY <2>1, CancelsStep DEF Inv, Typed
    <3> QED BY <2>1, <3>1 DEF Cancelled
  <2>2. CASE EngineReleases
    BY <2>2, ReleaseStep DEF Inv, Typed, EngineReleases
  <2>3. CASE Claim
    <3>1. CASE Enabled
      BY <2>3, <3>1, ClaimStep DEF Inv, Typed
    <3>2. CASE ~Enabled
      BY <2>3, <3>2, RemovesStep DEF Inv, Typed, PipesTyped, Claim
    <3> QED BY <3>1, <3>2
  <2>4. CASE FirstPoll
    <3>1. Submitted("in")
      BY <2>4, SubmitsStep DEF Inv, Typed
    <3> QED BY <2>4, <3>1 DEF Submitted
  <2>5. CASE RequestSetup
    BY <2>5, RequestSetupStep DEF Inv, Typed, PipesTyped, Submitted
  <2>6. CASE Write
    <3>1. Submitted("out")
      BY <2>6, SubmitsStep DEF Inv, Typed
    <3> QED BY <2>6, <3>1 DEF Submitted
  <2>7. CASE WriteTimeout
    <3>1. Cancelled("out")
      BY <2>7, CancelsStep DEF Inv, Typed
    <3> QED BY <2>7, <3>1 DEF Cancelled
  <2>8. CASE EngineCloses \/ EngineRemoves \/ EngineClosed \/ NoticeGone \/ AutoConnect \/ OpenFailed \/
              Found \/ NotFound \/ Assign \/ SetupAnswered \/ Opened \/ WriteDone \/ Connect \/ Disconnect
    <3>1. UNCHANGED <<pipes>>
      BY <2>8 DEF EngineCloses, EngineRemoves, EngineClosed, NoticeGone, AutoConnect, OpenFailed, Found, NotFound,
         Assign, SetupAnswered, Opened, WriteDone, Connect, Disconnect, hostVars
    <3> QED BY <3>1 DEF Inv, Typed, PipesTyped
  <2> QED BY <1>4, <2>1, <2>2, <2>3, <2>4, <2>5, <2>6, <2>7, <2>8 DEF Engine, User
<1> QED BY <1>1, <1>2, <1>3, <1>4 DEF Next

LEMMA LinkTypeKept ==
    ASSUME Inv, ~Races, Next
    PROVE  LinkTyped'
<1>1. CASE Lib
  <2>1. UNCHANGED <<cdc, handle, devGone, ioMtx, gState, userDisconnected>>
    BY <1>1 DEF Lib, linkVars
  <2> QED BY <2>1 DEF Inv, Typed, LinkTyped
<1>2. CASE Bus
  <2>1. UNCHANGED <<cdc, handle, devGone, ioMtx, gState, userDisconnected>>
    BY <1>2 DEF Bus, linkVars
  <2> QED BY <2>1 DEF Inv, Typed, LinkTyped
<1>3. CASE Client
  <2>1. CASE Message
    BY <2>1 DEF Inv, Typed, Message, LinkTyped
  <2>2. CASE ClientClaims
    BY <2>2 DEF Inv, Typed, ClientClaims, TakesHandle, ClaimsHandle, LinkTyped
  <2>3. CASE ClientCancels
    BY <2>3 DEF Inv, Typed, ClientCancels, CancelsPoll, LinkTyped
  <2>4. CASE ClientRemoves
    BY <2>4 DEF Inv, Typed, ClientRemoves, RemovesDevice, Stale, LinkTyped
  <2>5. CASE (\E p \in Endpoints : TakesEndpoint(p)) \/ (InCallback \/ OutCallback) \/ ControlCallback \/
              ClientReleases
    <3>1. UNCHANGED <<cdc, handle, devGone, ioMtx, gState, userDisconnected>>
      BY <2>5 DEF TakesEndpoint, InCallback, OutCallback, ControlCallback, ClientReleases
    <3> QED BY <3>1 DEF Inv, Typed, LinkTyped
  <2> QED BY <1>3, <2>1, <2>2, <2>3, <2>4, <2>5 DEF Client
<1>4. CASE Engine \/ WriteTimeout \/ User
  <2>1. CASE EngineCloses
    BY <2>1 DEF Inv, Typed, EngineCloses, TakesHandle, ClaimsHandle, LinkTyped
  <2>2. CASE EngineCancels
    BY <2>2 DEF Inv, Typed, EngineCancels, CancelsPoll, LinkTyped
  <2>3. CASE EngineRemoves
    BY <2>3 DEF Inv, Typed, EngineRemoves, Settled, RemovesDevice, Stale, LinkTyped
  <2>4. CASE EngineClosed
    BY <2>4 DEF Inv, Typed, EngineClosed, LinkTyped
  <2>5. CASE AutoConnect
    BY <2>5 DEF Inv, Typed, AutoConnect, StartsOpen, LinkTyped
  <2>6. CASE OpenFailed
    BY <2>6 DEF Inv, Typed, OpenFailed, LinkTyped
  <2>7. CASE Claim
    BY <2>7 DEF Inv, Typed, Claim, RemovesDevice, LinkTyped
  <2>8. CASE FirstPoll
    BY <2>8 DEF Inv, Typed, FirstPoll, LinkTyped
  <2>9. CASE Assign
    BY <2>9 DEF Inv, Typed, Assign, LinkTyped
  <2>10. CASE Opened
    BY <2>10 DEF Inv, Typed, Opened, LinkTyped
  <2>11. CASE Write
    BY <2>11 DEF Inv, Typed, Write, LinkTyped
  <2>12. CASE WriteDone
    BY <2>12 DEF Inv, Typed, WriteDone, WriteEnds, LinkTyped
  <2>13. CASE WriteTimeout
    BY <2>13 DEF Inv, Typed, WriteTimeout, WriteEnds, LinkTyped
  <2>14. CASE Connect
    BY <2>14 DEF Inv, Typed, Connect, StartsOpen, LinkTyped
  <2>15. CASE Disconnect
    BY <2>15 DEF Inv, Typed, Disconnect, LinkTyped
  <2>16. CASE EngineReleases \/ NoticeGone \/ Found \/ NotFound \/ RequestSetup \/ SetupAnswered
    <3>1. UNCHANGED <<cdc, handle, devGone, ioMtx, gState, userDisconnected>>
      BY <2>16 DEF EngineReleases, NoticeGone, Found, NotFound, RequestSetup, SetupAnswered, linkVarsButEngine
    <3> QED BY <3>1 DEF Inv, Typed, LinkTyped
  <2> QED BY <1>4, <2>1, <2>2, <2>3, <2>4, <2>5, <2>6, <2>7, <2>8, <2>9, <2>10, <2>11, <2>12, <2>13, <2>14, <2>15,
     <2>16 DEF Engine, User
<1> QED BY <1>1, <1>2, <1>3, <1>4 DEF Next

LEMMA TaskTypeKept ==
    ASSUME Inv, ~Races, Next
    PROVE  TasksTyped'
<1>1. CASE Lib
  <2>1. UNCHANGED <<client, engine, semaphore>>
    BY <1>1 DEF Lib, linkVars
  <2> QED BY <2>1 DEF Inv, Typed, TasksTyped
<1>2. CASE Bus
  <2>1. UNCHANGED <<client, engine, semaphore>>
    BY <1>2 DEF Bus, linkVars
  <2> QED BY <2>1 DEF Inv, Typed, TasksTyped
<1>3. CASE Client
  <2>1. CASE \E p \in Endpoints : TakesEndpoint(p)
    <3>1. (\E p \in Endpoints : client' = [at |-> "callback", ep |-> p]) /\ UNCHANGED <<engine, semaphore>>
      BY <2>1 DEF TakesEndpoint
    <3> QED BY <3>1 DEF Inv, Typed, TasksTyped, ClientObject
  <2>2. CASE InCallback \/ OutCallback
    <3>1. client' = [at |-> "wait", ep |-> "none"] /\ engine' = engine
          /\ (semaphore' = semaphore \/ semaphore' = [semaphore EXCEPT !.out = TRUE])
      BY <2>2 DEF InCallback, OutCallback
    <3> QED BY <3>1 DEF Inv, Typed, TasksTyped, ClientObject
  <2>3. CASE ControlCallback
    BY <2>3 DEF Inv, Typed, ControlCallback, TasksTyped
  <2>4. CASE Message
    BY <2>4 DEF Inv, Typed, Message, TasksTyped, ClientObject
  <2>5. CASE ClientClaims
    BY <2>5 DEF Inv, Typed, ClientClaims, TasksTyped, ClientObject
  <2>6. CASE ClientCancels
    BY <2>6 DEF Inv, Typed, ClientCancels, TasksTyped, ClientObject
  <2>7. CASE ClientReleases
    BY <2>7 DEF Inv, Typed, ClientReleases, TasksTyped, ClientObject
  <2>8. CASE ClientRemoves
    BY <2>8 DEF Inv, Typed, ClientRemoves, Stale, TasksTyped, ClientObject, EngineObject
  <2> QED BY <1>3, <2>1, <2>2, <2>3, <2>4, <2>5, <2>6, <2>7, <2>8 DEF Client
<1>4. CASE Engine \/ WriteTimeout \/ User
  <2>1. CASE EngineCloses
    BY <2>1 DEF Inv, Typed, EngineCloses, Step, TasksTyped, EngineObject
  <2>2. CASE EngineCancels
    BY <2>2 DEF Inv, Typed, EngineCancels, Step, TasksTyped, EngineObject
  <2>3. CASE EngineReleases
    BY <2>3 DEF Inv, Typed, EngineReleases, Step, TasksTyped, EngineObject
  <2>4. CASE EngineRemoves
    BY <2>4 DEF Inv, Typed, EngineRemoves, Settled, RemovesDevice, ClosedDevice, LastClosed, SetActions, Notify,
       CloseFails, Panic, Stale, Step, TasksTyped, EngineObject
  <2>5. CASE EngineClosed
    BY <2>5 DEF Inv, Typed, EngineClosed, Step, TasksTyped, EngineObject
  <2>6. CASE NoticeGone
    BY <2>6 DEF Inv, Typed, NoticeGone, Step, TasksTyped, EngineObject
  <2>7. CASE AutoConnect
    BY <2>7 DEF Inv, Typed, AutoConnect, StartsOpen, Step, TasksTyped, EngineObject
  <2>8. CASE OpenFailed
    BY <2>8 DEF Inv, Typed, OpenFailed, Step, TasksTyped, EngineObject
  <2>9. CASE Found
    BY <2>9 DEF Inv, Typed, Found, Step, TasksTyped, EngineObject, linkVarsButEngine
  <2>10. CASE NotFound
    BY <2>10 DEF Inv, Typed, NotFound, Step, TasksTyped, EngineObject, linkVarsButEngine
  <2>11. CASE Claim
    <3>1. (engine' = [engine EXCEPT !.at = "submit"] \/ engine' = [engine EXCEPT !.at = "failed"])
          /\ UNCHANGED <<client, semaphore>>
      BY <2>11 DEF Claim, Step
    <3> QED BY <3>1 DEF Inv, Typed, TasksTyped, EngineObject
  <2>12. CASE FirstPoll
    BY <2>12 DEF Inv, Typed, FirstPoll, Step, TasksTyped, EngineObject
  <2>13. CASE Assign
    <3>1. engine' = [at |-> "setup", handle |-> "none", left |-> SETUPS, failed |-> FALSE]
          /\ UNCHANGED <<client, semaphore>>
      BY <2>13 DEF Assign
    <3> QED BY <3>1 DEF Inv, Typed, TasksTyped, EngineObject, SETUPS
  <2>14. CASE RequestSetup
    BY <2>14, RequestSetupStep
  <2>15. CASE SetupAnswered
    <3>1. engine' = [at |-> "setup", handle |-> "none", left |-> engine.left - 1,
                     failed |-> engine.failed \/ semaphore.ctrl = "failed"]
          /\ semaphore' = [semaphore EXCEPT !.ctrl = "none"] /\ client' = client
      BY <2>15 DEF SetupAnswered
    <3>2. engine.left \in 0..SETUPS /\ engine.left > 0
      BY <2>15 DEF Inv, Typed, TasksTyped, EngineObject, SetupAnswered, HandleInv
    <3>3. engine.left - 1 \in 0..SETUPS
      BY <3>2 DEF SETUPS
    <3>4. engine' \in EngineObject
      BY <3>1, <3>3 DEF EngineObject
    <3> QED BY <3>1, <3>4 DEF Inv, Typed, TasksTyped
  <2>16. CASE Opened
    BY <2>16 DEF Inv, Typed, Opened, Step, TasksTyped, EngineObject
  <2>17. CASE Write
    <3>1. engine' = [engine EXCEPT !.at = "writing", !.handle = handle] /\ client' = client
          /\ semaphore' = [semaphore EXCEPT !.out = FALSE]
      BY <2>17 DEF Write
    <3> QED BY <3>1 DEF Inv, Typed, TasksTyped, EngineObject, LinkTyped
  <2>18. CASE WriteDone
    BY <2>18 DEF Inv, Typed, WriteDone, WriteEnds, TasksTyped, EngineObject
  <2>19. CASE WriteTimeout
    BY <2>19 DEF Inv, Typed, WriteTimeout, WriteEnds, TasksTyped, EngineObject
  <2>20. CASE Connect
    BY <2>20 DEF Inv, Typed, Connect, StartsOpen, Step, TasksTyped, EngineObject
  <2>21. CASE Disconnect
    BY <2>21 DEF Inv, Typed, Disconnect, Step, TasksTyped, EngineObject
  <2> QED BY <1>4, <2>1, <2>2, <2>3, <2>4, <2>5, <2>6, <2>7, <2>8, <2>9, <2>10, <2>11, <2>12, <2>13, <2>14, <2>15,
     <2>16, <2>17, <2>18, <2>19, <2>20, <2>21 DEF Engine, User
<1> QED BY <1>1, <1>2, <1>3, <1>4 DEF Next

LEMMA DevTypeKept ==
    ASSUME Inv, ~Races, Next
    PROVE  DevTyped'
<1>1. CASE Lib
  <2>0. LibTurn /\ ClientCaughtUp /\ UNCHANGED linkVars
    BY <1>1 DEF Lib
  <2>1. CASE UsbhTake
    BY <2>1, UsbhTakeStep DEF Inv, Typed, DevTyped
  <2>2. CASE DefaultPipe
    BY <2>2, DefaultPipeStep
  <2>3. CASE Free
    BY <2>3, FreeStep DEF Inv, Typed, Gone
  <2>4. CASE PortLost
    BY <2>4, PortLostStep DEF Inv, Typed
  <2>5. CASE EnumStart
    BY <2>5, EnumStartStep DEF Inv, Typed, DevTyped
  <2>6. CASE EnumCleanup
    BY <2>6, EnumCleanupStep
  <2>7. CASE EnumFailed
    BY <2>7, EnumFailedStep DEF Inv, Typed, Gone
  <2>8. CASE LibTake \/ HaltAndFlush \/ SendGone \/ SendNew \/ HubTake \/ NoEvent \/ Connection \/ Debounced \/
              (ResetPort \/ ResetDone) \/ Recover \/ EnumTransfer("get", "check", "cleanup failed") \/
              EnumCheck("check", "get string", "cleanup failed") \/
              EnumTransfer("get string", "check string", "cleanup") \/
              EnumCheck("check string", "cleanup", "cleanup") \/ EnumNothing
    <3>1. UNCHANGED <<dev>>
      BY <2>8 DEF LibTake, HaltAndFlush, SendGone, SendNew, HubTake, NoEvent, Connection, Debounced, ResetPort,
         ResetDone, Recover, EnumTransfer, EnumCheck, EnumNothing
    <3> QED BY <3>1 DEF Inv, Typed, DevTyped
  <2> QED BY <1>1, <2>1, <2>2, <2>3, <2>4, <2>5, <2>6, <2>7, <2>8 DEF Lib, LibGoesOn
<1>2. CASE Bus
  <2>0. UNCHANGED linkVars
    BY <1>2 DEF Bus
  <2>1. CASE Stalls \/ (\E p \in Pipes : Completes(p) \/ Fails(p))
    <3>1. PICK p \in Pipes : Answered(p)
      BY <2>1, AnswerStep DEF Inv, Typed
    <3>2. CASE p = "ep0"
      BY <3>1, <3>2 DEF Answered
    <3>3. CASE p \in Endpoints
      BY <3>1, <3>3 DEF Answered
    <3> QED BY <3>2, <3>3 DEF Pipes, Endpoints
  <2>2. CASE Plug \/ (Unplug /\ NotBeforePoll) \/ ConnectionInterrupt \/ SecondEvent
    <3>1. UNCHANGED <<dev>>
      BY <2>2 DEF Plug, Unplug, ConnectionInterrupt, SecondEvent
    <3> QED BY <3>1 DEF Inv, Typed, DevTyped
  <2> QED BY <1>2, <2>1, <2>2 DEF Bus, Interrupt
<1>3. CASE Client
  <2>1. CASE ClientRemoves
    <3>1. Removed
      BY <2>1, RemovesStep
    <3> QED BY <2>1, <3>1 DEF Removed
  <2>2. CASE (\E p \in Endpoints : TakesEndpoint(p)) \/ (InCallback \/ OutCallback) \/ ControlCallback \/
              Message \/ ClientClaims \/ ClientCancels \/ ClientReleases
    <3>1. UNCHANGED <<dev>>
      BY <2>2 DEF TakesEndpoint, InCallback, OutCallback, ControlCallback, Message, ClientClaims, ClientCancels,
         ClientReleases
    <3> QED BY <3>1 DEF Inv, Typed, DevTyped
  <2> QED BY <1>3, <2>1, <2>2 DEF Client
<1>4. CASE Engine \/ WriteTimeout \/ User
  <2>1. CASE EngineRemoves
    <3>1. Removed
      BY <2>1, RemovesStep
    <3> QED BY <2>1, <3>1 DEF Removed
  <2>2. CASE Found
    <3>1. cdc = "none" /\ dev.ref = 0
      BY <2>2 DEF Inv, Found, RefInv
    <3> QED BY <2>2, <3>1 DEF Inv, Typed, Found, DevTyped, DevObject
  <2>3. CASE Claim
    <3>1. CASE Enabled
      BY <2>3, <3>1, ClaimStep DEF Inv, Typed, DevTyped
    <3>2. CASE ~Enabled
      BY <2>3, <3>2, RemovesStep DEF Removed
    <3> QED BY <3>1, <3>2
  <2>4. CASE RequestSetup
    BY <2>4, RequestSetupStep DEF Inv, Typed, DevTyped
  <2>5. CASE EngineCloses \/ EngineCancels \/ EngineReleases \/ EngineClosed \/ NoticeGone \/ AutoConnect \/
              OpenFailed \/ NotFound \/ FirstPoll \/ Assign \/ SetupAnswered \/ Opened \/ Write \/ WriteDone \/
              WriteTimeout \/ Connect \/ Disconnect
    <3>1. UNCHANGED <<dev>>
      BY <2>5 DEF EngineCloses, EngineCancels, EngineReleases, EngineClosed, NoticeGone, AutoConnect, OpenFailed,
         NotFound, FirstPoll, Assign, SetupAnswered, Opened, Write, WriteDone, WriteTimeout, Connect, Disconnect,
         hostVars
    <3> QED BY <3>1 DEF Inv, Typed, DevTyped
  <2> QED BY <1>4, <2>1, <2>2, <2>3, <2>4, <2>5 DEF Engine, User
<1> QED BY <1>1, <1>2, <1>3, <1>4 DEF Next

-----------------------------------------------------------------------------
(* Nothing stops the board *)

\* No step stops the board.
LEMMA NothingStops ==
    ASSUME Inv, NoPanic, ~Races, Next
    PROVE  NoPanic'
<1>1. CASE Lib
  <2>0. LibTurn /\ ClientCaughtUp /\ UNCHANGED linkVars
    BY <1>1 DEF Lib
  <2>1. CASE Free
    <3>1. "free" \in LibFlags /\ dev.listed
      BY <2>1, FreeStep DEF Inv, Typed, LibFlags, LibInv
    <3>2. dev.ref = 0
      BY <3>1 DEF Inv, ActInv, FlagsOf
    <3>3. engine.at # "waiting"
      BY <3>2 DEF Inv, RefInv, HandleInv
    <3>4. pipes["ep0"].urb = "idle"
      BY <3>1, <3>3 DEF Inv, WaitInv
    <3> QED BY <2>1, <3>4, FreeStep DEF Inv, Typed, NoPanic
  <2>2. CASE Recover
    <3>1. hub.state = "recovery" /\ port.event = "none" /\ ~dev.there
      BY <2>2 DEF Inv, Recover, RecoverInv, EventInv, InLib, InHub
    <3>2. port.state = "recovery"
      BY <3>1 DEF Inv, Typed, PortTyped, PortObject, PortInv
    <3>3. pipes["ep0"].state = "none" /\ dev.ref # 1
      BY <3>1 DEF Inv, DevInv, RefInv
    <3>4. cdc = "none"
      BY <3>3 DEF Inv, RefInv
    <3>5. \A p \in Endpoints : pipes[p].state = "none"
      BY <3>4 DEF Inv, InterfaceInv, Off
    <3>6. Recoverable
      BY <3>1, <3>2, <3>3, <3>5 DEF Recoverable, Pipes, Endpoints
    <3> QED BY <2>2, <3>6 DEF Recover, NoPanic
  <2>3. CASE EnumCheck("check", "get string", "cleanup failed")
    <3>1. Checked("check", "get string", "cleanup failed")
      BY <2>3, EnumCheckStep DEF Inv, Typed
    <3>2. hub.stage = "check" /\ InLib("enum")
      BY <3>1 DEF Checked, Staged, InLib, InHub
    <3>3. pipes["ep0"].urb \in Finished
      BY <3>2 DEF Inv, EnumInv
    <3> QED BY <3>1, <3>3 DEF Checked, NoPanic
  <2>4. CASE EnumCheck("check string", "cleanup", "cleanup")
    <3>1. Checked("check string", "cleanup", "cleanup")
      BY <2>4, EnumCheckStep DEF Inv, Typed
    <3>2. hub.stage = "check string" /\ InLib("enum")
      BY <3>1 DEF Checked, Staged, InLib, InHub
    <3>3. pipes["ep0"].urb \in Finished
      BY <3>2 DEF Inv, EnumInv
    <3> QED BY <3>1, <3>3 DEF Checked, NoPanic
  <2>5. CASE LibTake \/ UsbhTake \/ HaltAndFlush \/ DefaultPipe \/ SendGone \/ SendNew \/ HubTake \/ PortLost \/
              NoEvent \/ Connection \/ Debounced \/ (ResetPort \/ ResetDone) \/ EnumStart \/
              EnumTransfer("get", "check", "cleanup failed") \/
              EnumTransfer("get string", "check string", "cleanup") \/ EnumCleanup \/ EnumFailed \/ EnumNothing
    <3>1. UNCHANGED <<panic>>
      BY <2>5 DEF LibTake, UsbhTake, HaltAndFlush, DefaultPipe, SendGone, SendNew, HubTake, PortLost, NoEvent,
         Connection, Debounced, ResetPort, ResetDone, EnumStart, EnumTransfer, EnumCleanup, EnumFailed, EnumNothing
    <3> QED BY <3>1 DEF NoPanic
  <2> QED BY <1>1, <2>1, <2>2, <2>3, <2>4, <2>5 DEF Lib, LibGoesOn
<1>2. CASE Bus
  <2>1. UNCHANGED <<panic>>
    BY <1>2 DEF Bus, Interrupt, linkVars, Plug, Unplug, ConnectionInterrupt, SecondEvent, Stalls, Completes, Fails
  <2> QED BY <2>1 DEF NoPanic
<1>3. CASE Client
  <2>1. CASE \E p \in Endpoints : TakesEndpoint(p)
    <3>1. PICK p \in Endpoints : Taken(p)
      BY <2>1, TakesStep DEF Inv, Typed
    <3>2. pipes[p].error => pipes[p].state = "halted"
      BY DEF Inv, PipeInv, PipeAt
    <3> QED BY <3>1, <3>2 DEF Taken, NoPanic
  <2>2. CASE ClientReleases
    <3>1. Endable
      BY <2>2 DEF Inv, ClientReleases, Endable, Busy, ClosedInv, Closing
    <3> QED BY <2>2, <3>1 DEF ClientReleases, ReleasesInterface, NoPanic
  <2>3. CASE ClientRemoves
    <3>1. panic' = panic
      BY <2>3, RemovesStep DEF Removed
    <3> QED BY <3>1 DEF NoPanic
  <2>4. CASE (InCallback \/ OutCallback) \/ ControlCallback \/ Message \/ ClientClaims \/ ClientCancels
    <3>1. UNCHANGED <<panic>>
      BY <2>4 DEF InCallback, OutCallback, ControlCallback, Message, ClientClaims, ClientCancels
    <3> QED BY <3>1 DEF NoPanic
  <2> QED BY <1>3, <2>1, <2>2, <2>3, <2>4 DEF Client
<1>4. CASE Engine \/ WriteTimeout \/ User
  <2>1. CASE EngineReleases
    BY <2>1 DEF EngineReleases, CallbackFirst, ReleasesInterface, NoPanic
  <2>2. CASE EngineRemoves
    <3>1. panic' = panic
      BY <2>2, RemovesStep DEF Removed
    <3> QED BY <3>1 DEF NoPanic
  <2>3. CASE Claim
    <3>1. CASE Enabled
      BY <2>3, <3>1 DEF Claim, NoPanic
    <3>2. CASE ~Enabled
      BY <2>3, <3>2, RemovesStep DEF Removed, NoPanic
    <3> QED BY <3>1, <3>2
  <2>4. CASE FirstPoll
    <3>1. Accepts("in")
      BY <2>4 DEF Inv, FirstPoll, SubmitInv, Accepts
    <3> QED BY <2>4, <3>1 DEF FirstPoll, NoPanic
  <2>5. CASE RequestSetup
    BY <2>5, RequestSetupStep DEF NoPanic
  <2>6. CASE SetupAnswered
    <3>1. panic' = panic
      BY <2>6 DEF Inv, SetupAnswered, HandleInv
    <3> QED BY <3>1 DEF NoPanic
  <2>7. CASE Write
    <3>1. panic' = panic
      BY <2>7 DEF Inv, Write, HandleInv
    <3> QED BY <3>1 DEF NoPanic
  <2>8. CASE WriteDone
    <3>1. panic' = panic
      BY <2>8 DEF Inv, WriteDone, WriteEnds, HandleInv
    <3> QED BY <3>1 DEF NoPanic
  <2>9. CASE WriteTimeout
    <3>1. panic' = panic
      BY <2>9 DEF Inv, WriteTimeout, WriteEnds, HandleInv
    <3> QED BY <3>1 DEF NoPanic
  <2>10. CASE EngineCloses \/ EngineCancels \/ EngineClosed \/ NoticeGone \/ AutoConnect \/ OpenFailed \/
              Found \/ NotFound \/ Assign \/ Opened \/ Connect \/ Disconnect
    <3>1. UNCHANGED <<panic>>
      BY <2>10 DEF EngineCloses, EngineCancels, EngineClosed, NoticeGone, AutoConnect, OpenFailed, Found, NotFound,
         Assign, Opened, Connect, Disconnect, hostVars
    <3> QED BY <3>1 DEF NoPanic
  <2> QED BY <1>4, <2>1, <2>2, <2>3, <2>4, <2>5, <2>6, <2>7, <2>8, <2>9, <2>10 DEF Engine, User
<1> QED BY <1>1, <1>2, <1>3, <1>4 DEF Next

-----------------------------------------------------------------------------
(* The theorems *)

LEMMA InvAtStart ==
    ASSUME Init
    PROVE  Inv
<1> USE DEF Init, HostInit, NoPipe, NoDev, Pipes, Endpoints
<1>1. CountTyped /\ LinkTyped /\ MsgTyped
  <2>1. 0 \in 0..MaxPlugs /\ 0 \in 0..MaxFaults /\ 0 \in 0..MaxRequests
    BY UsbHostAssumption, UsbLinkAssumption
  <2>2. CountTyped
    BY <2>1 DEF CountTyped
  <2>3. LinkTyped /\ MsgTyped
    BY DEF LinkTyped, MsgTyped
  <2> QED BY <2>2, <2>3
<1>2. PortTyped /\ PipesTyped /\ HubTyped /\ DevTyped /\ LibTyped
  BY DEF PortTyped, PortObject, PipesTyped, PipeObject, HubTyped, HubObject, DevTyped, DevObject, LibTyped, LibObject
<1>3. TasksTyped
  BY DEF TasksTyped, ClientObject, EngineObject, SETUPS
<1>4. LibInv /\ PortInv /\ ResetInv /\ EventInv /\ StageInv /\ RecoverInv /\ EnumInv
  BY DEF LibInv, PortInv, ResetInv, EventInv, StageInv, RecoverInv, EnumInv, InLib
<1>5. DevInv /\ ActInv /\ GoneInv /\ GoneOnce
  BY DEF DevInv, IdleDev, ActInv, FlagsOf, GoneInv, LibFlags, GoneOnce
<1>6. \A p \in Pipes : Off(p)
  BY DEF Off
<1>7. QuietInv /\ ClosedInv /\ ClientInv /\ SubmitInv
  BY DEF QuietInv, ClosedInv, ClientInv, SubmitInv
<1>8. PipeInv /\ InterfaceInv
  BY <1>6 DEF PipeInv, PipeAt, InterfaceInv
<1>9. HandleInv /\ MutexInv /\ CdcInv /\ RefInv /\ WaitInv
  BY DEF HandleInv, MutexInv, CdcInv, RefInv, WaitInv, EngineCloser, ClientCloser
<1> QED BY <1>1, <1>2, <1>3, <1>4, <1>5, <1>7, <1>8, <1>9 DEF Inv, Typed

LEMMA InvKept ==
    ASSUME Inv, ~Races, [Next]_vars
    PROVE  Inv'
<1>1. CASE Next
  <2>1. Typed'
    BY <1>1, CountKept, PortTypeKept, PipeTypeKept, HubTypeKept, DevTypeKept, LibTypeKept, MsgTypeKept, LinkTypeKept,
       TaskTypeKept DEF Typed
  <2> QED
    BY <1>1, <2>1, LibKept, PortKept, EventKept, StageKept, RecoverKept, DevKept, EnumKept, ActKept, GoneKept,
       OnceKept, QuietKept, ClosedKept, PipeKept, ClientKept, InterfaceKept, SubmitKept, HandleKept, MutexKept,
       CdcKept, RefKept, WaitKept DEF Inv
<1>2. CASE UNCHANGED vars
  <2>1. Typed'
    BY <1>2 DEF Inv, vars, hostVars, linkVars, Typed, CountTyped, PortTyped, PipesTyped, HubTyped, DevTyped, LibTyped,
       MsgTyped, LinkTyped, TasksTyped
  <2>2. (LibInv /\ PortInv /\ ResetInv /\ EventInv)'
    BY <1>2 DEF Inv, vars, hostVars, LibInv, PortInv, ResetInv, EventInv, InHub
  <2>6. (StageInv /\ RecoverInv)'
    BY <1>2 DEF Inv, vars, hostVars, StageInv, RecoverInv, InHub, InLib
  <2>7. DevInv'
    BY <1>2 DEF Inv, vars, hostVars, DevInv, IdleDev
  <2>8. EnumInv'
    BY <1>2 DEF Inv, vars, hostVars, EnumInv, InHub, InLib
  <2>3. (ActInv /\ GoneInv /\ GoneOnce /\ QuietInv /\ ClosedInv)'
    BY <1>2 DEF Inv, vars, hostVars, linkVars, ActInv, GoneInv, GoneOnce, QuietInv, ClosedInv, FlagsOf, LibFlags,
       Leaving
  <2>4. (PipeInv /\ ClientInv /\ InterfaceInv /\ SubmitInv)'
    BY <1>2 DEF Inv, vars, hostVars, linkVars, PipeInv, PipeAt, Off, ClientInv, InterfaceInv, SubmitInv, Enabled
  <2>5. (HandleInv /\ MutexInv /\ CdcInv /\ RefInv /\ WaitInv)'
    BY <1>2 DEF Inv, vars, hostVars, linkVars, HandleInv, MutexInv, CdcInv, RefInv, WaitInv, EngineCloser,
       ClientCloser, Opening
  <2> QED BY <2>1, <2>2, <2>3, <2>4, <2>5, <2>6, <2>7, <2>8 DEF Inv
<1> QED BY <1>1, <1>2

LEMMA InvTypes == Inv => TypeOK
<1> SUFFICES ASSUME Inv PROVE TypeOK
  OBVIOUS
<1>1. msgs \in Seq({"gone"}) /\ Len(msgs) <= 1
  <2>1. CASE msgs = <<>>
    BY <2>1
  <2>2. CASE msgs = <<"gone">>
    BY <2>2
  <2> QED BY <2>1, <2>2 DEF Inv, Typed, MsgTyped
<1>2. HostTypeOK
  BY <1>1 DEF Inv, Typed, HostTypeOK, CountTyped, PortTyped, PortObject, PipesTyped, PipeObject, HubTyped, HubObject,
     HubFlags, DevTyped, DevObject, DevFlags, LibTyped, LibObject, MsgTyped
<1>3. TypeOK
  BY <1>2 DEF Inv, Typed, TypeOK, CountTyped, LinkTyped, TasksTyped, ClientObject, EngineObject
<1> QED BY <1>3

\* Everything keeps its type, as long as nothing comes into the gaps named by Races: one transfer on the default pipe,
\* one client that has the device open, one message of its end.
THEOREM TypeCorrect ==
    ASSUME ~Races
    PROVE  Spec => []TypeOK
<1>1. Init => Inv
  BY InvAtStart
<1>2. Inv /\ [Next]_vars => Inv'
  BY InvKept
<1>3. Inv => TypeOK
  BY InvTypes
<1> QED BY <1>1, <1>2, <1>3, PTL DEF Spec

\* Nothing stops the board, as long as nothing comes into the gaps named by Races, however often the printer is plugged
\* in and its transfers fail: no interface is released in use and no device closed with a request in flight, the port
\* is recovered only when it can be, the first poll is taken, no freed handle is used.
THEOREM NoPanicCorrect ==
    ASSUME ~Races
    PROVE  Spec => []NoPanic
<1>1. Init => Inv /\ NoPanic
  BY InvAtStart DEF Init, HostInit, NoPanic
<1>2. (Inv /\ NoPanic) /\ [Next]_vars => (Inv /\ NoPanic)'
  <2>1. ASSUME Inv, NoPanic, UNCHANGED vars
        PROVE  NoPanic'
    BY <2>1 DEF NoPanic, vars, hostVars
  <2> QED BY <2>1, InvKept, NothingStops
<1> QED BY <1>1, <1>2, PTL DEF Spec
=============================================================================

------------------------------- MODULE Frames -------------------------------
(***************************************************************************)
(* The frame loop of the udev backend: page flips, idle renders, the       *)
(* layout gate, slide animations, screencopy requests, connector scans and *)
(* VT switches (backend/udev.rs).  Nothing renders on a timer: an output   *)
(* that is neither waiting for a page flip nor has an idle render queued   *)
(* stays as it is, whatever happens to its contents.                       *)
(*                                                                         *)
(* Abstracted: pixels (damaged says whether an output's contents differ    *)
(* from the frame last queued for it), the individual windows behind a     *)
(* pending resize and behind a slide, and everything input related in the  *)
(* session handlers.  External: smithay's DrmCompositor, which keeps one   *)
(* frame in flight and one queued behind it, and keeps both over           *)
(* reset_state; and the kernel, which may discard the flips in flight when *)
(* the session pauses, so that their VBlanks never come.                   *)
(***************************************************************************)
EXTENDS Integers, FiniteSets, Sequences, SequencesExt

CONSTANTS
  Device, Crtc, Connector, None,
  Owner,        \* the device of each CRTC and of each connector
  Compatible,   \* the CRTCs the encoders of a connector reach, in order
  Listed,       \* the connectors of a device, as the kernel lists them
  Wakeup,       \* post_transition_wakeup after a slide: 30 in the code
  MaxDeferred,  \* bound on the length of pending_devices
  Removable,    \* the connectors whose monitor comes and goes
  Flaky,        \* the CRTCs whose frames may fail
  Discarding,   \* the CRTCs whose flip the kernel may discard on a pause
  Captured,     \* the CRTCs whose output clients capture
  Tiled,        \* the CRTCs whose layout changes
  Resizes       \* what a layout change may leave pending

ASSUME FramesAssumption ==
  /\ None \notin Connector
  /\ IsFiniteSet(Device) /\ IsFiniteSet(Crtc)
  /\ Owner \in [Crtc \union Connector -> Device]
  /\ Compatible \in [Connector -> Seq(Crtc)]
  /\ \A k \in Connector : \A i \in DOMAIN Compatible[k] : Owner[Compatible[k][i]] = Owner[k]
  /\ Listed \in [Device -> Seq(Connector)]
  /\ Wakeup \in Nat \ {0} /\ MaxDeferred \in Nat /\ Cardinality(Device) <= MaxDeferred
  /\ Removable \subseteq Connector
  /\ Flaky \subseteq Crtc /\ Discarding \subseteq Crtc /\ Captured \subseteq Crtc /\ Tiled \subseteq Crtc
  /\ Resizes \subseteq {"none", "existing", "new"}

VARIABLES
  backend,   \* UdevData and the render fields of Rwl, a record
  present,   \* the devices plugged in
  plugged    \* the connectors with a monitor behind them

vars == <<backend, present, plugged>>

\* What a layout change leaves pending on an output: nothing, an existing
\* window that still has its old size, or a new window without a buffer.
Resize == {"none", "existing", "new"}

\* The age of layout_gate_since: under 32 ms, under 100 ms, older.
Age == {"fresh", "late", "expired"}

Backend ==
  [ session : BOOLEAN,             \* is the session active
    devices : SUBSET Device,       \* the open devices
    drm : SUBSET Device,           \* those of them whose DRM device is active
    pending_devices : Seq(Device),
    conn : [Crtc -> Connector \union {None}],   \* the connector a surface drives
    flip_pending : SUBSET Crtc,
    in_flight : SUBSET Crtc,       \* smithay waits for the VBlank of a frame
    lost : SUBSET Crtc,            \* though the kernel discarded the flip
    queued : SUBSET Crtc,          \* and keeps another one behind it
    damaged : SUBSET Crtc,         \* contents that no queued frame shows
    idle : SUBSET Crtc,            \* an idle callback of schedule_render is due
    copy : SUBSET Crtc,            \* pending_screencopy_frames of the output
    failed : SUBSET Crtc,          \* the last render or queue_frame failed
    resize : [Crtc -> Resize],
    gate : Age \union {None},      \* layout_gate_since, one for all outputs
    slide : {"none", "running", "elapsed"},
    was_sliding : BOOLEAN,         \* tag_transition_was_active
    wakeup : 0..Wakeup,            \* post_transition_wakeup
    waiting : BOOLEAN ]            \* a client waits for a frame callback

TypeOK ==
  /\ backend \in Backend
  /\ Len(backend.pending_devices) <= MaxDeferred
  /\ backend.drm \subseteq backend.devices
  /\ present \in SUBSET Device /\ plugged \in SUBSET Connector

-----------------------------------------------------------------------------
(* Surfaces: one OutputSurface per CRTC that drives a connector.           *)

\* DeviceData.surfaces of all open devices.
Surfaces(s) == {c \in Crtc : s.conn[c] # None}

\* The surfaces whose DRM device is open and active.
Live(s) == {c \in Surfaces(s) : Owner[c] \in s.drm}

\* schedule_render: one idle callback for each surface of each device.
Scheduled(s) == [s EXCEPT !.idle = @ \union Surfaces(s)]

\* No surface on these CRTCs.  An idle callback outlives the surface it is
\* for, and so may find another one in its place.
Unlit(s, C) ==
  [s EXCEPT !.conn = [c \in Crtc |-> IF c \in C THEN None ELSE s.conn[c]],
            !.resize = [c \in Crtc |-> IF c \in C THEN "none" ELSE s.resize[c]],
            !.flip_pending = @ \ C, !.in_flight = @ \ C, !.lost = @ \ C, !.queued = @ \ C,
            !.damaged = @ \ C, !.copy = @ \ C, !.failed = @ \ C]

\* The CRTCs of a device.
CrtcsOf(d) == {c \in Crtc : Owner[c] = d}

-----------------------------------------------------------------------------
(* on_vblank                                                               *)

\* How long the gate holds a frame back: 32 ms for windows that only swap a
\* buffer, 100 ms for windows that have none yet.
Holding(resize) == CASE resize = "none"     -> {}
                     [] resize = "existing" -> {"fresh"}
                     [] resize = "new"      -> {"fresh", "late"}

\* layout_gate_since.get_or_insert(now)
GateAge(s) == IF s.gate = None THEN "fresh" ELSE s.gate

\* MUTANT of Held: a frame that is held back sends nothing
HeldSilently(s) == [s EXCEPT !.gate = GateAge(s)]

\* The frame is held back: only the frame callbacks are sent.
Held(s) == [s EXCEPT !.gate = GateAge(s), !.waiting = FALSE]

\* Every output shows something new: the windows that slide may be on any.
AllDamaged(s) == [s EXCEPT !.damaged = @ \union Surfaces(s)]

\* MUTANT of Advanced: the countdown schedules nothing
AdvancedOnce(s) ==
  LET left == IF s.was_sliding /\ s.slide # "running" THEN Wakeup ELSE s.wakeup
      moved == [s EXCEPT !.gate = None, !.slide = IF @ = "running" THEN @ ELSE "none",
                         !.was_sliding = s.slide = "running", !.wakeup = IF left > 0 THEN left - 1 ELSE 0]
  IN IF s.slide # "none" THEN AllDamaged(moved) ELSE moved

\* The gate is released and the slides advance.  The first frame without a
\* slide re-runs the layout and starts the wakeup countdown, which keeps
\* scheduling renders.
Advanced(s) ==
  LET left   == IF s.was_sliding /\ s.slide # "running" THEN Wakeup ELSE s.wakeup
      moved  == [s EXCEPT !.gate = None, !.slide = IF @ = "running" THEN @ ELSE "none",
                          !.was_sliding = s.slide = "running", !.wakeup = IF left > 0 THEN left - 1 ELSE 0]
      seen   == IF s.slide # "none" THEN AllDamaged(moved) ELSE moved
  IN IF left > 0 THEN Scheduled(seen) ELSE seen

\* render_frame or queue_frame returns an error: an early return.
Failed(s, c) == IF c \in Flaky THEN {[s EXCEPT !.failed = @ \union {c}]} ELSE {}

\* Pending screencopy frames are answered once the frame is composited.
Copied(s, c) == [s EXCEPT !.copy = @ \ {c}]

\* queue_frame: submitted, or kept behind the frame in flight, for good if
\* the kernel discarded that one.
Queued(s, c) ==
  [s EXCEPT !.flip_pending = @ \union {c}, !.damaged = @ \ {c}, !.in_flight = @ \union {c},
            !.queued = IF c \in s.in_flight THEN @ \union {c} ELSE @]

\* The frame callbacks, and the render that keeps a slide going.
Finished(s, c) ==
  LET told == [s EXCEPT !.failed = @ \ {c}, !.waiting = FALSE]
  IN IF s.was_sliding THEN Scheduled(told) ELSE told

\* MUTANT of Drawn: screencopy waits for a frame with something new
DrawnIfDamaged(s, c) ==
  IF c \in s.damaged
    THEN Failed(s, c) \union {Finished(Queued(Copied(s, c), c), c)}
    ELSE Failed(s, c) \union {Finished(s, c)}

\* A frame is composited; it is queued unless it shows nothing new.
Drawn(s, c) ==
  LET done == Copied(s, c)
  IN Failed(s, c)
     \union IF c \in s.damaged
              THEN Failed(done, c) \union {Finished(Queued(done, c), c)}
              ELSE {Finished(done, c)}

\* The states on_vblank may leave behind.
OnVblank(s, c) ==
  IF c \notin Live(s) THEN {s}
  ELSE IF GateAge(s) \in Holding(s.resize[c]) THEN {Held(s)}
  ELSE Drawn(Advanced(s), c)

\* on_vblank for one CRTC after the other.
Kicked(S, crtcs) ==
  LET states[i \in 0..Len(crtcs)] ==
        IF i = 0 THEN S ELSE UNION {OnVblank(s, crtcs[i]) : s \in states[i - 1]}
  IN states[Len(crtcs)]

-----------------------------------------------------------------------------
(* Connector scans and devices                                             *)

\* MUTANT of Free: the CRTCs that drive an output are not left out
FreeTaken(s, claims, k) ==
  {i \in DOMAIN Compatible[k] : \A j \in DOMAIN claims : claims[j].crtc # Compatible[k][i]}

\* Where the CRTCs are, among those a connector can use, that drive nothing
\* and that no earlier connector of the scan took.
Free(s, claims, k) ==
  {i \in DOMAIN Compatible[k] : /\ Compatible[k][i] \notin Surfaces(s)
                                /\ \A j \in DOMAIN claims : claims[j].crtc # Compatible[k][i]}

\* A connected connector takes the first of them, even if a CRTC drives it
\* already.
Claimed(s, claims, k) ==
  LET free == Free(s, claims, k)
  IN IF k \in plugged /\ free # {}
       THEN Append(claims, [conn |-> k, crtc |-> Compatible[k][Min(free)]])
       ELSE claims

\* collect_conn_infos: the connectors of a device in turn.
Claims(s, d) ==
  LET claims[i \in 0..Len(Listed[d])] ==
        IF i = 0 THEN <<>> ELSE Claimed(s, claims[i - 1], Listed[d][i])
  IN claims[Len(Listed[d])]

\* A surface and its output: output_added re-runs the layout.
SurfaceAdded(s, claim) ==
  Scheduled([s EXCEPT !.conn[claim.crtc] = claim.conn, !.damaged = @ \union {claim.crtc}])

\* setup_connector_output: the surface may be refused, and is on an
\* inactive device.
Connected(s, claim) ==
  {s} \union IF Owner[claim.crtc] \in s.drm THEN OnVblank(SurfaceAdded(s, claim), claim.crtc) ELSE {}

\* scan_connectors, which does nothing for a device that is not open.
Scanned(s, d) ==
  LET claims == Claims(s, d)
      states[i \in 0..Len(claims)] ==
        IF i = 0 THEN {s} ELSE UNION {Connected(t, claims[i]) : t \in states[i - 1]}
  IN IF d \in s.devices THEN states[Len(claims)] ELSE {s}

\* backend_device_added with an active session: the new DeviceData replaces
\* any other of the device before its connectors are scanned.
Inserted(s, d) == [Unlit(s, CrtcsOf(d)) EXCEPT !.devices = @ \union {d}, !.drm = @ \union {d}]

Opened(s, d) == Scanned(Inserted(s, d), d)

\* reset_state and reset_buffers on each surface of a device.
Reset(s, d) ==
  [s EXCEPT !.flip_pending = @ \ CrtcsOf(d), !.damaged = @ \union (Surfaces(s) \intersect CrtcsOf(d))]

\* MUTANT of Reactivated: the outputs there already are not rendered
ReactivatedDark(s, d) ==
  IF d \in s.drm THEN {s} ELSE {s} \union Scanned([Reset(s, d) EXCEPT !.drm = @ \union {d}], d)

\* A paused device is re-activated, reset, scanned and all its outputs are
\* rendered; or it cannot be re-activated.
Reactivated(s, d) ==
  IF d \in s.drm THEN {s}
  ELSE {s} \union UNION
    { UNION {Kicked({t}, crtcs) : crtcs \in SetToSeqs(Surfaces(t) \intersect CrtcsOf(d))} :
        t \in Scanned([Reset(s, d) EXCEPT !.drm = @ \union {d}], d) }

\* The open devices, one after the other.
Woken(s, ids) ==
  LET states[i \in 0..Len(ids)] ==
        IF i = 0 THEN {s} ELSE UNION {Reactivated(t, ids[i]) : t \in states[i - 1]}
  IN states[Len(ids)]

\* A deferred device.  Whatever cannot be opened now is forgotten.
Retried(s, d) ==
  {s} \union IF s.session /\ d \in present THEN Opened(s, d) \union {Inserted(s, d)} ELSE {}

\* open_pending_devices: the open devices, then the deferred ones.
Resumed(s) ==
  LET woken == UNION {Woken(s, ids) : ids \in SetToSeqs(s.devices)}
      states[i \in 0..Len(s.pending_devices)] ==
        IF i = 0 THEN {[t EXCEPT !.pending_devices = <<>>] : t \in woken}
        ELSE UNION {Retried(t, s.pending_devices[i]) : t \in states[i - 1]}
  IN states[Len(s.pending_devices)]

-----------------------------------------------------------------------------
(* Events                                                                  *)

Init ==
  /\ present = Device
  /\ plugged \in {(Connector \ Removable) \union K : K \in SUBSET Removable}
  /\ \E ids \in SetToSeqs(Device) :
       backend = [ session |-> FALSE, devices |-> {}, drm |-> {}, pending_devices |-> ids,
                   conn |-> [c \in Crtc |-> None], flip_pending |-> {}, in_flight |-> {}, lost |-> {},
                   queued |-> {}, damaged |-> {}, idle |-> {}, copy |-> {}, failed |-> {},
                   resize |-> [c \in Crtc |-> "none"], gate |-> None, slide |-> "none",
                   was_sliding |-> FALSE, wakeup |-> 0, waiting |-> FALSE ]

\* An idle callback queued by schedule_render.
Idle(c) ==
  /\ c \in backend.idle
  /\ LET s == [backend EXCEPT !.idle = @ \ {c}]
     IN backend' \in IF c \in Live(s) \ s.flip_pending THEN OnVblank(s, c) ELSE {s}
  /\ UNCHANGED <<present, plugged>>

\* frame_submitted: a frame queued behind this one is submitted, unless the
\* device is inactive.
Submitted(s, c) ==
  [s EXCEPT !.flip_pending = @ \ {c}, !.queued = @ \ {c},
            !.in_flight = IF c \in s.queued \intersect Live(s) THEN @ ELSE @ \ {c}]

\* The kernel reports a page flip, unless it discarded it.
VBlank(c) ==
  /\ c \in backend.in_flight \ backend.lost
  /\ backend' \in OnVblank(Submitted(backend, c), c)
  /\ UNCHANGED <<present, plugged>>

\* A client commits: contents change on some outputs, and it asks for a
\* frame callback.
Commit(C) ==
  /\ backend' = Scheduled([backend EXCEPT !.waiting = TRUE, !.damaged = @ \union C])
  /\ UNCHANGED <<present, plugged>>

\* arrange_all, from any handler: windows on this output are given sizes
\* their clients have still to answer, and a tag switch slides them.
Arrange(c, resize, slides) ==
  /\ backend' = Scheduled([backend EXCEPT !.resize[c] = resize, !.damaged = @ \union {c},
                                          !.slide = IF slides THEN "running" ELSE @])
  /\ UNCHANGED <<present, plugged>>

\* The clients resized on this output commit buffers of the new size.  They
\* wait for an outstanding frame callback first.
ClientAnswers(c) ==
  /\ backend.resize[c] # "none" /\ ~backend.waiting
  /\ backend' = Scheduled([backend EXCEPT !.resize[c] = "none", !.damaged = @ \union {c}])
  /\ UNCHANGED <<present, plugged>>

\* zwlr_screencopy_frame_v1.copy while the session is not locked, and the
\* destruction of a frame object.
Copy(c) ==
  /\ backend' = Scheduled([backend EXCEPT !.copy = @ \union {c}])
  /\ UNCHANGED <<present, plugged>>

CopyDestroyed(c) ==
  /\ c \in backend.copy
  /\ backend' = [backend EXCEPT !.copy = @ \ {c}]
  /\ UNCHANGED <<present, plugged>>

\* Time passes: the gate ages and the running slide reaches its end.
Tick ==
  /\ backend.gate \in {"fresh", "late"} \/ backend.slide = "running"
  /\ backend' = [backend EXCEPT !.gate = CASE @ = "fresh" -> "late" [] @ = "late" -> "expired" [] OTHER -> @,
                                !.slide = IF @ = "running" THEN "elapsed" ELSE @]
  /\ UNCHANGED <<present, plugged>>

\* SessionEvent::PauseSession.  Of the flips in flight the kernel discards
\* some, and reports the others while the session is paused or later.
PauseSession ==
  /\ backend.session
  /\ \E C \in SUBSET (backend.in_flight \intersect Discarding) :
       backend' = [backend EXCEPT !.session = FALSE, !.drm = {}, !.lost = @ \union C]
  /\ UNCHANGED <<present, plugged>>

\* SessionEvent::ActivateSession, or the first idle callback if the session
\* was active from the start.
ActivateSession ==
  /\ ~backend.session
  /\ backend' \in Resumed([backend EXCEPT !.session = TRUE])
  /\ UNCHANGED <<present, plugged>>

\* The resume command of the socket, for a suspend without session events.
IpcResume ==
  /\ backend' \in Resumed(backend)
  /\ UNCHANGED <<present, plugged>>

\* UdevEvent::Added: opened, or deferred if that fails, which it may do
\* before or after the DeviceData is in place.
DeviceAdded(d) ==
  /\ d \notin present
  /\ present' = present \union {d}
  /\ \/ /\ Len(backend.pending_devices) < MaxDeferred
        /\ \E s \in {backend} \union IF backend.session THEN {Inserted(backend, d)} ELSE {} :
             backend' = [s EXCEPT !.pending_devices = Append(@, d)]
     \/ /\ backend.session
        /\ backend' \in Opened(backend, d)
  /\ UNCHANGED plugged

\* UdevEvent::Removed: output_removed re-runs the layout for each output.
DeviceRemoved(d) ==
  /\ d \in present
  /\ present' = present \ {d}
  /\ LET s == [Unlit(backend, CrtcsOf(d)) EXCEPT !.devices = @ \ {d}, !.drm = @ \ {d}]
     IN backend' = IF Surfaces(s) # Surfaces(backend) THEN Scheduled(s) ELSE s
  /\ UNCHANGED plugged

\* A monitor is plugged in or pulled out; the kernel announces it with
\* UdevEvent::Changed, in its own time.
Plug(k) ==
  /\ plugged' = IF k \in plugged THEN plugged \ {k} ELSE plugged \union {k}
  /\ UNCHANGED <<backend, present>>

DeviceChanged(d) ==
  /\ d \in present
  /\ backend' \in Scanned(backend, d)
  /\ UNCHANGED <<present, plugged>>

Next ==
  \/ \E c \in Crtc : Idle(c) \/ VBlank(c)
  \/ \E C \in SUBSET Surfaces(backend) : Commit(C)
  \/ \E c \in Surfaces(backend) \intersect Tiled, resize \in Resizes, slides \in BOOLEAN : Arrange(c, resize, slides)
  \/ \E c \in Surfaces(backend) : ClientAnswers(c)
  \/ \E c \in Surfaces(backend) \intersect Captured : Copy(c) \/ CopyDestroyed(c)
  \/ Tick \/ PauseSession \/ ActivateSession \/ IpcResume
  \/ \E d \in Device : DeviceAdded(d) \/ DeviceRemoved(d) \/ DeviceChanged(d)
  \/ \E k \in Removable : Plug(k)

Spec == Init /\ [][Next]_vars

\* The event loop runs its idle callbacks, the kernel reports every flip it
\* does not discard, time passes, and a client that is asked to resize in
\* the end does.
Fairness ==
  /\ \A c \in Crtc : WF_vars(Idle(c)) /\ WF_vars(VBlank(c))
  /\ WF_vars(Tick)

FairSpec == Spec /\ Fairness

ClientsAnswer == \A c \in Crtc : SF_vars(ClientAnswers(c))

PoliteSpec == FairSpec /\ ClientsAnswer

-----------------------------------------------------------------------------
(* Properties                                                              *)

\* An idle render is due on an output, or a VBlank to come.
Awake(c) == c \in backend.idle \union (backend.in_flight \ backend.lost)

\* The outputs whose last frame failed, and those whose flip the kernel
\* discarded: what the code promises there is up to FlipsReported.
Broken == backend.failed \union backend.lost

Unshown(c) == c \in Live(backend) /\ c \in backend.damaged \union backend.copy

\* Safety: new contents and screencopy requests on an output are never left
\* without an event that renders them, unless the layout gate holds the
\* output, its last frame failed or the kernel discarded its flip.
\* schedule_render skips an output with a flip pending or a paused device,
\* so VBlank, a resume and a connector scan have to make up for it.
WakeupKept ==
  \A c \in Crtc \ Broken : Unshown(c) /\ backend.resize[c] = "none" => Awake(c)

Working == Live(backend) # {} /\ Live(backend) \intersect Broken = {}

Animating == backend.was_sliding \/ backend.wakeup > 0

\* Safety: while a client waits for a frame callback, and while a slide or
\* the countdown after it is under way, some output is going to run
\* on_vblank.  Nothing else sends the one or advances the other.
LoopKept ==
  Working /\ (backend.waiting \/ (Animating /\ \A c \in Crtc : backend.resize[c] = "none"))
    => \E c \in Live(backend) : Awake(c)

\* Safety: a live output has flip_pending set only while a flip is in flight
\* that the kernel reports, so that its VBlank clears it.  Otherwise
\* schedule_render skips the output for good; open_pending_devices clears
\* the flag "so the render loop is not permanently stalled".
FlipsReported ==
  Live(backend) \intersect backend.flip_pending \subseteq backend.in_flight \ backend.lost

\* Action: whatever a connector scan finds, a CRTC keeps the connector it
\* drives until its device goes away or is opened anew.
OutputsKept ==
  [][\A c \in Surfaces(backend) :
       \/ backend'.conn[c] = backend.conn[c]
       \/ Owner[c] \notin present'
       \/ Owner[c] \in Range(backend.pending_devices)]_vars

\* Liveness: an output that no window resize holds back renders what it
\* should show and answers the screencopy requests for it, unless its frame
\* fails or the kernel discarded its flip.
Shown ==
  \A c \in Crtc :
    Unshown(c) /\ backend.resize[c] = "none"
      ~> ~Unshown(c) \/ c \in Broken \/ backend.resize[c] # "none"

\* Liveness: the windows an output waits for are resized in the end, because
\* the gate holds frames back but not the frame callbacks their clients
\* wait for.
ResizesEnd ==
  \A c \in Crtc :
    c \in Live(backend) /\ backend.resize[c] # "none"
      ~> ~Working \/ c \notin Live(backend) \/ backend.resize[c] = "none"

\* Liveness without the cooperation of any client: the gate has a time
\* limit, so an output with new contents renders them.
GateExpires == \A c \in Crtc : Unshown(c) ~> ~Unshown(c) \/ c \in Broken
=============================================================================

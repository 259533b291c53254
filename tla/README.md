# A TLA+ verification project for rwl

rwl is a dynamic tiling Wayland compositor in the tradition of dwm/dwl, written in Rust
on smithay. This directory holds TLA+ models of its core logic, the TLC configurations
that check them, and theorems about them that TLAPS proves. Paths below are relative to
the root of the repository; the Rust sources are in `src/`.

Contents: [1 The system](#1-the-system) · [2 The modules](#2-the-modules) ·
[3 What TLC checks](#3-what-tlc-checks) · [4 What is proved](#4-what-is-proved) ·
[5 Where the code departs from its documentation](#5-where-the-code-departs-from-its-documentation) ·
[6 What is not modelled](#6-what-is-not-modelled) · [7 Plan](#7-plan)

## 1 The system

One struct, `Rwl` (`src/state.rs`), holds all compositor state. A single calloop event
loop runs every handler to completion: Wayland requests, input events, timers, the
command socket, Lua commands, DRM page flips. There is no locking inside the compositor;
what is hard is that dozens of handlers each change several related fields, in their own
order, and each must leave them agreeing. Real concurrency exists in three places: the
password worker thread of the screen locker, the bar (a Wayland client on a thread of its
own), and the clients, whose requests arrive in any order and who may vanish at any time.

| Component | State | Operations | Interacts with |
|---|---|---|---|
| Window manager core (`state.rs`, `actions.rs`, `window.rs`, `monitor.rs`) | `windows`, `focus_stack`, `monitors`, `sel_mon`, `tag_history`, the `Space`, a `WindowState` per window, keyboard focus | `dispatch` of the bound actions, `arrange`, `focus_window`, `apply_rules` | everything |
| XDG shell, compositor, data device, decoration (`handlers/`) | the above | `new_toplevel`, `commit`, `toplevel_destroyed`, fullscreen/parent/dialog/activation/decoration requests | core, swallow, auto-back, rules, smithay |
| Configure bookkeeping (smithay `wayland/shell/xdg`) | per toplevel: pending state, configures in flight, last acknowledged state | `with_pending_state`, `send_configure`, `send_pending_configure`, `ack_configure`, the reset on unmapping | `arrange`, clients |
| Surface tree (smithay `wayland/compositor`) | per surface: parent, sync flag, cached states, pending transaction; per client: the transaction queue | `commit`, `get_subsurface`, `set_sync`, `blocker_cleared`, rwl's pre-commit hook | clients, GPU fences |
| Scan-out (smithay `DrmCompositor`, `Swapchain`, `OutputDamageTracker`) | frames on the screen, in flight and queued; buffer ages; damage history | `render_frame`, `queue_frame`, `frame_submitted`, `reset_state`, `reset_buffers` | udev backend, kernel |
| Scratchpads (`features/windows/scratchpad.rs`) | `scratch_key`, tags 0 while hidden | toggle, focus-or-toggle, focus-or-toggle-matching | core |
| Swallowing (`features/windows/swallow.rs`) | `swallowing` on the child, `is_swallowed` on the terminal | `try_swallow` at the first commit, `on_unmap` | rules, destruction, `arrange` |
| Auto-back (`features/windows/auto_back_empty_tag.rs`) | `tag_history`, `switch_to_tag` | `on_window_closed` | destruction, views |
| Outputs (`handlers/output.rs`) | `monitors`, every `mon_idx`, `sel_mon`, `tag_history` | `output_added`, `output_removed` | core |
| Keyboard (`handlers/input.rs`) | `intercepted_keys`, `key_repeat_*`, `mod_tap`, `passthrough`; smithay's pressed and forwarded keys | `process_key_event`, the repeat timer, synthetic releases | bindings, lockers, overview, session |
| Pointer (`handlers/input.rs`, `grab/`) | pointer, grabs | motion, buttons, axis | core, lockers |
| Native locker (`features/session/lock.rs`) | `LockState`: phase, password, timers, result channel | `lock`, `feed_key`, `on_auth_result`, timers | worker thread, session lock, focus |
| External lockers (`handlers/session_lock.rs`) | `locked`, `lock_surfaces` | `lock`, `unlock`, `new_surface` | native locker, focus |
| Command socket (`features/integration/ipc/`) | connections, subscribers | `cmd_dispatch` | core |
| Lua hooks (`features/integration/hooks.rs`) | command queue, snapshot | `enqueue`, `drain`, the `on_*` events | core |
| Effects (`features/effects/`) | slide and zoom marks on windows | `mark_slide_outs`, `finalize_slide_outs` | `arrange`, views |
| Per-tag layouts (`features/windows/pertag_layouts.rs`) | `lt`, `sel_lt`, `tag_lt_override` | `apply`, `apply_dynamic`, monitor memory | views, hotplug |
| Layouts (`features/layout/`) | none (functions of windows and area) | one per layout | `arrange` |
| Overview, picture-in-picture | the overlay's selection | open, navigate, close | core |
| Screencopy, gamma, idle, layer shell | pending frames, ramps, inhibitors | protocol requests | outputs, locker |
| udev backend (`backend/udev.rs`) | session, devices, a surface per CRTC, pending page flips, idle renders, `layout_gate_since`, `post_transition_wakeup` | `on_vblank`, `schedule_render`, pause, activate, connector scans, device hotplug | outputs, clients, kernel |

What makes each of the modelled components correct:

- *Core*: the window list, focus stack and space agree; the space holds exactly what the
  monitors show; after each handler the keyboard is on the most recently focused window
  that is shown; no monitor ever shows the empty tag set.
- *Hotplug*: the positions kept all over the state (`mon_idx`, `sel_mon`, `tag_history`)
  keep naming the outputs they named; windows of an unplugged output stay visible.
- *Scratchpads, swallowing*: a hidden window is in a state from which exactly one
  operation brings it back.
- *Auto-back*: leaves an emptied view for one that shows something.
- *Keyboard*: press and release of a key go to the same place, whatever changed in between; a
  held binding stops repeating; a client never believes that a released key is down.
- *Frame loop*: whatever an output should show, and whoever waits for one of its frames, some event
  is on its way that renders it; a page flip that is pending is one that will be reported (which
  fails if the kernel discards it, finding 6).
- *Slides*: a hidden window is on screen only while it slides out, a shown one is never taken off
  by the end of its slide, and a slide that has started is finished by a later frame.
- *Configures*: what the client was told last is what the last arrangement wants, however many
  configures it has not answered; a window never waits for a configure that was not sent.
- *Surface tree*: no buffer is drawn before its fence is signalled; what a synchronised subtree
  committed is drawn with its parent; every commit is applied in the end.
- *Scan-out*: a frame shows the scene it was composed from, whatever its buffer missed; nothing is
  left unpainted because it was believed painted.
- *Lockers*: one password check at a time; the native lock opens only on an accepted
  attempt; nothing behind a lock gets the keyboard; the locker never gets stuck in a phase
  that refuses keys.

The hard behaviours, each with its line in the code, are listed under `hazards` in
`PROJECT.json` together with the properties that cover them.

## 2 The modules

| Module | Models | Builds on |
|---|---|---|
| `Stacks` | list operations on `Vec<Window>` and `VecDeque<u32>`: retain, raise to front, find, remove | |
| `Monitors` | the two tag slots of `struct Monitor`, one history deque | `Stacks` |
| `WindowManager` | core, XDG shell, rules, scratchpads, swallowing, auto-back, hotplug, pointer, socket views, keyboard focus under a lock | `Monitors` |
| `SessionGuard` | abstract: who holds the session and how it may change hands | |
| `ScreenLock` | native locker with worker thread, channel and timers; external lockers | refines `SessionGuard` |
| `Keyboard` | `process_key_event` and its filter, bindings, key repeat, mod-tap, the keys of smithay's seat, synthetic releases | |
| `Frames` | the frame loop of the udev backend: `on_vblank`, idle renders, page flips, layout gate, slides, screencopy requests, connector scans, devices, VT switches | |
| `Slides` | the tag slides: tag switches, arrangement, opening, swallowing and closing windows, and the frames that advance and finish slides | `Monitors` |
| `Toplevel` | smithay's record of one xdg_toplevel: operators for pending state, configures and acknowledgements | |
| `Configures` | what one client is told of its window, by every handler that arranges, focuses, resizes, rules, unmaps or decorates | `Stacks`, `Toplevel` |
| `SurfaceCommits` | one client's tree of surfaces, its transactions and its fences | |
| `ScanOut` | what is on one output: DrmCompositor, swapchain, damage tracker, as the frame loop drives them | |
| `StacksLemmas`, `WindowManagerProofs`, `ScreenLockProofs`, `KeyboardProofs`, `ConfiguresProofs`, `FramesProofs`, `SlidesProofs`, `ScanOutProofs` | theorems | |
| `MCWindowManager`, `MCWindows`, `MCScreenLock`, `MCKeyboard`, `MCFrames`, `MCScreens`, `MCProgress`, `MCConfigures`, `MCClients`, `MCScanOut` | instances for TLC | |

**Stacks and Monitors.** Lists are sequences, tag masks are sets of tags `1 .. TagCount`
(bit *i* of the `u32` is tag *i* + 1; bitwise or, and, xor are union, intersection, symmetric
difference). A mask that a binding, a command or a rule carries may name tags past `TagCount`;
`& tag_mask()` is the intersection with `Tags`, made where the code makes it. A monitor is
`[output, tagset, selTags]`, the two slots and the index of the selected one.

**WindowManager.** One action per handler, the whole handler in one step, nested calls
included: an action that ends in `arrange_all(); focus_window(focused_window())` says so with
`SettleOn`, one that only arranges says only that. Handlers query state between their changes,
so queries (`OwnedBy`, `FocusedIn`, `ArrangedAll`) take the lists as arguments and the action
passes the intermediate values; `Destroy` shows this best: list and stack are shortened,
auto-back may reassign the view and call `focus_window`, the swallow link is undone, and only
then is the final focus target chosen. The correspondence:

| Rust | TLA+ |
|---|---|
| `Rwl::windows`, `focus_stack` | `windows`, `focusStack` |
| `WindowState` fields | record `win[w]`; `rulesApplied`, `bufferMapped`, `needsCentering`, `swallowing` and `swallowed` by their names, `named` for "has an app id" |
| `Rwl::monitors`, `sel_mon`, `tag_history` | `monitors`, `selMon`, `tagHistory` (1-based) |
| `Rwl::space` | `space`, the set of mapped windows; positions are dropped |
| seat keyboard focus | `focus` |
| `Rwl::locked` and `native_lock` | `locked` in `"no"`, `"native"`, `"ext"` |

Abstractions: geometry, borders, layouts and rendering are dropped, the order in which
`arrange` visits monitors too (it only unites what they show). A rule match is one of the
constant `Rules`, the outcomes `apply_rules` can have, so any app id, title and Lua override
is covered by choosing the set. The process ancestry that `find_target` walks is the constant
`Lineage`. Whether the selected layout is tile, which decides between the tile master and the
focused window as the target after a close, is left open. Configuration flags that change
control flow (`follow`, `auto_back_empty_tag`, `mouse_focus`) are constants. The model's
configuration has `tag_transition = false` (`Slides` has it on), no Lua callbacks, and swallowing
enabled, with the default cargo features.

**ScreenLock.** The event loop's registrations are part of the state: the flash timers pending
(several, when one rejection follows another quickly), the animation timer, the channel of the
current lock session, and the worker, which answers into a channel that may be gone. Removing a
registration in the code (`loop_handle.remove`) removes it here; overwriting a token does not.
Characters have a width in bytes, because the capacity of the buffer is tested in bytes. Several
external clients may lock, and all that smithay accepts, rwl confirms.

**SessionGuard** says what the lockers promise: the session is open, held natively or held by
an external client; a native lock is left only when the attempt under way is right.

**Keyboard.** `pressed` and `forwarded` are the two key sets of smithay's `KbdInternal`, `down`
the keys whose release the kernel will still report (a set apart, since suspending libinput loses
releases), `intercepted` is `intercepted_keys`. What a client believes to be down is `forwarded`:
`wl_keyboard.enter` lists it and every later change is sent. `mode` holds the five fields that
decide where a key goes (native lock, `locked`, passthrough, overview, PiP). The filter is a
function of the state to an action or `"forward"`, its early returns in their order;
`MatchKeybind` has the four tries of `match_keybind`. A keysym depends on the key and the held
modifiers (`Sym`), so a binding can be hit through its shifted or its plain symbol, and
`MOD_TAP_KEYSYM` is the symbol that a key without one has. App ids are reduced to the set of
bindings' app ids that the focused window's contains, which any press may find different.
`dispatch()` is followed as far as it changes one of these fields (`Dispatched`). `bypassed` and
`chord` are history variables: keys that went up without the filter's `Released` branch, and
ordinary keys pressed since the mod key went down. The gesture is evaluated after the filter
whatever the filter decided, so a tap of the mod key runs its binding behind a lock too; the model
does what the code does.

**Frames.** rwl renders nothing on a timer. `on_vblank` runs when the kernel reports a page flip,
when an idle callback of `schedule_render` finds no flip pending, and after a scan or a resume; every
path through it has to leave something behind that runs it again while there is reason to. `backend`
is one record, since `on_vblank` is run for one CRTC after another within a handler: the fields of
`UdevData` and of each `OutputSurface` as sets of CRTCs (`flip_pending`, `idle` for a callback that is
due, `copy` for a screencopy request) and the four fields of `Rwl` that the loop reads
(`layout_gate_since` as `gate`, `tag_transition_was_active`, `post_transition_wakeup`, and the running
slide). `OnVblank` gives the set of outcomes: not live, held by the gate, failed (an early return),
drawn empty, drawn and queued. `damaged` stands for all contents: it says that the output differs
from the last frame queued for it. The kernel and smithay's `DrmCompositor` are external: one frame
in flight, one queued behind it, and both survive `reset_state`. The code believes that the kernel
discards the flips in flight when the session pauses (`src/backend/udev.rs:433`); as nothing in the
repository settles it, `PauseSession` loses any of those on the CRTCs of `Discarding` (`lost`), and their
VBlanks never come. smithay keeps the frame all the same. A slide damages every output, a
cautious reading since its windows may be on any; the sizes a layout asks for are reduced to the kind
of answer outstanding on the output (`resize`), of which new windows are the first. Time is three
ages of the gate. `Removable`, `Flaky`, `Captured`, `Tiled` and `Resizes` restrict the environment of
an instance: which monitors come and go, which frames may fail, and so on.

**Slides.** The core again, reduced to what the slide marks depend on and split over the two
parties: the handlers, which mark the leaving windows, arrange and start the entering ones
(`Switched`; through `pending_tag_transition` where the code does it so), and the frame loop, which
advances the slides of windows in the space (`Advanced`) and takes finished ones out of it
(`FinalizedSpace`). A window's slide has not started, is running or is over; `Tick` is the time that
passes. Auto-back is `DestroyAndBack`, where the closing window is removed first. The focus stack is
left out: an action on the focused window may act on any window the stack could have on top.

**Toplevel and Configures.** `Toplevel` is the state machine of smithay's role attributes as
operators on a record: the state being drafted, the configures in flight, the one acknowledged last.
`current_server_state` is the last one *sent*, which is what makes `send_pending_configure` right
when several are in flight. `Configures` follows one toplevel, `Watched`; other windows contribute
to the layout (a tile's size is its place among the tiles) and to the focus stack. `Arranged` makes
the distinction `arrange` makes: a window that is hidden, or that was not in the space, is always
sent a configure; one that stays only when its state changed. `CommitFirst` and `CommitLater` are
the two branches of `commit`, `Settle` what follows both. A buffer without an acknowledged
configure is a protocol error (`pre_commit_hook`); the guard asks it of `Watched` only, since the
others' roles are not followed.

**SurfaceCommits.** `Commit` is `wl_surface.commit` with rwl's hook: a dma-buf whose fence is not
signalled adds a blocker. A surface that is effectively sync keeps its state in its pending
transaction, any other one queues it with those of its sync subtree. `Held` is `take_ready`'s scan:
a transaction waits for its blockers and for every earlier one that waits on a surface of its own.
`due` and `committed` are history variables: what each descendant had committed when a surface was.
`Whole` restricts the client to one that commits each buffer before it does anything else.

**ScanOut.** The output is a few regions, what an element shows in one is its commit and what is
in front of it, and a buffer holds what was drawn into each region. `Composited` is a render into the next free slot:
the age picks from the damage history what has to be repainted, and the rest is what the buffer
still holds. `ScannedOut` puts a client's buffer on the primary plane; which elements the
hardware accepts, and the memory of refused ones, are left open. `Finished` is the end of
`render_frame` and the `queue_frame` that follows; a failing flip (`Events` has `"flip"`), a failing
render, a mode setting pending for VRR, and a resume are the faults. A frame in flight at a pause counts
as on its way: flips that the kernel discards are in `Frames` only.

**Instances of several modules.** `MCWindows`, `MCScreens`, `MCProgress` and `MCClients` check
several instances in one run: a variable (`concern`, `part`) chosen in the initial state says which
one a behaviour is about, and stays. That instance's actions run; the variables of the others keep
their initial values, in which no action with a fairness condition is enabled. The instances keep
apart what does not interact in the code, or what only multiplies the state space. `MCWindows` has
six, and the constant `Concerns` says which of them a run takes: `MCTags.cfg` only the one that it
describes itself, `MCWindows.cfg` the five others.

## 3 What TLC checks

`tlc -config <cfg> <module>`; `PROJECT.json` names the module of each cfg. State counts are of
distinct states.

| Run | Question | States |
|---|---|---|
| `MCTags` | views of three tags, history, auto-back and both locks on one monitor | 207 364 |
| `MCWindows` | hotplug down to no output; focus by pointer, click and activation on two, with fullscreen windows; late parents; scratchpads, floating, fixed-size and dialog windows; a terminal with two children | 345 839 |
| `MCKeyboard` | three keys through bindings, overlays, passthrough and both locks, with repeat, mod-tap, a pausing session and lost releases | 154 352 |
| `MCScreens` | two CRTCs of one GPU, one monitor that comes and goes, VT switches, GPU removal, failed frames and discarded flips; and the contents of one output, with buffers of every age | 1 705 461 |
| `MCProgress` | the lockers refine `SessionGuard`, and always get out of a check and of a failure; one output with every kind of pending resize shows what it should in the end; slides end | 85 790 |
| `MCClients` | configures, commits and slides of windows, each in several instances | 576 071 |

The properties, by what could go wrong:

- `StackedUnlessHidden`: a window that focus can never find again (only a hidden scratchpad may be
  off the focus stack). That lists are free of duplicates and of dead windows is a theorem
  (`WindowLists`, section 4).
- `ShownIffVisible`: the space against tags, swallowing and rules after every handler. The
  hazard is the second way into the space, the centring in `commit`, which runs whenever the
  client happens to send its buffer, on whatever is shown then.
- `KeyboardOnFocusedWindow`: after every handler that moves windows or views, the keyboard is on
  `focused_window()`. Checked where all handlers end in `focus_window`; some others leave the
  keyboard where it is or give it to another window (`FocusMinded` in section 4 names them all).
- `FocusStaysOnScreen`: those others, in `MCWindows`, with the weaker promise that the keyboard is
  never *handed* to a window off screen. A window that waits for its rules and a terminal that is
  hidden or comes back are let off, for the reasons given with the property.
- `AutoBackFindsWindows`, `ViewsNonEmpty`, `HistorySound`: auto-back against histories with stale,
  repeated and dropped entries.
- `MonitorIndices`, `HotplugKeepsOutputs`, `UnplugHidesNothing`: positions through insertions
  and removals.
- `SwallowPairs`, `ClosingChildRestoresTerminal`: the two halves of the link, which live on
  different windows.
- `LockHoldsKeyboard`: every handler behind a lock.
- `KeysDivided`, `LockHidesKeys`: where a press and its release go, judged at different times. Keys
  that went up past the filter (`bypassed`) are let off by the first one, so it does not find what
  their stale entries in `intercepted_keys` do later (section 5).
- `RepeatHeld`, `NoRepeatBehindLock`, `TapClean`: the timer and the gesture, which outlive the
  event that started them, against every way a key can go up.
- `WakeupKept`, `LoopKept`: `schedule_render` drops its callback when a flip is pending or the device
  is paused, and `on_vblank` has six early returns; each must be made up for by another event.
  Outputs whose last frame failed or whose flip was discarded are let off (`Broken`): of the latter,
  `FlipsReported` says what the code means to keep, and it fails (finding 6).
- `OutputsKept`: a scan against the outputs that are already driven.
- `Shown`, `ResizesEnd`: the gate waits for clients that wait for frame callbacks.
- `OutOfPlaceIsSliding`, `VisibleStaysMapped`, `HiddenLeavesTheSpace`: `arrange` leaves a sliding
  window in the space, and only a later frame can take it out; meanwhile it may be shown again,
  moved, swallowed or closed.
- `NothingUnsent`, `ArrangeReachesClient`: `send_pending_configure` compares with what was sent last;
  the last word of every arrangement must reach the client, past any number of unanswered ones. The
  step that maps the watched window's first buffer is left out of the second one: the configure it forces
  takes Activated from the top of the whole focus stack, on the view or not.
- `AlwaysConfigured`: unmapping resets smithay's role, rwl's window state stays; the safety net in
  `commit` must send the new initial configure.
- `FencesHonoured`, `SubtreesTogether`, `QueueDrains`: transactions that wait, overtake and merge,
  over surfaces that are reparented or destroyed.
- `FramesShowTheirScene`, `NothingLeftBehind`: buffers four generations old, histories cut short,
  frames taken over from the previous one, direct scan-out in between.
- `InFlight`, `TimersNamed`, `ImplementsGuard`, `ChecksEnd`, `FailureFades`: the
  locker's phase against the worker, the channel and the timers.

**Bounds.** Two windows (three where a terminal and two children are needed) suffice for every
pair of operations to meet, one window moving while the other one keeps, loses or gets focus; a
stack or list of two already has a top and a rest. Two tags give a shown and a hidden one. `MCTags`
has three, since with two any tag set but the shown one contains the hidden tag and auto-back could
not pick one that shows nothing; its masks and rules also name a fourth tag, past `TagCount`, and
its history of two overflows and has an older entry to fall back to. In the pointer part of
`MCWindows` a toggle of both tags moves a window off the view and back. Three outputs are the least for removing a middle
one with a neighbour on either side; three are never needed elsewhere. `Bindings` and `Events` select
the handlers of one instance, so that each explores the full state space of one concern; together
the passing runs contain every action. Window symmetry (`MCTags`) and output symmetry (`MCWindows`)
are used where the constants treat all of them alike, and only in runs that check invariants and
action properties. The parts of `MCWindows` with one or two outputs keep it sound: a permutation that
takes one of their states to another also permutes the outputs they have.

In `MCProgress` the password capacity is two bytes, which one two-byte character can straddle; two
timers allow two overlapping flashes. `MaxTyped` bounds the buffer. `MCKeyboard` has the mod key,
Shift and one ordinary key, which is Escape alone and an arrow with Shift: the least with a chord,
two modifiers for the mod-tap set, and each early return of the filter. Keys without a symbol are in
none of the instances; the theorems of section 4 cover them. The frame loop of `MCScreens` has two
CRTCs, the least with which outputs share the gate and the countdown and a scan finds one CRTC taken
and one free; the countdown of wakeups is cut from 30 to 2 there, and to 4 in a second instance
without hotplug, resizes and failures: its first frame is drawn and brings a VBlank, but after the
next, which shows nothing new, only the countdown itself schedules a render (the new layout that the
code makes halfway is an `Arrange` like any other). One deferred device is enough for the queue.
The first CRTC may fail and may lose its flips, the second does neither. `MCProgress` has one output
with both.

`ScanOut` has two elements over two regions, one opaque and one that moves: enough for an element
that is covered, uncovered, restacked and scanned out. Swapchain and history have their real sizes
(four slots, four entries); with three changes of the scene a buffer misses the damage of two frames
and is used again. The parts with a resume or failed flips have fewer changes. In `MCClients` two
windows share the layout and the focus; with `MaxSent = 1` a handler may start from one configure in
flight and send several more. A chain, a fork and a pair of subsurfaces, with one buffer and two commits each, have
every merge of transactions in them, and two fences hold up each other's transactions. Slides have
two windows and two tags on one monitor, and on two monitors for the socket's `view` of a monitor
that is not selected; the countdown of wakeups is cut from 30 to 1 or 2, which only shortens it.

**Fairness.** Safety is checked of `Init /\ [][Next]_vars`. `MCProgress` adds, for the lockers, weak fairness of the
worker's answer (`authenticate()` returns: PAM or the helper process has an end of its own), of
`AuthResult` (the loop hands over a message that waits in a registered channel) and of each
pending flash timer (the loop runs expired timers). Nothing is assumed of the user, of external
clients, or of the animation timer. A worker that dies without sending is outside this
assumption; the code then stays in `Authenticating`, as there is no timeout.

For the frame loop it assumes weak fairness of each idle callback, of the report of each page flip that
the kernel does not discard and of the passing of time (`FairSpec`), and that a client that could answer its resize again and again in the
end does (strong fairness: other commits keep interrupting it). `MCGateExpires` assumes the first
three only. Nothing is assumed of sessions, hotplug, commands or other commits. For the slides it
assumes that time passes (`Tick`) and that a slide in progress gets its frames (`Frame`): each frame
of a running slide schedules the next (`LoopKept`), and the wakeups after it draw the last one.
`QueueDrains` in `MCClients` assumes that the GPU signals each fence in the end and that the event
source rwl registered for it runs; the client owes nothing.

**Deadlock** is checked in every passing run but `MCClients`, where a client whose bounded commits are
used up may stop.

**Mutants.** Each module holds, next to a definition, the forms a plausible mistake would give it
(`MUTANT of ...`); `PROJECT.json` pairs each property of each passing run with the mutant that
breaks it there.

## 4 What is proved

All theorems hold for every value of the constants: any numbers of windows, outputs, tags,
clients, timers, any configuration and any set of bindings. They assume only the `ASSUME`s of the
modules (`None` is not a window, finitely many outputs, at least one tag, rules and lineage of
their types, no process among the ancestors of its ancestors; in `Configures` also that the watched window is a
window and `None` no state; in `Frames` finitely many devices and CRTCs, a connector reaching CRTCs of
its own device only, and a bound on deferred devices that holds those there are at the start; in `Slides`, as `ConstantsSound`,
at least one monitor and a `None` that is neither a window nor a state; in `ScanOut`, by the same name,
at least one region, finitely many elements with geometries on the output, and a `None` that is neither a
slot nor an element). TLC evaluates each of those on the instances.

| Theorem | Statement |
|---|---|
| `WindowManagerProofs!ListsAgree` | `Spec => []WindowLists` |
| `WindowManagerProofs!NativeLockKeepsSilence` | `Spec => []NativeLockSilent` |
| `WindowManagerProofs!LockKeepsKeyboard` | `Spec => LockHoldsKeyboard` |
| `WindowManagerProofs!TypeCorrect` | `Spec => []TypeOK` |
| `WindowManagerProofs!ViewsStayNonEmpty` | `Spec => []ViewsNonEmpty` |
| `WindowManagerProofs!HistoriesSound` | `Spec => []HistorySound` |
| `WindowManagerProofs!IndicesStayValid` | `Spec => []MonitorIndices` |
| `WindowManagerProofs!HotplugKeepsTheRest` | `Spec => HotplugKeepsOutputs` |
| `WindowManagerProofs!SpaceHoldsWhatShows` | `Spec => [](SwallowedUnmapped => ShownIffVisible)` |
| `WindowManagerProofs!UnplugShowsElsewhere` | `Spec /\ []SwallowedUnmapped => UnplugHidesNothing` |
| `WindowManagerProofs!StackedUntilHidden` | `Spec /\ NoLateParent(ScratchPads) => []StackedUnlessHidden` |
| `WindowManagerProofs!HiddenTerminalsPaired` | `Spec /\ NoLateParent(Children) => []SwallowPairs` |
| `WindowManagerProofs!TerminalsRestored` | without auto-back, `Spec /\ NoLateParent(Terminals) => ClosingChildRestoresTerminal` |
| `WindowManagerProofs!AutoBackLeavesEmptyView` | `Spec /\ NoChildCloses => AutoBackFindsWindows` |
| `WindowManagerProofs!KeyboardStaysOnScreen` | `Spec /\ NoHiddenActivated => FocusStaysOnScreen` |
| `WindowManagerProofs!KeyboardFollowsFocus` | `Spec /\ [][FocusMinded]_vars => []KeyboardOnFocusedWindow` |
| `ScreenLockProofs!TypeCorrect` | `Spec => []TypeOK` |
| `ScreenLockProofs!CheckInFlight` | `Spec => []InFlight` |
| `ScreenLockProofs!TimersOnRecord` | `Spec => []TimersNamed` |
| `ScreenLockProofs!Refinement` | `Spec => ImplementsGuard` |
| `KeyboardProofs!TypeCorrect` | `Spec => []TypeOK` |
| `KeyboardProofs!HeldKeysDivided` | `Spec => []KeysDivided` |
| `KeyboardProofs!RepeatBounded` | `Spec => []RepeatHeld` |
| `KeyboardProofs!RepeatEndsAtLock` | `Spec => []NoRepeatBehindLock` |
| `KeyboardProofs!TapOfModifiers` | `Spec => []TapClean` |
| `KeyboardProofs!LockedKeysHidden` | `Spec => LockHidesKeys` |
| `ConfiguresProofs!TypeCorrect` | `Spec => []TypeOK` |
| `ConfiguresProofs!NothingLeftUnsent` | `Spec => []NothingUnsent` |
| `ConfiguresProofs!InitialConfigureSent` | `Spec => []AlwaysConfigured` |
| `ConfiguresProofs!ArrangementSent` | `Spec => ArrangeReachesClient` |
| `FramesProofs!FramesTypeCorrect` | `Spec => []TypeOK` |
| `FramesProofs!WakeupsAreKept` | `Spec => []WakeupKept` |
| `FramesProofs!LoopGoesOn` | `Spec => []LoopKept` |
| `FramesProofs!OutputsAreKept` | `Spec => OutputsKept` |
| `SlidesProofs!SlidesTypeCorrect` | `Spec => []TypeOK` |
| `SlidesProofs!NothingLeftOutOfPlace` | `Spec => []OutOfPlaceIsSliding` |
| `SlidesProofs!VisibleIsKept` | `Spec => VisibleStaysMapped` |
| `ScanOutProofs!ScenesShown` | if no flip fails, `Spec => []FramesShowTheirScene` |
| `ScanOutProofs!NothingForgotten` | if no flip fails, `Spec => []NothingLeftBehind` |

*Lists.* `ListInv` is `WindowLists` plus the types of the three lists; it is inductive. One lemma
says what `focus_window` and `arrange` do to a triple (list, stack, space) that is `Sound`, and
each handler is reduced to these two; the burden is that whatever a handler raises is on the list,
which holds because the target is found on a list by `FirstIn`. `StacksLemmas` proves what `Raise`,
`Without`, `FirstIn`, `LastIn` and `Dropped` do for sequences of every length; they are written
with positions rather than recursion for that reason.

*Tags.* `ViewsNonEmpty` is not inductive by itself: auto-back takes its target from the history,
from the previous slot, from the tags a window recorded when it was ruled, or from a window. The
invariant `TagInv` therefore says of all of them at once that they are non-empty sets of valid
tags, that each history is free of duplicates and bounded, and that there is one history per
monitor. It leans on `ListInv` (windows found on the list are windows). Type correctness follows
from the same invariant with `Hands`, the type of the keyboard focus.

*Hotplug.* `IndexInv` says that outputs are distinct and that the selection and every listed window
are on a monitor, or on the placeholder while there is none. Every step but hotplug is `Ordinary`
(it keeps the lists and the links, and each window on a monitor) or one of four handlers with a lemma
each; an unplugged output makes the indices `Shift`, and `Shift` is shown to follow the monitors
through `Dropped`. `UnplugHidesNothing` follows from the two invariants around the step.

*Space.* `SpaceInv` is `ShownIffVisible` with the swallowed windows let off one half: a mapped window
has a tag that shows, and a ruled, unswallowed window with such a tag is mapped. That much is
inductive, by a lemma on `arrange` over any set of monitors. The other half, that a swallowed window
is not mapped, is what the code breaks (finding 1), so the two theorems have it as a hypothesis.

*Hidden windows.* `HiddenInv`: a window off the focus stack is a scratchpad without tags, and a
scratchpad has its rules, so no first commit gives it tags again. `LinkInv`: links come with the rules
and lead to an ancestor, no two windows hide the same one, a window is hidden exactly if another
links to it, and windows that are not listed have no link. Both are false if `parent_changed` has
the wrong window ruled again (section 5), so each theorem excludes that for the windows
concerned, as a step formula `NoLateParent(S)`, and for no others. What is left of `LinkInv` with late
parents is `HideInv`: a link leads to a hidden ancestor, and no other link does; a terminal may be
hidden with no link to it. That suffices for `TerminalsRestored`, which needs besides
auto-back off, for the reason given in section 5, and that the terminal has its rules when it comes
back (`TermInv`); a late parent of the terminal itself takes them away.
`AutoBackLeavesEmptyView` rests on `TagInv` and on what the target is taken from;
it leaves out children of terminals, since auto-back counts a terminal where it was hidden, and not
where it comes back.

*Keyboard focus.* `FocusedOn` says of a step that it ends with the keyboard on the `focused_window()` of
the state it leaves. The lemmas are about `focus_window`: that what it raises is what
`focused_window()` then finds (`RaiseHead`, `FocusAgrees`), and that this outlives the `arrange` that
follows. `KeyboardStaysOnScreen` needs less: whoever is handed the keyboard is on a tag that a
monitor shows (`HandedSeen`), and `SpaceInv` maps such a window. A terminal that comes back need not
be on screen, but was hidden (`HideInv`). The one hypothesis, that no client activates a window without
tags, is needed: `activate` focuses a hidden scratchpad without showing it.

`KeyboardFollowsFocus` excludes what the code does not refocus after, and nothing more. `FocusMinded`
is a step formula of nine clauses: no pointer motion, no click and no output removed; `ToggleTag` leaves the
focused window on the view; `TagMon` follows; a scratchpad is shown on the monitor it was hidden
on; no activated window is without tags; no child of a terminal closes; and no window opens without an output.
With any one of them dropped, TLC finds a state that breaks `KeyboardOnFocusedWindow` (small
instances, not kept here), so each is a fact about the code and not a convenience of the
proof; the comment of `FocusMinded` gives each its reason. Every behaviour of `MCTags` satisfies all nine. The inductive invariant is
`KeyboardOnFocusedWindow` with `NoMonitorNoWindow` (an output that is added finds no windows to
focus), on top of the types and the indices.

*Lock and keyboard.* Step properties: each handler is shown to leave `focus` alone, to clear it, or
to run only while unlocked, and only the lock handlers touch `locked`.

*Lockers.* `IInv` adds to the invariants and the types `Owned`: while the native lock is
down the `LockState` is the fresh one, and while it is up the session is locked. From it every step
maps to a step of `SessionGuard` or to a stutter, under `mode <- Mode`, `attempt <- Attempt`.

*Keyboard.* The conjunction of the four invariants with `TypeOK` is inductive (`IInv`).
`KeysDivided` needs from `TypeOK` that the seat holds only keys that are down, so that a pressed key
belonged to nobody; `NoRepeatBehindLock` needs that only the `lock` action engages the native lock
and that it is not among the actions that repeat (`DispatchedMode`, `FilteredMode`). Each action
has its part; those that only change modes share one. `LockHidesKeys` is a step property and
follows from the first branch of the filter and from `DispatchedMode`. The set of bindings is
arbitrary: nothing depends on which action a key is bound to.

*Configures.* What a role holds matters through two values: the last configure sent (`Current`)
and the pending state (`Draft`). `SendConfigureTells` and `SendPendingTells` say that after either
call the client was told the draft, whatever it was; so `arrange` leaves nothing pending, and
arranging again with the same lists asks nothing more. The invariant (`IInv`) is that the watched
window, once open, has its initial configure and nothing pending but what was sent, that it was
offered server-side decorations while no rule applies, and that the lists are free of duplicates:
a window listed twice would take two tiles. Each handler is cut at its calls of `arrange` and
`focus_window`; `CommitFirst` and `CommitLater` share `SettleTells`. A window that closes is
the watched one or changes only the others' tiles (`AlikeAsked`).

*Frame loop.* Neither `WakeupKept` nor `LoopKept` is inductive: a resize that ends, or a frame
callback that is sent, must find the output on its way already. `Roused` says it for every live
output whose last frame did not fail: if anything makes it `Due` (a waiting client, or, with no resize
to wait for, new contents, a screencopy, a slide, its last frame or the countdown), an idle callback
or a flip is to come. Outputs whose flip the kernel discarded are excepted, like failed ones: nothing brings
them back but the end of their device. `FramesInv` is that, that a pending flip of a live output has a
frame in flight, be it a discarded one, the types, and that surfaces belong to open
devices and those are present. Inside a handler it may fail for the outputs still to be drawn, so
`Rest(P)` excepts the CRTCs of `P`, and the lemma about `on_vblank` is that it takes one CRTC out of `P`
(`OnVblankRests`): a flip starts with one exception, a resumed device with all its CRTCs, and
`open_pending_devices` draws each of them in turn (`KickedRests`, `ReactivatedRests`). The loops over lists
are recursive functions with sets of states; `LoopExists` and `LoopKeeps` prove what is needed of them,
from the well-foundedness of `<` on the naturals. `OutputsKept` follows from the claims of a scan: each is on a
CRTC that drives nothing (`ClaimsFree`).

*Slides.* `SlideInv` is `OutOfPlaceIsSliding`, the types, and `Links`: a window hides an open terminal
whose rules have been applied, and is no terminal itself. The links are needed because a terminal that
comes back gets other tags: it must be one that `arrange` maps, and a window that closes must be the
target of no link a later window could inherit. Every switch is a chain of `mark_slide_outs`, `arrange` and
`start_tag_transition`; the first and the last give states that are `Alike` (same tags and links, no
slide of a hidden window ended), and `ArrangedSettles` says what the middle one leaves, so each
action only shows that the windows it arranges are `Calm`. The marks of an IPC command on all monitors are a
loop (`LoopExists`, `UpTo`); auto-back arranges twice, and `VisibleIsKept` follows the window through both.

*Scan-out.* The theorems are about any elements over any regions, four slots and four damage entries. They
exclude failing flips, with which both are false (finding 4), but not failing renders, mode settings
and resumes. `ScanInv` has three parts. `Aged`: a buffer whose age the history still covers holds, in each
region, what was drawn last, or the region is in the damage of a frame it missed. `LatestFrame`: the frame
made last has the image damage is counted from, or one element's picture. `Ready`: while the
output may render, a frame still queued is one that a full update replaces. The step that draws needs
`Undamaged` (a region outside the new damage shows the same in both lists, since an element is on a list
once) and `ImageVisible` (leaving out covered elements changes nothing, since of the opaque ones over a
region the first is never left out). Ages saturate in the model at one more than the history can hold,
and `Aged` survives that only because the history never grows past five entries: `Short` says that
an age which no buffer has, with an older buffer behind it, has cut the history there, and four slots
cannot have ages 1 to 5 (`HistoryRoom`).

*Model-checked only.* Liveness (`ChecksEnd`, `FailureFades`, `Shown`, `ResizesEnd`,
`HiddenLeavesTheSpace`, `QueueDrains`) is beyond the prover. `SurfaceCommits` has no proof: its
`take_ready` scans a queue with folds, which would have to be recursive functions first, like the loops
of `Frames`, before anything can be proved about them; the community modules define the folds
by recursion over sets, out of the provers' reach. `OutOfPlaceIsSliding`, `FramesShowTheirScene` and
`NothingLeftBehind` are proved of `Slides` and `ScanOut` themselves; `MCClients` and `MCScreens` check
the same formulas of instances of them.

## 5 Where the code departs from its documentation

Each has a run that TLC stops with a counterexample.

1. **A swallowed terminal comes back on screen** (`MCSwallowMapped`, `SwallowedUnmapped`). `commit`
   centres a floating window that still waits for it and maps it, without the `is_swallowed` test
   that `arrange` makes (`src/handlers/compositor.rs:313`; `src/state.rs:1412` "keep it out of the
   layout and unmapped from the space until the child closes").
2. **A key is stuck after an unlock** (`MCStuckUnlock`, `NoStuckKey`). A key forwarded before the
   lock and released under it has left smithay's pressed keys but not the forwarded ones;
   `release_all_pressed_keys` walks the former (`src/state.rs:2061`), the `enter` after the
   unlock lists the latter.
3. **The layout gate outlives its budget** (`MCGateExpires`, `GateExpires`). While windows on an output
   have not answered a resize, `on_vblank` returns without rendering; the comment promises to "fall
   through" after about 100 ms "rather than starving the display indefinitely"
   (`src/backend/udev.rs:959`). But the return leaves no timer, idle callback or flip, so with a client
   that hangs, the closed neighbour's last picture stays until an unrelated event renders.

4. **A frame whose flip fails is never drawn again** (`MCFlipLost`, `NothingLeftBehind`). `submit`
   drops the frame (`smithay/src/backend/drm/compositor/mod.rs:2541`), after the buffer was
   counted as submitted and its damage recorded as drawn; rwl logs the error and resets neither. The next render
   of the same scene is reported empty, although "this frame contains any changes and should be
   submitted" (`frame_result.rs:41`) is true of it, and the screen keeps the old picture.
5. **A client is told to decorate itself** (`MCClientSide`, `ServerSideForced`). The decoration
   handlers only write the mode into the pending state, and `arrange` finds nothing new to send; the
   null buffer that unmaps the window resets smithay's record, and the next configure answers the
   decoration object with smithay's default, client-side, although rwl means to "always request
   server-side decorations" (`src/handlers/xdg_decoration.rs:11`).
6. **A discarded flip stalls its output** (`MCFlipDiscarded`, `FlipsReported`). `open_pending_devices`
   clears `flip_pending` on a resume because "the kernel discards in-flight page flips on session pause;
   clear the flag so the render loop is not permanently stalled" (`src/backend/udev.rs:433`). If the
   kernel does so, clearing the flag is not enough: smithay's `reset_state` keeps the frame of the
   discarded flip, `queue_frame` submits a frame only when there is none
   (`smithay/src/backend/drm/compositor/mod.rs:2468`), and the render that follows the resume sets
   `flip_pending` again (`src/backend/udev.rs:1580`) for a frame that is never submitted.
   `schedule_render` skips the output from then on; another VT switch ends the same way. If the kernel
   reports the flip after all, the loop goes on, as the other properties of `MCScreens` show. The run
   shows what the comment's own assumption leads to, and not which of the two the kernel does.

Observed in the models with instances other than those kept here:

- *A late parent loses the first terminal.* `parent_changed` makes the next commit apply the rules
  again; if the child then swallows a second terminal, its `swallowing` is overwritten and the first
  stays hidden for good. `MCWindows` therefore sets no parent late there.
- *Auto-back runs before the terminal is restored.* When the child was alone on its tag the view moves
  away first; the terminal is then restored on the tag just left and given the keyboard off screen.
  So no run has both: `AutoBackFindsWindows` is checked without terminals.
  Its part of `MCWindows` therefore has auto-back off.
- *A key is stuck after a pause or `rwl msg resume`.* Synthetic releases do not pass the filter, so the
  key of a held binding stays in `intercepted_keys`. Its next press may be forwarded, and the release
  of that press is swallowed (`src/handlers/input.rs:85`).
- *A frame is queued behind one in flight.* On a resume that finds a new monitor,
  `setup_connector_output` renders it and `open_pending_devices` then renders every surface, the new
  one included, although its flip is pending (`src/backend/udev.rs:98` forbids that; smithay keeps the
  second frame behind the first).
- *The gate is one timestamp for all outputs.* An output that renders resets it, so the budget of
  another one, which keeps being laid out, may never run out.
- *A scan offers free CRTCs to connectors that are driven already* (`src/backend/udev.rs:740` excludes
  CRTCs, not connectors). The kernel normally refuses, but a free CRTC is then claimed in vain.
- *A GPU unplugged and replugged while the session is paused is deferred twice* and opened twice on
  resume; the second `DeviceData` replaces the first without `output_removed` for its outputs.

Observed while modelling, without a run of their own: after auto-back, which assigns the slot
directly, `ViewPrev` can return to the emptied tag in the other slot; `on_auth_result` overwrites
`flash_timer` without removing the timer it named, which then resets a second flash early; two
external lockers can both be confirmed, and when one unlocks, `locked` is cleared under the
other; a repeating binding goes on after a pause until some key is next released; `focused_window()`, `FocusStack` and `Zoom`
do not look at `is_swallowed` and can pick a hidden terminal; `PASSWORD_CAP` is tested in bytes
before the character is added, so a multi-byte character can take the buffer past it; `tag_mon`
with `follow` off leaves the keyboard on the window that moved away; a hidden scratchpad that
is made a child of another window is ruled again while off the focus stack, and activation gives a
hidden scratchpad the keyboard without showing it; an external locker that disappears leaves
`locked` set until another one unlocks (which the protocol wants). In the frame loop: a comment announces "60 frames" of wakeup with a
sentinel that keeps flips coming (`src/backend/udev.rs:1064`), the code counts 30 and draws no
sentinel, so empty frames use the countdown up without flips; the gate's early return sends no
callbacks to lock surfaces; screencopy requests of an output that goes away are never answered; an
unplugged connector keeps its output until its device goes. In the slides: the marks look at tags
alone, so windows of other monitors and swallowed terminals slide too, and a terminal whose slide is
over stays mapped until the next arrangement; turning `tag_transition` off by a reload freezes the
slides under way. In the configures: the forced configure of a first buffer can tell a hidden window
that it is activated, since it asks the top of the whole stack; `ToggleTag` leaves the keyboard on the
window it takes off the view, and windows opened without an output are given no keyboard when one is
plugged in.

## 6 What is not modelled

`PROJECT.json` lists every component with its status. Left out for good: rendering, shaders and
fonts (drawing), the embedded bar (a client), Lua and TOML parsing (data conversion), device I/O of
the backends, wallpaper, cursor warping, startup commands. Vendored smithay is third-party code; modelled are
the parts rwl's behaviour hangs on (configures, surface trees, scan-out), while its renderers,
allocators, other protocols and X11 window manager, most of the repository's lines, are taken as
they are. Left out of `WindowManager` on purpose: popups, interactive move/resize, layout parameters
(`mfact`, `nmaster`, `cfact`, gaps), `KillClient` (a request to the client; its effect is the
client's `Destroy`), `Spawn` and `Quit`. Left out of `ScanOut`: overlay and cursor planes, transforms,
framebuffer effects. Left out of `SurfaceCommits`: explicit-sync acquire points, which block as dma-buf
fences do, and the order of siblings.

## 7 Plan

Done: the modules of section 2, the runs of section 3 and the proofs of section 4.

To come, most important first:

1. `Hooks`: the command queue, its drain and its re-entrancy guard, with the handlers that fire.
2. `PertagLayouts`: the layout slots, overrides and the memory of an unplugged connector.
3. `Layouts`: the layout functions against a reference (rectangles disjoint and inside the area).
4. Layer-shell focus, popup grabs, pointer grabs and XWayland windows on top of `WindowManager`.
5. `GammaControl` and `Idle` as users of the outputs of `Frames`; `Frames` with several devices.
6. `Overview`; the connections and subscribers of the command socket.

Abstract specifications worth stating: a tag-keyed view of `WindowManager` (what is visible as a
function of tags, without lists), and the queue discipline of `Hooks`.

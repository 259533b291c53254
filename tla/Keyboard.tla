------------------------------ MODULE Keyboard ------------------------------
(***************************************************************************)
(* Physical keys on their way to a binding, to the screen locker, to the   *)
(* overview or to a client: process_key_event and its filter, key repeat   *)
(* and the mod-tap gesture (handlers/input.rs), smithay's seat keyboard,   *)
(* and the places that release keys without a key event (unlocking,        *)
(* PauseSession, `rwl msg resume`).                                        *)
(*                                                                         *)
(* The client that has the keyboard holds down exactly the keys of         *)
(* forwarded: wl_keyboard.enter lists them, and each later change of them  *)
(* is sent to it.  What an action does to windows is in WindowManager;     *)
(* dispatch() is here as far as the next key notices.                      *)
(***************************************************************************)
EXTENDS Naturals, Sequences

CONSTANTS
    Key,           \* key codes
    ModOf,         \* the modifier of each key that is one
    ModKey,        \* config::MODKEY
    Sym,           \* Sym[k][mods]: the keysym of a key under held modifiers
    NoSymbol,      \* KEY_NoSymbol, which is MOD_TAP_KEYSYM too
    Escape,        \* KEY_Escape
    Arrows,        \* the arrow keysyms
    App,           \* the app ids that bindings name
    Action,        \* what can be bound
    Keybinds,      \* Config::keys
    RepeatOn,      \* repeat_delay and repeat_rate are positive
    HasLock,       \* the `lock` feature
    HasSession,    \* the udev backend, whose session pauses and resumes
    None           \* Option::None

Mods == {ModOf[k] : k \in DOMAIN ModOf}
Forward == "forward"
Internal == {"consumed", "lockconsume", "nav"}
Repeating == {"spawn", "setmfact", "kill"}

ASSUME ModAssumption == DOMAIN ModOf \subseteq Key /\ ModKey \in Mods
ASSUME SymAssumption == \A k \in Key : DOMAIN Sym[k] = SUBSET Mods
ASSUME ActionAssumption == (Internal \cup {Forward, None}) \cap Action = {}
ASSUME NoneAssumption == None \notin App \cup Internal \cup {Forward}
ASSUME KeybindsAssumption ==
    \A i \in DOMAIN Keybinds : Keybinds[i].action \in Action /\ Keybinds[i].app \in App \cup {None}
ASSUME BuildAssumption == {RepeatOn, HasLock, HasSession} \subseteq BOOLEAN

VARIABLES
    down,          \* keys whose release the kernel will still report
    pressed,       \* KbdInternal::pressed_keys
    forwarded,     \* KbdInternal::forwarded_pressed_keys
    intercepted,   \* Rwl::intercepted_keys
    mode,          \* what decides where a key goes: locks, passthrough, overview, PiP
    repeat,        \* key_repeat_action; key_repeat_timer is set exactly with it
    tap,           \* Rwl::mod_tap: the modifiers so far, and whether 250 ms have passed
    paused,        \* the session is paused
    bypassed,      \* HISTORY: keys that went up without passing the filter's Released branch
    chord          \* HISTORY: ordinary keys pressed since the mod key went down

vars == <<down, pressed, forwarded, intercepted, mode, repeat, tap, paused, bypassed, chord>>

Mode == [native : BOOLEAN, locked : BOOLEAN, passthrough : BOOLEAN, overview : BOOLEAN,
         pip : BOOLEAN]
Tap == [mods : SUBSET Mods, fresh : BOOLEAN]

TypeOK ==
    /\ pressed \subseteq down /\ down \subseteq Key
    /\ forwarded \subseteq Key /\ intercepted \subseteq Key
    /\ mode \in Mode /\ (mode.native => mode.locked)
    /\ repeat \in Repeating \cup {None}
    /\ tap \in Tap \cup {None}
    /\ paused \in BOOLEAN
    /\ bypassed \subseteq Key /\ chord \subseteq Key

Init ==
    /\ down = {} /\ pressed = {} /\ forwarded = {} /\ intercepted = {}
    /\ mode = [native |-> FALSE, locked |-> FALSE, passthrough |-> FALSE,
               overview |-> FALSE, pip |-> FALSE]
    /\ repeat = None /\ tap = None /\ paused = FALSE
    /\ bypassed = {} /\ chord = {}

-----------------------------------------------------------------------------
(* Bindings *)

\* mods_to_bits(): the modifiers that a set of held keys makes
ModsOf(keys) == {ModOf[k] : k \in keys \cap DOMAIN ModOf}

\* keys.iter().find(), over records [sym, mods, app, action]
FirstBinding(sym, mods, owners, actions) ==
    LET hits == {i \in DOMAIN Keybinds :
                     /\ Keybinds[i].sym = sym /\ Keybinds[i].mods = mods
                     /\ Keybinds[i].app \in owners /\ Keybinds[i].action \in actions}
    IN  IF hits = {} THEN None
        ELSE Keybinds[CHOOSE i \in hits : \A j \in hits : i <= j].action

\* The four tries of match_keybind, in order: bindings of the focused app
\* before general ones, and for each the shifted symbol before the plain one
MatchKeybind(k, mods, apps, actions) ==
    LET Try(sym, owners) == FirstBinding(sym, mods, owners, actions)
        tries == <<Try(Sym[k][mods], apps), Try(Sym[k][{}], apps),
                   Try(Sym[k][mods], {None}), Try(Sym[k][{}], {None})>>
        found == {i \in 1 .. 4 : tries[i] # None}
    IN  IF found = {} THEN None ELSE tries[CHOOSE i \in found : \A j \in found : i <= j]

OrElse(a, default) == IF a = None THEN default ELSE a

\* The filter on a press, with the modifiers as the press leaves them: behind an
\* external lock, in the overview, and otherwise
OverviewPress(k, mods, apps) ==
    IF Sym[k][mods] \in Arrows THEN "nav"
    ELSE OrElse(MatchKeybind(k, mods, apps, Action), "nav")

BoundPress(k, mods, apps) ==
    IF mode.pip /\ Sym[k][mods] = Escape /\ mods = {} THEN "pip"
    ELSE OrElse(IF mode.passthrough THEN MatchKeybind(k, mods, {}, {"passthrough"})
                ELSE MatchKeybind(k, mods, apps, Action),
                Forward)

ClientPress(k, mods, apps) ==
    IF Sym[k][mods] = NoSymbol \/ mode.locked THEN Forward
    ELSE IF mode.overview THEN OverviewPress(k, mods, apps) ELSE BoundPress(k, mods, apps)

\* MUTANT of FilterPress: the native lock filters as an external one does
FilterPressExternal(k, mods, apps) == ClientPress(k, mods, apps)

FilterPress(k, mods, apps) ==
    IF mode.native THEN "lockconsume" ELSE ClientPress(k, mods, apps)

\* MUTANT of FilterRelease: intercepted_keys is never consulted
FilterReleaseForwards(k, mods) == IF mode.native THEN "lockconsume" ELSE Forward

\* The filter on a release
FilterRelease(k, mods) ==
    CASE mode.native -> "lockconsume"
      [] ~mode.native /\ Sym[k][mods] # NoSymbol /\ k \in intercepted -> "consumed"
      [] OTHER -> Forward

-----------------------------------------------------------------------------
(* dispatch() *)

\* An open overview gives way to any action but its own
OutOfOverview(m, a) ==
    IF a \in {"nav", "overview", "consumed"} THEN m ELSE [m EXCEPT !.overview = FALSE]

\* The modes an action may leave behind.  There may be nothing to show in the
\* overview or in PiP, and OpenBSD refuses to lock without a password helper
Dispatched(m, a) ==
    LET n == OutOfOverview(m, a)
    IN  CASE a = "kill" /\ m.overview -> {m}
          [] a = "lock" /\ HasLock /\ ~m.locked ->
                 {n, [n EXCEPT !.native = TRUE, !.locked = TRUE]}
          [] a = "passthrough" -> {[n EXCEPT !.passthrough = ~@]}
          [] a = "overview" /\ ~m.overview -> {n, [n EXCEPT !.overview = TRUE]}
          [] a = "pip" -> {n, [n EXCEPT !.pip = ~@]}
          [] OTHER -> {n}

\* A key the filter handed back to process_key_event as an action
AfterFilter(a) == IF a = Forward THEN {mode} ELSE Dispatched(mode, a)

-----------------------------------------------------------------------------
(* Key events *)

\* MUTANT of TapAfterPress: an ordinary key does not cancel the gesture
TapAfterPressKept(before, after) ==
    CASE after \subseteq before -> tap
      [] ModKey \in after \ before -> [mods |-> after, fresh |-> TRUE]
      [] OTHER -> IF tap = None THEN None ELSE [mods |-> tap.mods \cup after, fresh |-> TRUE]

\* update_mod_tap on a press
TapAfterPress(before, after) ==
    CASE after \subseteq before -> None
      [] ModKey \in after \ before -> [mods |-> after, fresh |-> TRUE]
      [] OTHER -> IF tap = None THEN None ELSE [mods |-> tap.mods \cup after, fresh |-> TRUE]

\* update_mod_tap on a release: the action bound to the modifiers alone
ModKeyReleased(before, after) == ModKey \in before \ after
TapFires(before, after) == ModKeyReleased(before, after) /\ tap # None /\ tap.fresh
TapAction == FirstBinding(NoSymbol, tap.mods, App \cup {None}, Action)

\* MUTANT of RepeatAfterRelease: the timer outlives the key
RepeatAfterReleaseKept == repeat

\* Any release, of whichever key, removes the timer
RepeatAfterRelease == None

\* apps: the app ids of bindings that the focused window's app id contains
Press(k, apps) ==
    /\ ~paused /\ k \notin down
    /\ down' = down \cup {k}
    /\ pressed' = pressed \cup {k}
    /\ LET a == FilterPress(k, ModsOf(pressed'), apps)
       IN  /\ mode' \in AfterFilter(a)
           /\ \/ /\ a = Forward
                 /\ forwarded' = forwarded \cup {k}
                 /\ UNCHANGED <<intercepted, repeat>>
              \/ /\ a # Forward
                 /\ intercepted' = intercepted \cup {k}
                 /\ repeat' = IF a \in Repeating /\ RepeatOn THEN a ELSE None
                 /\ UNCHANGED forwarded
    /\ tap' = TapAfterPress(ModsOf(pressed), ModsOf(pressed'))
    /\ chord' = IF ModKey \in ModsOf(pressed') \ ModsOf(pressed) THEN {}
                ELSE IF k \in DOMAIN ModOf THEN chord ELSE chord \cup {k}
    /\ UNCHANGED <<paused, bypassed>>

Release(k) ==
    /\ ~paused /\ k \in pressed
    /\ down' = down \ {k}
    /\ pressed' = pressed \ {k}
    /\ LET a == FilterRelease(k, ModsOf(pressed'))
           fires == TapFires(ModsOf(pressed), ModsOf(pressed')) /\ TapAction # None
       IN  /\ forwarded' = IF a = Forward THEN forwarded \ {k} ELSE forwarded
           /\ intercepted' = IF a = "consumed" THEN intercepted \ {k} ELSE intercepted
           /\ bypassed' = IF a = "lockconsume" \/ Sym[k][ModsOf(pressed')] = NoSymbol
                          THEN bypassed \cup {k} ELSE bypassed
           /\ \E m \in AfterFilter(a) :
                  mode' \in IF fires THEN Dispatched(m, TapAction) ELSE {m}
    /\ repeat' = RepeatAfterRelease
    /\ tap' = IF ModKeyReleased(ModsOf(pressed), ModsOf(pressed')) THEN None ELSE tap
    /\ UNCHANGED <<paused, chord>>

\* The seat no longer holds the key, so smithay absorbs its release
AbsorbedRelease(k) ==
    /\ ~paused /\ k \in down \ pressed
    /\ down' = down \ {k}
    /\ repeat' = RepeatAfterRelease
    /\ UNCHANGED <<pressed, forwarded, intercepted, mode, tap, paused, bypassed, chord>>

TapExpires ==
    /\ tap # None /\ tap.fresh
    /\ tap' = [tap EXCEPT !.fresh = FALSE]
    /\ UNCHANGED <<down, pressed, forwarded, intercepted, mode, repeat, paused, bypassed, chord>>

-----------------------------------------------------------------------------
(* Everything else that moves the same fields *)

keyVars == <<down, pressed, forwarded, intercepted, bypassed, chord>>

\* MUTANT of Perform: lock() leaves the timer alone
PerformRepeating(a) ==
    /\ mode' \in Dispatched(mode, a)
    /\ UNCHANGED <<keyVars, repeat, tap, paused>>

\* A repeat timer tick, or any action from the socket, a hook or the pointer.
\* Engaging the native lock cancels the repeat
Perform(a) ==
    /\ mode' \in Dispatched(mode, a)
    /\ repeat' = IF mode'.native /\ ~mode.native THEN None ELSE repeat
    /\ UNCHANGED <<keyVars, tap, paused>>

RepeatFires == repeat # None /\ Perform(repeat)
OutsideAction == \E a \in Action : Perform(a)

\* Auto-back has moved the view
AutoBack ==
    /\ repeat # None
    /\ repeat' = None
    /\ UNCHANGED <<keyVars, mode, tap, paused>>

\* The overview's animation ends or its last window goes; the PiP window goes
OverlayEnds ==
    /\ mode' \in {[mode EXCEPT !.overview = FALSE], [mode EXCEPT !.pip = FALSE]} \ {mode}
    /\ UNCHANGED <<keyVars, repeat, tap, paused>>

\* ext-session-lock-v1 clients; refused while the native lock is up
ExternalLock ==
    /\ ~mode.native
    /\ \E l \in BOOLEAN : mode' = [mode EXCEPT !.locked = l]
    /\ mode' # mode
    /\ UNCHANGED <<keyVars, repeat, tap, paused>>

\* Synthetic releases, forwarded past the filter, for every key the seat holds
ReleaseHeld ==
    /\ pressed' = {}
    /\ forwarded' = forwarded \ pressed
    /\ bypassed' = bypassed \cup pressed
    /\ UNCHANGED <<intercepted, chord>>

NativeUnlock ==
    /\ mode.native
    /\ mode' = [mode EXCEPT !.native = FALSE, !.locked = FALSE]
    /\ ReleaseHeld
    /\ UNCHANGED <<down, repeat, tap, paused>>

\* libinput is suspended: keys held now will never be reported released
PauseSession ==
    /\ HasSession /\ ~paused
    /\ paused' = TRUE
    /\ down' = {}
    /\ ReleaseHeld
    /\ UNCHANGED <<mode, repeat, tap>>

ActivateSession ==
    /\ paused
    /\ paused' = FALSE
    /\ UNCHANGED <<keyVars, mode, repeat, tap>>

\* ipc_resume(): releases in flight are lost while libinput is cycled
Resume ==
    /\ HasSession
    /\ \E kept \in SUBSET down : down' = kept
    /\ ReleaseHeld
    /\ UNCHANGED <<mode, repeat, tap, paused>>

KeyEvent ==
    \E k \in Key :
        Release(k) \/ AbsorbedRelease(k) \/ \E apps \in SUBSET App : Press(k, apps)

Next ==
    \/ KeyEvent \/ TapExpires
    \/ RepeatFires \/ OutsideAction \/ AutoBack \/ OverlayEnds
    \/ ExternalLock \/ NativeUnlock
    \/ PauseSession \/ ActivateSession \/ Resume

Spec == Init /\ [][Next]_vars

-----------------------------------------------------------------------------
(* Properties *)

\* A key whose releases all passed the filter belongs, while it is held, either
\* to the focused client or to the compositor, and once it is up to neither: no
\* client sees a release without its press or keeps a key down (intercepted_keys
\* in process_key_event against smithay's forwarded_pressed_keys).
KeysDivided ==
    \A k \in Key \ bypassed :
        /\ k \in pressed <=> k \in forwarded \cup intercepted
        /\ k \notin forwarded \cap intercepted

\* A held binding repeats only while a key that the compositor intercepted is
\* held, or was taken from it by a synthetic release (start_key_repeat: "until
\* the key is released").
RepeatHeld == repeat # None => intercepted \cap (pressed \cup bypassed) # {}

\* Nothing repeats behind the native lock (lock(): "a repeating action cannot
\* keep firing behind the lock").
NoRepeatBehindLock == mode.native => repeat = None

\* The mod-tap gesture is alive, with the mod key held, only if no ordinary key
\* was pressed since the mod key went down (update_mod_tap: "pressing any
\* non-modifier key cancels it").
TapClean == tap # None /\ ModKey \in ModsOf(pressed) => chord = {}

\* While the native lock is up no press is put where a client will see it, now
\* or when the keyboard returns to it (the filter swallows "every key").
LockHidesKeys == [][mode.native /\ mode'.native => forwarded' \subseteq forwarded]_vars

\* The keys that a client will be told are down when it next has the keyboard
\* are down (release_all_pressed_keys: without it "it treats the key as
\* stuck-down and repeats it forever").
NoStuckKey == ~mode.native => forwarded \subseteq pressed
=============================================================================

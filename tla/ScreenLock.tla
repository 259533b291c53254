----------------------------- MODULE ScreenLock -----------------------------
(***************************************************************************)
(* The two screen lockers and the Rwl fields they share: the native locker *)
(* (features/session/lock.rs), whose password check runs on a worker       *)
(* thread that answers over a channel, and the ext-session-lock-v1 clients *)
(* (handlers/session_lock.rs with smithay's wayland/session_lock).         *)
(* Handlers and timers run on the event loop; only the worker is a thread. *)
(*                                                                         *)
(* Drawing, the damage generation and auth_started are left out.  What the *)
(* locks do to the keyboard focus is in WindowManager.                     *)
(***************************************************************************)
EXTENDS Naturals, Sequences

CONSTANTS
    Char,          \* characters that can be typed
    Width,         \* their length in UTF-8 bytes
    PasswordCap,   \* PASSWORD_CAP
    Right,         \* the passwords that authenticate() accepts
    Client,        \* ext-session-lock-v1 clients
    Timer,         \* BOUND: registrations the event loop can hand to flash timers
    MaxTyped,      \* BOUND: longest buffer the user types
    None           \* Option::None

ASSUME WidthAssumption == Width \in [Char -> 1 .. 4]
ASSUME PasswordCapAssumption == PasswordCap \in Nat \ {0}
ASSUME RightAssumption == Right \subseteq Seq(Char)
ASSUME TimerAssumption == None \notin Timer
ASSUME MaxTypedAssumption == MaxTyped \in Nat

VARIABLES
    locked,        \* Rwl::locked
    native,        \* Rwl::native_lock.is_some()
    phase,         \* LockState::phase
    password,      \* LockState::password
    flashTimer,    \* LockState::flash_timer
    animTimer,     \* LockState::anim_timer.is_some()
    flashes,       \* flash timers registered in the event loop
    animations,    \* how many animation timers are registered in the event loop
    workers,       \* running authentications, and whether their channel is registered
    results,       \* answers waiting in the registered channel
    ext,           \* the lock object of each external client
    surfaces       \* clients with an entry in Rwl::lock_surfaces

nativeVars == <<phase, password, flashTimer, animTimer, flashes, animations, workers, results>>
extVars == <<ext, surfaces>>
vars == <<locked, native, nativeVars, extVars>>

Phase == {"Typing", "Authenticating", "Failed"}
Worker == [registered : BOOLEAN, password : Seq(Char)]

FlagTypes == locked \in BOOLEAN /\ native \in BOOLEAN /\ animTimer \in BOOLEAN
ListTypes == password \in Seq(Char) /\ results \in Seq(BOOLEAN)

TypeOK ==
    /\ FlagTypes /\ ListTypes
    /\ phase \in Phase
    /\ flashTimer \in Timer \cup {None}
    /\ flashes \subseteq Timer
    /\ animations \in Nat
    /\ workers \subseteq Worker
    /\ ext \in [Client -> {"none", "locked", "finished"}]
    /\ surfaces \subseteq Client

Init ==
    /\ locked = FALSE /\ native = FALSE
    /\ phase = "Typing" /\ password = <<>>
    /\ flashTimer = None /\ animTimer = FALSE
    /\ flashes = {} /\ animations = 0
    /\ workers = {} /\ results = <<>>
    /\ ext = [c \in Client |-> "none"]
    /\ surfaces = {}

-----------------------------------------------------------------------------
(***************************************************************************)
(* The native locker                                                       *)
(***************************************************************************)

\* The bytes of a string: String::len.
Bytes(s) ==
    LET sum[i \in 0 .. Len(s)] == IF i = 0 THEN 0 ELSE sum[i - 1] + Width[s[i]]
    IN  sum[Len(s)]

\* lock::lock: a fresh LockState with a channel of its own.
Lock ==
    /\ ~locked /\ ~native
    /\ locked' = TRUE /\ native' = TRUE
    /\ phase' = "Typing" /\ password' = <<>>
    /\ flashTimer' = None /\ animTimer' = FALSE
    /\ results' = <<>>
    /\ UNCHANGED <<flashes, animations, workers, extVars>>

\* LockState::push
Push ==
    /\ phase # "Authenticating" /\ Bytes(password) < PasswordCap
    /\ Len(password) < MaxTyped
    /\ \E c \in Char : password' = Append(password, c)
    /\ UNCHANGED <<phase, workers>>

\* LockState::backspace
Backspace ==
    /\ phase # "Authenticating" /\ password # <<>>
    /\ password' = SubSeq(password, 1, Len(password) - 1)
    /\ UNCHANGED <<phase, workers>>

\* LockState::clear
Clear ==
    /\ phase # "Authenticating"
    /\ password' = <<>>
    /\ UNCHANGED <<phase, workers>>

\* MUTANT of Submit: the phase is not advanced.
SubmitTyping ==
    /\ phase # "Authenticating" /\ password # <<>>
    /\ password' = <<>>
    /\ workers' = workers \cup {[registered |-> TRUE, password |-> password]}
    /\ UNCHANGED phase

\* LockState::submit: the buffer moves to the worker.
Submit ==
    /\ phase # "Authenticating" /\ password # <<>>
    /\ phase' = "Authenticating" /\ password' = <<>>
    /\ workers' = workers \cup {[registered |-> TRUE, password |-> password]}

\* MUTANT of FeedKey: an animation is registered for every check.
FeedKeyAnimates ==
    /\ native
    /\ Push \/ Backspace \/ Clear \/ Submit
    /\ LET starts == phase' = "Authenticating" /\ phase # "Authenticating"
       IN  /\ animTimer' = (animTimer \/ starts)
           /\ animations' = animations + (IF starts THEN 1 ELSE 0)
    /\ UNCHANGED <<locked, native, flashTimer, flashes, results, extVars>>

\* lock::feed_key: the key, and the animation a fresh check needs.
FeedKey ==
    /\ native
    /\ Push \/ Backspace \/ Clear \/ Submit
    /\ LET starts == phase' = "Authenticating" /\ ~animTimer
       IN  /\ animTimer' = (animTimer \/ starts)
           /\ animations' = animations + (IF starts THEN 1 ELSE 0)
    /\ UNCHANGED <<locked, native, flashTimer, flashes, results, extVars>>

\* The worker thread: authenticate(), then a send that fails on a dropped channel.
Authenticate ==
    /\ \E w \in workers :
         /\ workers' = workers \ {w}
         /\ results' = IF w.registered THEN Append(results, w.password \in Right) ELSE results
    /\ UNCHANGED <<locked, native, phase, password, flashTimer, animTimer, flashes, animations,
                   extVars>>

\* lock::unlock: the channel and the timers the LockState knows of are removed.
Unlock ==
    /\ native' = FALSE /\ locked' = FALSE
    /\ results' = <<>>
    /\ workers' = {[w EXCEPT !.registered = FALSE] : w \in workers}
    /\ flashes' = flashes \ {flashTimer}
    /\ animations' = animations - (IF animTimer THEN 1 ELSE 0)
    /\ flashTimer' = None /\ animTimer' = FALSE
    /\ password' = <<>> /\ phase' = "Typing"

\* MUTANT of Reject: the phase is left as it is.
RejectStill ==
    /\ password' = <<>>
    /\ \E t \in Timer \ flashes : flashTimer' = t /\ flashes' = flashes \cup {t}
    /\ results' = Tail(results)
    /\ UNCHANGED <<locked, native, phase, animTimer, animations, workers>>

\* A rejected attempt: a new one-shot timer replaces the token of any earlier one.
Reject ==
    /\ password' = <<>> /\ phase' = "Failed"
    /\ \E t \in Timer \ flashes : flashTimer' = t /\ flashes' = flashes \cup {t}
    /\ results' = Tail(results)
    /\ UNCHANGED <<locked, native, animTimer, animations, workers>>

\* lock::on_auth_result
AuthResult ==
    /\ native /\ results # <<>>
    /\ IF Head(results) THEN Unlock ELSE Reject
    /\ UNCHANGED extVars

\* MUTANT of FlashFires: only the timer on record resets the phase.
FlashFiresOnRecord(t) ==
    /\ t \in flashes
    /\ flashes' = flashes \ {t}
    /\ flashTimer' = None
    /\ phase' = IF native /\ phase = "Failed" /\ t = flashTimer THEN "Typing" ELSE phase
    /\ UNCHANGED <<locked, native, password, animTimer, animations, workers, results, extVars>>

\* The callback of a flash timer, of this lock session or of an earlier one.
FlashFires(t) ==
    /\ t \in flashes
    /\ flashes' = flashes \ {t}
    /\ flashTimer' = None
    /\ phase' = IF native /\ phase = "Failed" THEN "Typing" ELSE phase
    /\ UNCHANGED <<locked, native, password, animTimer, animations, workers, results, extVars>>

\* The callback of an animation timer that finds no check running.
AnimationStops ==
    /\ animations > 0 /\ ~(native /\ phase = "Authenticating")
    /\ animations' = animations - 1
    /\ animTimer' = FALSE
    /\ UNCHANGED <<locked, native, phase, password, flashTimer, flashes, workers, results, extVars>>

-----------------------------------------------------------------------------
(***************************************************************************)
(* External lockers                                                        *)
(***************************************************************************)

\* The lock request: refused while the native locker is up, confirmed otherwise.
ExtLock(c) ==
    /\ ext[c] = "none"
    /\ ext' = [ext EXCEPT ![c] = IF native THEN "finished" ELSE "locked"]
    /\ locked' = (locked \/ ~native)
    /\ UNCHANGED <<native, nativeVars, surfaces>>

\* get_lock_surface
ExtSurface(c) ==
    /\ ext[c] # "none"
    /\ surfaces' = IF native THEN surfaces ELSE surfaces \cup {c}
    /\ UNCHANGED <<locked, native, nativeVars, ext>>

\* MUTANT of ExtUnlock: unlock() does not look at native_lock.
ExtUnlockAlways(c) ==
    /\ ext[c] = "locked"
    /\ ext' = [ext EXCEPT ![c] = "none"]
    /\ locked' = FALSE
    /\ surfaces' = {}
    /\ UNCHANGED <<native, nativeVars>>

\* unlock_and_destroy by a client that was told it holds the lock.
ExtUnlock(c) ==
    /\ ext[c] = "locked"
    /\ ext' = [ext EXCEPT ![c] = "none"]
    /\ locked' = (locked /\ native)
    /\ surfaces' = IF native THEN surfaces ELSE {}
    /\ UNCHANGED <<native, nativeVars>>

\* A refused client destroys its lock, or a client goes away: rwl is not told.
ExtGone(c) ==
    /\ ext[c] # "none"
    /\ ext' = [ext EXCEPT ![c] = "none"]
    /\ UNCHANGED <<locked, native, nativeVars, surfaces>>

-----------------------------------------------------------------------------
Next ==
    \/ Lock \/ FeedKey \/ Authenticate \/ AuthResult \/ AnimationStops
    \/ \E t \in Timer : FlashFires(t)
    \/ \E c \in Client : ExtLock(c) \/ ExtSurface(c) \/ ExtUnlock(c) \/ ExtGone(c)

Spec == Init /\ [][Next]_vars

\* The event loop runs every timer that has expired and hands over every answer that
\* waits in the channel, and a password check comes to an end.  Nothing is asked of the
\* user or of the external clients.
Fairness ==
    /\ WF_vars(Authenticate) /\ WF_vars(AuthResult)
    /\ \A t \in Timer : WF_vars(FlashFires(t))

FairSpec == Spec /\ Fairness

-----------------------------------------------------------------------------
(***************************************************************************)
(* Properties                                                              *)
(***************************************************************************)

\* One check at a time: in the Authenticating phase either one worker runs or one answer
\* waits, and the password has left the LockState; in every other state of the program
\* (unlocked, typing, failed) there is no worker and no answer, so that on_auth_result
\* never judges an attempt of another phase or of another lock session.
InFlight ==
    IF native /\ phase = "Authenticating"
    THEN /\ password = <<>>
         /\ \/ results = <<>> /\ \E w \in workers : w.registered /\ workers = {w}
            \/ workers = {} /\ Len(results) = 1
    ELSE workers = {} /\ results = <<>>

\* One animation: the redraw timer runs while a check does, and resubmitting before the
\* timer of the check before has seen its end never leaves two of them, nor one that
\* anim_timer does not name and unlock() would not remove.
OneAnimation ==
    /\ animations = IF animTimer THEN 1 ELSE 0
    /\ native /\ phase = "Authenticating" => animTimer

\* A red bar is always on its way back: while the phase is Failed, the timer that
\* flash_timer names is registered in the event loop.
FlashPending == phase = "Failed" => flashTimer \in flashes

\* The timers the LockState has on record are the ones in the event loop, across checks,
\* rejections, unlocks and new locks in any order.
TimersNamed == OneAnimation /\ FlashPending

\* The session as SessionGuard sees it: `locked` is what the input and render paths ask,
\* and the verdict is that of the check under way.
Mode == IF ~locked THEN "open" ELSE IF native THEN "native" ELSE "ext"
Attempt ==
    IF phase # "Authenticating" THEN "none"
    ELSE IF \/ \E w \in workers : w.password \in Right
            \/ results # <<>> /\ Head(results)
         THEN "right" ELSE "wrong"

Guard == INSTANCE SessionGuard WITH mode <- Mode, attempt <- Attempt

\* The two lockers implement SessionGuard: the native lock is left only by an attempt that
\* authenticate() accepts, one is judged at a time, and no external client, confirmed or
\* refused, opens the session while the native lock is up.
ImplementsGuard == Guard!Spec

\* A check comes to an end and the red bar goes: the locker is not left in a phase that
\* refuses keys, nor in one that shows a failure for ever.
ChecksEnd == phase = "Authenticating" ~> phase # "Authenticating"
FailureFades == phase = "Failed" ~> phase # "Failed"
=============================================================================

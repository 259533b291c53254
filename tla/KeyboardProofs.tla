--------------------------- MODULE KeyboardProofs ---------------------------
(***************************************************************************)
(* Theorems about Keyboard, for every keyboard, every configuration of     *)
(* bindings and every build: the type invariant, and who owns a held key   *)
(* (KeysDivided), what keeps a binding repeating (RepeatHeld,              *)
(* NoRepeatBehindLock), when the mod-tap gesture is alive (TapClean) and   *)
(* what the native lock lets through (LockHidesKeys).                      *)
(***************************************************************************)
EXTENDS Keyboard, TLAPS

-----------------------------------------------------------------------------
(* Lemmas *)

\* Some keys make some modifiers, and fewer keys no others (mods_to_bits).
LEMMA ModsOfSubset ==
    ASSUME NEW A \in SUBSET Key, NEW B \in SUBSET A
    PROVE  ModsOf(A) \subseteq Mods /\ ModsOf(B) \subseteq ModsOf(A)
BY DEF ModsOf, Mods

\* Only the lock action engages the native lock, and no action of dispatch()
\* leaves the native lock without `locked`.
LEMMA DispatchedMode ==
    ASSUME NEW m \in Mode, m.native => m.locked, NEW a, NEW n \in Dispatched(m, a)
    PROVE  /\ n \in Mode /\ (n.native => n.locked)
           /\ n.native => m.native \/ a = "lock"
<1>1. OutOfOverview(m, a) \in Mode /\ OutOfOverview(m, a).native = m.native
      /\ OutOfOverview(m, a).locked = m.locked
  BY DEF OutOfOverview, Mode
<1> DEFINE o == OutOfOverview(m, a)
<1>2. \/ n \in {m, o, [o EXCEPT !.passthrough = ~@], [o EXCEPT !.overview = TRUE],
                [o EXCEPT !.pip = ~@]}
      \/ a = "lock" /\ n = [o EXCEPT !.native = TRUE, !.locked = TRUE]
  BY DEF Dispatched
<1> HIDE DEF o
<1>3. o \in Mode /\ o.native = m.native /\ o.locked = m.locked
  BY <1>1 DEF o
<1>4. CASE n \in {m, o}
  BY <1>3, <1>4
<1>5. CASE n \in {[o EXCEPT !.passthrough = ~@], [o EXCEPT !.overview = TRUE],
                  [o EXCEPT !.pip = ~@]}
  BY <1>3, <1>5 DEF Mode
<1>6. CASE a = "lock" /\ n = [o EXCEPT !.native = TRUE, !.locked = TRUE]
  BY <1>3, <1>6 DEF Mode
<1> QED
  BY <1>2, <1>4, <1>5, <1>6

\* A key that the filter forwards changes no mode.
LEMMA FilteredMode ==
    ASSUME TypeOK, NEW a, NEW n \in AfterFilter(a)
    PROVE  /\ n \in Mode /\ (n.native => n.locked)
           /\ a = Forward => n = mode
           /\ n.native => mode.native \/ a = "lock"
<1>1. CASE a = Forward
  BY <1>1 DEF AfterFilter, TypeOK
<1>2. CASE a # Forward
  BY <1>2, DispatchedMode DEF AfterFilter, TypeOK
<1> QED
  BY <1>1, <1>2

\* A release's two dispatches, of the filter's action and of the gesture's.
LEMMA ReleaseMode ==
    ASSUME TypeOK, NEW k, Release(k)
    PROVE  mode' \in Mode /\ (mode'.native => mode'.locked)
<1> DEFINE a == FilterRelease(k, ModsOf(pressed'))
           fires == TapFires(ModsOf(pressed), ModsOf(pressed')) /\ TapAction # None
<1>1. PICK m \in AfterFilter(a) : mode' \in IF fires THEN Dispatched(m, TapAction) ELSE {m}
  BY DEF Release
<1>2. m \in Mode /\ (m.native => m.locked)
  BY FilteredMode
<1> HIDE DEF a, fires
<1>3. CASE fires
  BY <1>1, <1>2, <1>3, DispatchedMode
<1>4. CASE ~fires
  BY <1>1, <1>2, <1>4
<1> QED
  BY <1>3, <1>4

-----------------------------------------------------------------------------
(* The invariant, action by action *)

IInv == TypeOK /\ KeysDivided /\ RepeatHeld /\ NoRepeatBehindLock /\ TapClean

LEMMA InitInv == Init => IInv
<1> SUFFICES ASSUME Init PROVE IInv
  OBVIOUS
<1>1. mode \in Mode /\ ~mode.native
  BY DEF Init, Mode
<1>2. TypeOK
  BY <1>1 DEF Init, TypeOK
<1>3. KeysDivided /\ RepeatHeld /\ NoRepeatBehindLock /\ TapClean
  BY DEF Init, KeysDivided, RepeatHeld, NoRepeatBehindLock, TapClean
<1> QED
  BY <1>2, <1>3 DEF IInv

\* The modifiers of a press (update_mod_tap): the state of the gesture is one.
LEMMA TapType ==
    ASSUME TypeOK, NEW A \in SUBSET Key, NEW B \in SUBSET Key
    PROVE  TapAfterPress(ModsOf(A), ModsOf(B)) \in Tap \cup {None}
<1>1. ModsOf(B) \in SUBSET Mods
  BY ModsOfSubset
<1>2. [mods |-> ModsOf(B), fresh |-> TRUE] \in Tap
  BY <1>1 DEF Tap
<1>3. ASSUME tap # None
      PROVE  [mods |-> tap.mods \cup ModsOf(B), fresh |-> TRUE] \in Tap
  BY <1>1, <1>3 DEF Tap, TypeOK
<1> QED
  BY <1>2, <1>3 DEF TapAfterPress

\* A press of a key that is up (process_key_event).
LEMMA PressInv ==
    ASSUME IInv, NEW k \in Key, NEW apps, Press(k, apps)
    PROVE  IInv'
<1> DEFINE a == FilterPress(k, ModsOf(pressed'), apps)
<1> USE DEF IInv
<1>1. /\ ~paused /\ k \notin down /\ down' = down \cup {k} /\ pressed' = pressed \cup {k}
      /\ mode' \in AfterFilter(a)
      /\ \/ a = Forward /\ forwarded' = forwarded \cup {k} /\ UNCHANGED <<intercepted, repeat>>
         \/ /\ a # Forward /\ intercepted' = intercepted \cup {k} /\ UNCHANGED forwarded
            /\ repeat' = IF a \in Repeating /\ RepeatOn THEN a ELSE None
      /\ UNCHANGED <<paused, bypassed>>
  BY DEF Press
<1>2. tap' = TapAfterPress(ModsOf(pressed), ModsOf(pressed'))
  BY DEF Press
<1>3. chord' = IF ModKey \in ModsOf(pressed') \ ModsOf(pressed) THEN {}
               ELSE IF k \in DOMAIN ModOf THEN chord ELSE chord \cup {k}
  BY DEF Press
<1>4. mode.native => a = "lockconsume"
  BY DEF FilterPress
<1> HIDE DEF a
<1>5. /\ mode' \in Mode /\ (mode'.native => mode'.locked)
      /\ a = Forward => mode' = mode
      /\ mode'.native => mode.native \/ a = "lock"
  BY <1>1, FilteredMode
<1>6. TypeOK'
  <2>1. tap' \in Tap \cup {None}
    BY <1>1, <1>2, TapType DEF TypeOK
  <2>2. repeat' \in Repeating \cup {None}
    BY <1>1 DEF TypeOK
  <2>3. chord' \subseteq Key
    BY <1>3 DEF TypeOK
  <2>4. /\ pressed' \subseteq down' /\ down' \subseteq Key /\ bypassed' \subseteq Key
        /\ forwarded' \subseteq Key /\ intercepted' \subseteq Key /\ paused' \in BOOLEAN
    BY <1>1 DEF TypeOK
  <2> QED
    BY <1>5, <2>1, <2>2, <2>3, <2>4 DEF TypeOK
<1>7. KeysDivided'
  BY <1>1 DEF KeysDivided, TypeOK
<1>8. RepeatHeld'
  BY <1>1 DEF RepeatHeld
<1>9. NoRepeatBehindLock'
  <2>1. CASE a = Forward
    BY <1>1, <1>5, <2>1 DEF NoRepeatBehindLock
  <2>2. CASE a # Forward
    BY <1>1, <1>4, <1>5, <2>2 DEF NoRepeatBehindLock, Repeating
  <2> QED
    BY <2>1, <2>2
<1>10. TapClean'
  <2>1. pressed \subseteq Key /\ pressed' \subseteq Key
    BY <1>1 DEF TypeOK
  <2>2. SUFFICES ASSUME tap' # None, ModKey \in ModsOf(pressed')
                 PROVE  chord' = {}
    BY DEF TapClean, ModsOf
  <2>3. CASE ModKey \in ModsOf(pressed') \ ModsOf(pressed)
    BY <1>3, <2>3
  <2>4. CASE ModKey \in ModsOf(pressed)
    <3>1. ~(ModsOf(pressed') \subseteq ModsOf(pressed)) /\ tap # None
      BY <1>2, <2>2, <2>4 DEF TapAfterPress
    <3>2. k \in DOMAIN ModOf
      BY <1>1, <3>1 DEF ModsOf
    <3> QED
      BY <1>3, <2>4, <3>1, <3>2 DEF TapClean
  <2> QED
    BY <2>2, <2>3, <2>4
<1> QED
  BY <1>6, <1>7, <1>8, <1>9, <1>10

\* A release that the seat acts on (process_key_event, update_mod_tap).
LEMMA ReleaseInv ==
    ASSUME IInv, NEW k \in Key, Release(k)
    PROVE  IInv'
<1> USE DEF IInv
<1> DEFINE a == FilterRelease(k, ModsOf(pressed'))
<1>1. /\ k \in pressed /\ down' = down \ {k} /\ pressed' = pressed \ {k}
      /\ forwarded' = IF a = Forward THEN forwarded \ {k} ELSE forwarded
      /\ intercepted' = IF a = "consumed" THEN intercepted \ {k} ELSE intercepted
      /\ bypassed' = IF a = "lockconsume" \/ Sym[k][ModsOf(pressed')] = NoSymbol
                     THEN bypassed \cup {k} ELSE bypassed
      /\ repeat' = None /\ UNCHANGED <<paused, chord>>
      /\ tap' = None \/ tap' = tap
  BY DEF Release, RepeatAfterRelease
<1>2. /\ a \in {"lockconsume", "consumed", Forward}
      /\ a = "consumed" => k \in intercepted
      /\ a = Forward => k \notin intercepted \/ Sym[k][ModsOf(pressed')] = NoSymbol
  BY DEF FilterRelease, Forward
<1> HIDE DEF a
<1>3. mode' \in Mode /\ (mode'.native => mode'.locked)
  BY ReleaseMode
<1>4. TypeOK'
  BY <1>1, <1>3 DEF TypeOK
<1>5. KeysDivided'
  BY <1>1, <1>2 DEF KeysDivided, Forward
<1>6. RepeatHeld' /\ NoRepeatBehindLock'
  BY <1>1 DEF RepeatHeld, NoRepeatBehindLock
<1>7. TapClean'
  <2>1. pressed \subseteq Key
    BY DEF TypeOK
  <2>2. ModsOf(pressed') \subseteq ModsOf(pressed)
    BY <1>1, <2>1, ModsOfSubset
  <2>3. SUFFICES ASSUME tap' # None, ModKey \in ModsOf(pressed')
                 PROVE  chord' = {}
    BY DEF TapClean, ModsOf
  <2> QED
    BY <1>1, <2>2, <2>3 DEF TapClean
<1> QED
  BY <1>4, <1>5, <1>6, <1>7

\* A release of a key that the seat does not hold, and the gesture's time limit.
LEMMA SmallStepsInv ==
    ASSUME IInv, TapExpires \/ \E k \in Key : AbsorbedRelease(k)
    PROVE  IInv'
<1> USE DEF IInv
<1>1. CASE TapExpires
  <2>1. /\ tap \in Tap /\ tap' = [tap EXCEPT !.fresh = FALSE]
        /\ UNCHANGED <<down, pressed, forwarded, intercepted, mode, repeat, paused, bypassed, chord>>
    BY <1>1 DEF TapExpires, TypeOK
  <2>2. tap' \in Tap
    BY <2>1 DEF Tap
  <2>3. TypeOK'
    BY <2>1, <2>2 DEF TypeOK
  <2>4. KeysDivided' /\ RepeatHeld' /\ NoRepeatBehindLock'
    BY <2>1 DEF KeysDivided, RepeatHeld, NoRepeatBehindLock
  <2>5. TapClean'
    BY <1>1, <2>1 DEF TapClean, TapExpires, ModsOf
  <2> QED
    BY <2>3, <2>4, <2>5
<1>2. ASSUME NEW k \in Key, AbsorbedRelease(k)
      PROVE  IInv'
  <2>1. /\ k \notin pressed /\ down' = down \ {k} /\ repeat' = None
        /\ UNCHANGED <<pressed, forwarded, intercepted, mode, tap, paused, bypassed, chord>>
    BY <1>2 DEF AbsorbedRelease, RepeatAfterRelease
  <2>2. TypeOK'
    BY <2>1 DEF TypeOK
  <2>3. KeysDivided' /\ RepeatHeld' /\ NoRepeatBehindLock'
    BY <2>1 DEF KeysDivided, RepeatHeld, NoRepeatBehindLock
  <2>4. TapClean'
    BY <2>1 DEF TapClean, ModsOf
  <2> QED
    BY <2>2, <2>3, <2>4
<1> QED
  BY <1>1, <1>2

\* Actions, locks and overlays that no key event brings about: the keys stay.
LEMMA ModeStepsInv ==
    ASSUME IInv,
           \/ RepeatFires \/ OutsideAction \/ AutoBack
           \/ OverlayEnds \/ ExternalLock \/ ActivateSession
    PROVE  IInv'
<1> USE DEF IInv
<1>1. UNCHANGED <<keyVars, tap>> /\ paused' \in BOOLEAN
  BY DEF RepeatFires, OutsideAction, Perform, AutoBack, OverlayEnds, ExternalLock,
         ActivateSession, TypeOK
<1>2. /\ mode' \in Mode /\ (mode'.native => mode'.locked)
      /\ repeat' \in {repeat, None} /\ (mode'.native => repeat' = None)
  <2>1. ASSUME NEW a, Perform(a)
        PROVE  <1>2
    <3>1. mode \in Mode /\ (mode.native => mode.locked)
      BY DEF TypeOK
    <3>2. mode' \in Mode /\ (mode'.native => mode'.locked)
      BY <2>1, <3>1, DispatchedMode DEF Perform
    <3> QED
      BY <2>1, <3>2 DEF Perform, NoRepeatBehindLock
  <2>2. CASE AutoBack
    BY <2>2 DEF AutoBack, TypeOK
  <2>3. CASE OverlayEnds
    BY <2>3 DEF OverlayEnds, TypeOK, Mode, NoRepeatBehindLock
  <2>4. CASE ExternalLock
    BY <2>4 DEF ExternalLock, TypeOK, Mode, NoRepeatBehindLock
  <2>5. CASE ActivateSession
    BY <2>5 DEF ActivateSession, TypeOK, NoRepeatBehindLock
  <2> QED
    BY <2>1, <2>2, <2>3, <2>4, <2>5 DEF RepeatFires, OutsideAction
<1>3. TypeOK'
  BY <1>1, <1>2 DEF TypeOK, keyVars
<1>4. KeysDivided'
  BY <1>1 DEF KeysDivided, keyVars
<1>5. RepeatHeld' /\ NoRepeatBehindLock'
  BY <1>1, <1>2 DEF RepeatHeld, NoRepeatBehindLock, keyVars
<1>6. TapClean'
  BY <1>1 DEF TapClean, ModsOf, keyVars
<1> QED
  BY <1>3, <1>4, <1>5, <1>6

\* Unlocking, a pause of the session and `rwl msg resume`: the held keys are
\* released behind the filter's back.
LEMMA HeldReleasedInv ==
    ASSUME IInv, NativeUnlock \/ PauseSession \/ Resume
    PROVE  IInv'
<1> USE DEF IInv
<1>1. /\ pressed' = {} /\ forwarded' = forwarded \ pressed
      /\ bypassed' = bypassed \cup pressed /\ UNCHANGED <<intercepted, chord, repeat, tap>>
      /\ down' \in SUBSET down /\ paused' \in BOOLEAN
  BY DEF NativeUnlock, PauseSession, Resume, ReleaseHeld, TypeOK
<1>2. /\ mode' \in Mode /\ (mode'.native => mode'.locked)
      /\ mode'.native => mode.native
  BY DEF NativeUnlock, PauseSession, Resume, TypeOK, Mode
<1>3. TypeOK'
  BY <1>1, <1>2 DEF TypeOK
<1>4. KeysDivided'
  BY <1>1 DEF KeysDivided
<1>5. RepeatHeld' /\ NoRepeatBehindLock'
  BY <1>1, <1>2 DEF RepeatHeld, NoRepeatBehindLock
<1>6. TapClean'
  BY <1>1 DEF TapClean, ModsOf
<1> QED
  BY <1>3, <1>4, <1>5, <1>6

LEMMA NextInv == IInv /\ [Next]_vars => IInv'
<1> SUFFICES ASSUME IInv, [Next]_vars PROVE IInv'
  OBVIOUS
<1>1. CASE KeyEvent
  BY <1>1, PressInv, ReleaseInv, SmallStepsInv DEF KeyEvent
<1>2. CASE TapExpires
  BY <1>2, SmallStepsInv
<1>3. CASE RepeatFires \/ OutsideAction \/ AutoBack \/ OverlayEnds \/ ExternalLock \/ ActivateSession
  BY <1>3, ModeStepsInv
<1>4. CASE NativeUnlock \/ PauseSession \/ Resume
  BY <1>4, HeldReleasedInv
<1>5. CASE UNCHANGED vars
  BY <1>5 DEF vars, IInv, TypeOK, KeysDivided, RepeatHeld, NoRepeatBehindLock, TapClean, ModsOf
<1> QED
  BY <1>1, <1>2, <1>3, <1>4, <1>5 DEF Next

-----------------------------------------------------------------------------
(* Theorems *)

\* Every field keeps its type, the seat holds only keys that are physically down,
\* and the native lock is up only in a locked session.
THEOREM TypeCorrect == Spec => []TypeOK
<1>1. IInv => TypeOK
  BY DEF IInv
<1> QED
  BY InitInv, NextInv, <1>1, PTL DEF Spec

\* A held key is the client's or the compositor's, never both, and a key that is
\* up is neither's, unless a release of it went past the filter.
THEOREM HeldKeysDivided == Spec => []KeysDivided
<1>1. IInv => KeysDivided
  BY DEF IInv
<1> QED
  BY InitInv, NextInv, <1>1, PTL DEF Spec

\* A binding repeats only for a key that was taken from the clients.
THEOREM RepeatBounded == Spec => []RepeatHeld
<1>1. IInv => RepeatHeld
  BY DEF IInv
<1> QED
  BY InitInv, NextInv, <1>1, PTL DEF Spec

\* No binding goes on repeating once the native lock is up.
THEOREM RepeatEndsAtLock == Spec => []NoRepeatBehindLock
<1>1. IInv => NoRepeatBehindLock
  BY DEF IInv
<1> QED
  BY InitInv, NextInv, <1>1, PTL DEF Spec

\* The mod-tap gesture is a chord of modifiers alone.
THEOREM TapOfModifiers == Spec => []TapClean
<1>1. IInv => TapClean
  BY DEF IInv
<1> QED
  BY InitInv, NextInv, <1>1, PTL DEF Spec

\* No press under the native lock is recorded as the client's.
THEOREM LockedKeysHidden == Spec => LockHidesKeys
<1>1. Next => (mode.native => forwarded' \subseteq forwarded)
  <2> SUFFICES ASSUME Next, mode.native
               PROVE  forwarded' \subseteq forwarded
    OBVIOUS
  <2>1. ASSUME NEW k, NEW apps, Press(k, apps)
        PROVE  forwarded' \subseteq forwarded
    <3>1. FilterPress(k, ModsOf(pressed'), apps) # Forward
      BY DEF FilterPress, Forward
    <3> QED
      BY <2>1, <3>1 DEF Press
  <2>2. ASSUME NEW k, Release(k) \/ AbsorbedRelease(k)
        PROVE  forwarded' \subseteq forwarded
    BY <2>2 DEF Release, AbsorbedRelease
  <2>3. CASE TapExpires \/ RepeatFires \/ OutsideAction \/ AutoBack \/ OverlayEnds
             \/ ExternalLock \/ ActivateSession
    BY <2>3 DEF TapExpires, RepeatFires, OutsideAction, Perform, AutoBack, OverlayEnds,
                ExternalLock, ActivateSession, keyVars
  <2>4. CASE NativeUnlock \/ PauseSession \/ Resume
    BY <2>4 DEF NativeUnlock, PauseSession, Resume, ReleaseHeld
  <2> QED
    BY <2>1, <2>2, <2>3, <2>4 DEF Next, KeyEvent
<1>2. [Next]_vars => [mode.native /\ mode'.native => forwarded' \subseteq forwarded]_vars
  BY <1>1
<1> QED
  BY <1>2, PTL DEF Spec, LockHidesKeys
=============================================================================

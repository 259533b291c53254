-------------------------- MODULE ScreenLockProofs --------------------------
(***************************************************************************)
(* The safety of ScreenLock for any characters, capacity, passwords,       *)
(* clients and timers, and the step simulation that makes it implement     *)
(* SessionGuard.  One inductive invariant serves both: the invariants the  *)
(* runs check are not inductive each by itself, because what unlock() and  *)
(* on_auth_result() may assume of the worker and of the timers is spread   *)
(* over all of them.                                                       *)
(***************************************************************************)
EXTENDS ScreenLock, SequenceTheorems, TLAPS

\* What a session without native lock has left of it, and what a native lock implies.
Owned ==
    /\ native => locked
    /\ ~native => phase = "Typing" /\ ~animTimer

IInv == TypeOK /\ InFlight /\ OneAnimation /\ FlashPending /\ Owned

\* The fresh Rwl satisfies the invariant.
LEMMA InitIInv == Init => IInv
<1> SUFFICES ASSUME Init PROVE IInv
  OBVIOUS
<1>1. FlagTypes /\ native = FALSE /\ locked = FALSE
  BY DEF Init, FlagTypes
<1>2. ListTypes
  BY DEF Init, ListTypes
<1>3. TypeOK
  BY <1>1, <1>2 DEF Init, TypeOK, Phase
<1>4. InFlight /\ OneAnimation /\ FlashPending /\ Owned
  BY <1>1 DEF Init, InFlight, OneAnimation, FlashPending, Owned
<1> QED
  BY <1>3, <1>4 DEF IInv

\* A buffer stays a sequence of characters under push and pop.
LEMMA BufferEdits ==
    ASSUME NEW s \in Seq(Char), NEW c \in Char
    PROVE  /\ Append(s, c) \in Seq(Char)
           /\ s # <<>> => SubSeq(s, 1, Len(s) - 1) \in Seq(Char)
OBVIOUS

\* lock() starts from a session nobody holds.
LEMMA LockKeeps == IInv /\ Lock => IInv'
<1> SUFFICES ASSUME IInv, Lock PROVE IInv'
  OBVIOUS
<1> USE DEF IInv, TypeOK, Lock, extVars
<1>1. FlagTypes'
  BY DEF FlagTypes
<1>2. ListTypes'
  BY DEF ListTypes
<1>3. TypeOK'
  BY <1>1, <1>2 DEF Phase
<1>4. InFlight'
  BY DEF InFlight
<1>5. OneAnimation' /\ FlashPending' /\ Owned'
  BY DEF FlagTypes, OneAnimation, FlashPending, Owned
<1> QED
  BY <1>3, <1>4, <1>5

\* A key in the locker: edits leave the check alone, submit starts the only one.
LEMMA FeedKeyKeeps == IInv /\ FeedKey => IInv'
<1> SUFFICES ASSUME IInv, FeedKey PROVE IInv'
  OBVIOUS
<1> USE DEF IInv, TypeOK, extVars
<1>1. CASE phase # "Authenticating" /\ phase' = phase /\ workers' = workers
           /\ password' \in Seq(Char)
  <2>1. /\ UNCHANGED <<locked, native, flashTimer, animTimer, animations, flashes, results>>
        /\ UNCHANGED <<ext, surfaces>>
    BY <1>1 DEF FeedKey, FlagTypes, OneAnimation
  <2>2. FlagTypes'
    BY <2>1 DEF FlagTypes
  <2>3. ListTypes'
    BY <1>1, <2>1 DEF ListTypes
  <2>4. TypeOK'
    BY <1>1, <2>1, <2>2, <2>3 DEF Phase
  <2>5. InFlight'
    BY <1>1, <2>1 DEF InFlight
  <2>6. OneAnimation' /\ FlashPending' /\ Owned'
    BY <1>1, <2>1 DEF OneAnimation, FlashPending, Owned
  <2> QED
    BY <2>4, <2>5, <2>6
<1>2. CASE Submit
  <2> DEFINE w == [registered |-> TRUE, password |-> password]
  <2>1. native /\ phase # "Authenticating" /\ workers = {} /\ results = <<>>
    BY <1>2 DEF FeedKey, Submit, InFlight
  <2>2. workers' = {w} /\ w \in Worker /\ w.registered
    BY <1>2, <2>1 DEF Submit, Worker, ListTypes
  <2> HIDE DEF w
  <2>3. FlagTypes'
    BY <1>2 DEF FlagTypes, FeedKey, Submit
  <2>4. ListTypes'
    BY <1>2 DEF ListTypes, FeedKey, Submit
  <2>5. TypeOK'
    BY <1>2, <2>2, <2>3, <2>4 DEF FeedKey, Submit, Phase
  <2>6. InFlight'
    BY <1>2, <2>1, <2>2 DEF FeedKey, Submit, InFlight
  <2>7. animTimer' /\ animations' = 1
    <3>1. animTimer'
      BY <1>2, Zenon DEF FeedKey, Submit
    <3>2. animations' = animations + (IF ~animTimer THEN 1 ELSE 0)
      BY <1>2 DEF FeedKey, Submit
    <3>3. animations = IF animTimer THEN 1 ELSE 0
      BY DEF OneAnimation
    <3> QED
      BY <3>1, <3>2, <3>3
  <2>8. OneAnimation' /\ Owned'
    BY <1>2, <2>1, <2>7 DEF FeedKey, Submit, OneAnimation, Owned
  <2>9. FlashPending'
    BY <1>2 DEF Submit, FlashPending
  <2> QED
    BY <2>5, <2>6, <2>8, <2>9
<1>3. CASE Push \/ Backspace \/ Clear
  <2>1. phase # "Authenticating" /\ phase' = phase /\ workers' = workers
    BY <1>3 DEF Push, Backspace, Clear
  <2>2. password' \in Seq(Char)
    <3>1. password \in Seq(Char)
      BY DEF ListTypes
    <3>2. CASE Push
      BY <3>1, <3>2, BufferEdits DEF Push
    <3>3. CASE Backspace
      BY <3>1, <3>3, BufferEdits DEF Backspace
    <3>4. CASE Clear
      BY <3>4, EmptySeq DEF Clear
    <3> QED
      BY <1>3, <3>2, <3>3, <3>4
  <2> QED
    BY <1>1, <2>1, <2>2
<1> QED
  BY <1>2, <1>3 DEF FeedKey

\* The worker that answers is the one of the Authenticating phase, and its answer is the
\* only one in the channel.
LEMMA WorkerAnswers ==
    ASSUME IInv, NEW w \in workers
    PROVE  /\ native /\ phase = "Authenticating" /\ password = <<>>
           /\ workers = {w} /\ w.registered /\ results = <<>>
BY DEF IInv, InFlight

\* A channel with one answer.
LEMMA OnlyElement ==
    ASSUME NEW e
    PROVE  <<e>> # <<>> /\ Head(<<e>>) = e
OBVIOUS

\* The answer of authenticate() is a boolean.
LEMMA Verdict ==
    ASSUME NEW x, NEW S
    PROVE  <<x \in S>> \in Seq(BOOLEAN)
OBVIOUS

\* The worker ends: its answer takes its place.
LEMMA AuthenticateKeeps == IInv /\ Authenticate => IInv'
<1> SUFFICES ASSUME IInv, NEW w \in workers,
                    workers' = workers \ {w},
                    results' = IF w.registered THEN Append(results, w.password \in Right)
                                               ELSE results,
                    UNCHANGED <<locked, native, phase, password, flashTimer, animTimer,
                                flashes, animations, extVars>>
             PROVE  IInv'
  BY DEF Authenticate
<1> USE DEF IInv, TypeOK, extVars
<1>1. /\ native /\ phase = "Authenticating" /\ password = <<>>
      /\ workers = {w} /\ w.registered /\ results = <<>>
  BY WorkerAnswers
<1>2. workers' = {} /\ results' = <<w.password \in Right>>
  BY <1>1
<1>3. FlagTypes'
  BY DEF FlagTypes
<1>4. ListTypes'
  <2>1. password' \in Seq(Char)
    BY DEF ListTypes
  <2>2. results' \in Seq(BOOLEAN)
    <3> DEFINE pw == w.password
    <3>1. results' = <<pw \in Right>>
      BY <1>2
    <3>2. <<pw \in Right>> \in Seq(BOOLEAN)
      <4> HIDE DEF pw
      <4> QED
        BY Verdict
    <3> HIDE DEF pw
    <3> QED
      BY <3>1, <3>2, Zenon
  <2> QED
    BY <2>1, <2>2 DEF ListTypes
<1>5. TypeOK'
  BY <1>2, <1>3, <1>4 DEF Phase
<1>6. InFlight'
  BY <1>1, <1>2 DEF InFlight
<1>7. OneAnimation' /\ FlashPending' /\ Owned'
  BY DEF OneAnimation, FlashPending, Owned
<1> QED
  BY <1>5, <1>6, <1>7

\* An answer finds the phase that asked for it, and no worker.
LEMMA AnswerIsAwaited ==
    ASSUME IInv, results # <<>>
    PROVE  /\ native /\ phase = "Authenticating" /\ password = <<>>
           /\ workers = {} /\ Len(results) = 1
           /\ animTimer /\ animations = 1
BY DEF IInv, InFlight, OneAnimation

LEMMA OnlyAnswer ==
    ASSUME IInv, results # <<>>
    PROVE  Head(results) \in BOOLEAN /\ Tail(results) = <<>>
<1>1. results \in Seq(BOOLEAN)
  BY DEF IInv, TypeOK, ListTypes
<1>2. Tail(results) \in Seq(BOOLEAN) /\ Len(Tail(results)) = 0
  BY <1>1, AnswerIsAwaited
<1>3. Head(results) \in BOOLEAN
  BY <1>1
<1>4. Tail(results) = <<>>
  BY <1>2, EmptySeq
<1> QED
  BY <1>3, <1>4

LEMMA AuthResultKeeps == IInv /\ AuthResult => IInv'
<1> SUFFICES ASSUME IInv, AuthResult PROVE IInv'
  OBVIOUS
<1> USE DEF IInv, TypeOK, extVars
<1>1. /\ native /\ phase = "Authenticating" /\ password = <<>>
      /\ workers = {} /\ Len(results) = 1 /\ animTimer /\ animations = 1
  BY AnswerIsAwaited DEF AuthResult
<1>2. Tail(results) = <<>>
  BY OnlyAnswer DEF AuthResult
<1>3. CASE Unlock
  <2>1. FlagTypes'
    BY <1>3 DEF Unlock, FlagTypes
  <2>2. ListTypes'
    BY <1>3 DEF Unlock, ListTypes
  <2>3. TypeOK'
    <3>1. workers' = {} /\ animations' = 0
      BY <1>1, <1>3 DEF Unlock
    <3>2. flashes' \subseteq Timer /\ flashTimer' = None /\ phase' \in Phase
      BY <1>3 DEF Unlock, Phase
    <3> QED
      BY <2>1, <2>2, <3>1, <3>2 DEF AuthResult
  <2>4. InFlight'
    BY <1>1, <1>3 DEF Unlock, InFlight
  <2>5. OneAnimation' /\ FlashPending' /\ Owned'
    BY <1>1, <1>3 DEF Unlock, OneAnimation, FlashPending, Owned
  <2> QED
    BY <2>3, <2>4, <2>5
<1>4. CASE Reject
  <2>1. FlagTypes'
    BY <1>4 DEF Reject, FlagTypes
  <2>2. ListTypes'
    <3>1. password' = <<>> /\ results' = <<>>
      BY <1>2, <1>4 DEF Reject
    <3> QED
      BY <3>1, EmptySeq DEF ListTypes
  <2>3. TypeOK'
    <3>1. UNCHANGED <<workers, animations>>
      BY <1>4 DEF Reject
    <3>2. flashes' \subseteq Timer /\ flashTimer' \in Timer /\ phase' \in Phase
      BY <1>4 DEF Reject, Phase
    <3> QED
      BY <2>1, <2>2, <3>1, <3>2 DEF AuthResult
  <2>4. InFlight'
    BY <1>1, <1>2, <1>4 DEF Reject, InFlight
  <2>5. OneAnimation' /\ FlashPending' /\ Owned'
    BY <1>1, <1>4 DEF Reject, OneAnimation, FlashPending, Owned
  <2> QED
    BY <2>3, <2>4, <2>5
<1> QED
  BY <1>3, <1>4 DEF AuthResult

\* A timer of this session or of an earlier one.
LEMMA FlashFiresKeeps ==
    ASSUME IInv, NEW t \in Timer, FlashFires(t)
    PROVE  IInv'
<1> USE DEF IInv, TypeOK, extVars, FlashFires
<1>1. FlagTypes'
  BY DEF FlagTypes
<1>2. ListTypes'
  BY DEF ListTypes
<1>3. TypeOK'
  BY <1>1, <1>2 DEF Phase
<1>4. InFlight'
  BY DEF InFlight
<1>5. OneAnimation' /\ FlashPending' /\ Owned'
  BY DEF OneAnimation, FlashPending, Owned
<1> QED
  BY <1>3, <1>4, <1>5

LEMMA AnimationStopsKeeps == IInv /\ AnimationStops => IInv'
<1> SUFFICES ASSUME IInv, AnimationStops PROVE IInv'
  OBVIOUS
<1> USE DEF IInv, TypeOK, extVars, AnimationStops
<1>1. FlagTypes'
  BY DEF FlagTypes
<1>2. ListTypes'
  BY DEF ListTypes
<1>3. TypeOK'
  BY <1>1, <1>2
<1>4. InFlight'
  BY DEF InFlight
<1>5. OneAnimation' /\ FlashPending' /\ Owned'
  BY DEF OneAnimation, FlashPending, Owned
<1> QED
  BY <1>3, <1>4, <1>5

\* External clients reach neither the LockState nor, while it is there, `locked`.
LEMMA ExtKeeps ==
    ASSUME IInv, NEW c \in Client, ExtLock(c) \/ ExtSurface(c) \/ ExtUnlock(c) \/ ExtGone(c)
    PROVE  IInv'
<1> USE DEF IInv, TypeOK, nativeVars, ExtLock, ExtSurface, ExtUnlock, ExtGone
<1>1. UNCHANGED <<native, phase, password, flashTimer, animTimer, flashes, animations,
                  workers, results>>
  OBVIOUS
<1>2. locked' \in BOOLEAN /\ (native /\ locked => locked')
  BY DEF FlagTypes
<1>3. ext' \in [Client -> {"none", "locked", "finished"}] /\ surfaces' \subseteq Client
  OBVIOUS
<1> HIDE DEF ExtLock, ExtSurface, ExtUnlock, ExtGone
<1>4. FlagTypes'
  BY <1>1, <1>2 DEF FlagTypes
<1>5. ListTypes'
  BY <1>1 DEF ListTypes
<1>6. TypeOK'
  BY <1>1, <1>3, <1>4, <1>5
<1>7. InFlight'
  BY <1>1 DEF InFlight
<1>8. OneAnimation' /\ FlashPending' /\ Owned'
  BY <1>1, <1>2 DEF OneAnimation, FlashPending, Owned
<1> QED
  BY <1>6, <1>7, <1>8

LEMMA NextIInv == IInv /\ [Next]_vars => IInv'
<1> SUFFICES ASSUME IInv, [Next]_vars PROVE IInv'
  OBVIOUS
<1>1. CASE UNCHANGED vars
  BY <1>1 DEF vars, nativeVars, extVars, IInv, TypeOK, FlagTypes, ListTypes, InFlight,
              OneAnimation, FlashPending, Owned
<1> QED
  BY <1>1, LockKeeps, FeedKeyKeeps, AuthenticateKeeps, AuthResultKeeps, FlashFiresKeeps,
     AnimationStopsKeeps, ExtKeeps DEF Next

\* Every reachable state of the lockers satisfies the inductive invariant.
THEOREM Invariance == Spec => []IInv
<1>1. Init => IInv
  BY InitIInv
<1>2. IInv /\ [Next]_vars => IInv'
  BY NextIInv
<1> QED
  BY <1>1, <1>2, PTL DEF Spec

\* Each variable keeps its type: the token of a flash timer is a timer, the answers are
\* booleans, the animation count never goes below zero.
THEOREM TypeCorrect == Spec => []TypeOK
<1>1. IInv => TypeOK
  BY DEF IInv
<1> QED
  BY <1>1, Invariance, PTL

\* One check at a time, judged in the phase and the session that asked for it (lock.rs:
\* submit, on_auth_result, unlock).
THEOREM CheckInFlight == Spec => []InFlight
<1>1. IInv => InFlight
  BY DEF IInv
<1> QED
  BY <1>1, Invariance, PTL

\* No timer outlives its entry in the LockState, and no entry its timer (lock.rs:
\* feed_key, on_auth_result, unlock).
THEOREM TimersOnRecord == Spec => []TimersNamed
<1>1. IInv => TimersNamed
  BY DEF IInv, TimersNamed
<1> QED
  BY <1>1, Invariance, PTL

-----------------------------------------------------------------------------
(***************************************************************************)
(* ScreenLock implements SessionGuard: the step simulation.                *)
(***************************************************************************)

\* What Mode and Attempt are made of; a step that leaves it alone stutters.
guarded == <<locked, native, phase, workers, results>>

LEMMA Stutter ==
    ASSUME UNCHANGED guarded
    PROVE  UNCHANGED <<Mode, Attempt>>
BY DEF guarded, Mode, Attempt

LEMMA LockEngages == IInv /\ Lock => Guard!EngageNative
<1> SUFFICES ASSUME IInv, Lock PROVE Guard!EngageNative
  OBVIOUS
<1>1. phase # "Authenticating" /\ phase' # "Authenticating"
  BY DEF IInv, Owned, Lock
<1>2. Attempt = "none" /\ Attempt' = "none"
  BY <1>1 DEF Attempt
<1>3. Mode = "open" /\ Mode' = "native"
  BY DEF Lock, Mode
<1> QED
  BY <1>2, <1>3 DEF Guard!EngageNative

\* Edits are not seen; submit starts an attempt that is right or wrong.
LEMMA FeedKeySimulates == IInv /\ FeedKey => Guard!Submit \/ UNCHANGED <<Mode, Attempt>>
<1> SUFFICES ASSUME IInv, FeedKey PROVE Guard!Submit \/ UNCHANGED <<Mode, Attempt>>
  OBVIOUS
<1>1. UNCHANGED <<locked, native, results>> /\ native /\ locked
  BY DEF FeedKey, IInv, Owned
<1>2. CASE Push \/ Backspace \/ Clear
  <2>1. UNCHANGED guarded
    BY <1>1, <1>2 DEF Push, Backspace, Clear, guarded
  <2> QED
    BY <2>1, Stutter
<1>3. CASE Submit
  <2>1. phase # "Authenticating" /\ phase' = "Authenticating"
    BY <1>3 DEF Submit
  <2>2. Attempt = "none" /\ Attempt' \in {"right", "wrong"}
    BY <2>1 DEF Attempt
  <2>3. Mode = "native" /\ Mode' = "native"
    BY <1>1 DEF Mode
  <2> QED
    BY <2>2, <2>3 DEF Guard!Submit
<1> QED
  BY <1>2, <1>3 DEF FeedKey

\* The verdict is decided by the password the worker holds, and its answer carries it.
LEMMA AuthenticateStutters == IInv /\ Authenticate => UNCHANGED <<Mode, Attempt>>
<1> SUFFICES ASSUME IInv, NEW w \in workers,
                    workers' = workers \ {w},
                    results' = IF w.registered THEN Append(results, w.password \in Right)
                                               ELSE results,
                    UNCHANGED <<locked, native, phase>>
             PROVE  UNCHANGED <<Mode, Attempt>>
  BY DEF Authenticate
<1>1. /\ phase = "Authenticating" /\ workers = {w} /\ w.registered /\ results = <<>>
  BY WorkerAnswers
<1>2. workers' = {} /\ results' = <<w.password \in Right>>
  BY <1>1
<1>3. results' # <<>> /\ (Head(results') <=> w.password \in Right)
  <2> DEFINE pw == w.password
  <2>1. results' = <<pw \in Right>>
    BY <1>2
  <2> HIDE DEF pw
  <2>2. results' # <<>> /\ Head(results') = (pw \in Right)
    BY <2>1, OnlyElement, Zenon
  <2>3. results' # <<>> /\ (Head(results') <=> pw \in Right)
    BY <2>2, Zenon
  <2> QED
    BY <2>3 DEF pw
<1>4. Attempt = IF w.password \in Right THEN "right" ELSE "wrong"
  BY <1>1 DEF Attempt
<1>5. Attempt' = IF w.password \in Right THEN "right" ELSE "wrong"
  BY <1>1, <1>2, <1>3 DEF Attempt
<1>6. Mode' = Mode
  BY DEF Mode
<1> QED
  BY <1>4, <1>5, <1>6

\* The answer that waits is the verdict.
LEMMA AuthResultSimulates == IInv /\ AuthResult => Guard!Accept \/ Guard!Reject
<1> SUFFICES ASSUME IInv, AuthResult PROVE Guard!Accept \/ Guard!Reject
  OBVIOUS
<1>1. native /\ phase = "Authenticating" /\ workers = {} /\ results # <<>>
  BY AnswerIsAwaited DEF AuthResult
<1>2. locked /\ Mode = "native"
  BY <1>1 DEF IInv, Owned, Mode
<1>3. Attempt = IF Head(results) THEN "right" ELSE "wrong"
  BY <1>1 DEF Attempt
<1>4. CASE Head(results)
  <2>1. Unlock
    BY <1>4 DEF AuthResult
  <2>2. Mode' = "open" /\ Attempt' = "none"
    BY <2>1 DEF Unlock, Mode, Attempt
  <2> QED
    BY <1>2, <1>3, <1>4, <2>2 DEF Guard!Accept
<1>5. CASE ~Head(results)
  <2>1. Reject
    BY <1>5 DEF AuthResult
  <2>2. Mode' = Mode /\ Attempt' = "none"
    BY <2>1 DEF Reject, Mode, Attempt
  <2> QED
    BY <1>2, <1>3, <1>5, <2>2 DEF Guard!Reject
<1> QED
  BY <1>4, <1>5

\* Neither timer starts, judges or ends an attempt.
LEMMA TimersStutter ==
    ASSUME IInv, AnimationStops \/ \E t \in Timer : FlashFires(t)
    PROVE  UNCHANGED <<Mode, Attempt>>
<1>1. CASE AnimationStops
  <2>1. UNCHANGED guarded
    BY <1>1 DEF AnimationStops, guarded
  <2> QED
    BY <2>1, Stutter
<1>2. CASE \E t \in Timer : FlashFires(t)
  <2>1. UNCHANGED <<locked, native, workers, results>>
    BY <1>2 DEF FlashFires
  <2>2. phase' = phase \/ (phase = "Failed" /\ phase' = "Typing")
    BY <1>2 DEF FlashFires
  <2>3. Mode' = Mode /\ Attempt' = Attempt
    BY <2>1, <2>2 DEF Mode, Attempt
  <2> QED
    BY <2>3
<1> QED
  BY <1>1, <1>2

\* An external client opens and closes the session only while the native lock is away.
LEMMA ExtSimulates ==
    ASSUME IInv, NEW c \in Client, ExtLock(c) \/ ExtSurface(c) \/ ExtUnlock(c) \/ ExtGone(c)
    PROVE  \/ Guard!EngageExternal \/ Guard!ReleaseExternal \/ UNCHANGED <<Mode, Attempt>>
<1>1. UNCHANGED <<native, phase, workers, results>>
  BY DEF ExtLock, ExtSurface, ExtUnlock, ExtGone, nativeVars
<1>2. Attempt' = Attempt
  BY <1>1 DEF Attempt
<1>3. CASE locked' = locked
  BY <1>1, <1>2, <1>3 DEF Mode
<1>4. CASE ~native /\ ~locked /\ locked'
  BY <1>1, <1>2, <1>4 DEF Mode, Guard!EngageExternal
<1>5. CASE ~native /\ locked /\ ~locked'
  BY <1>1, <1>2, <1>5 DEF Mode, Guard!ReleaseExternal
<1>6. locked' = (locked \/ ~native) \/ locked' = (locked /\ native) \/ locked' = locked
  BY DEF ExtLock, ExtSurface, ExtUnlock, ExtGone
<1>7. locked \in BOOLEAN /\ native \in BOOLEAN /\ (native => locked)
  BY DEF IInv, TypeOK, FlagTypes, Owned
<1> QED
  BY <1>3, <1>4, <1>5, <1>6, <1>7

\* The two lockers implement SessionGuard (lock.rs, handlers/session_lock.rs): for any
\* passwords, clients and timers, the native lock is left only by an attempt that
\* authenticate() accepts, and external clients never open it.
THEOREM Refinement == Spec => ImplementsGuard
<1>1. Init => Guard!Init
  BY DEF Init, Guard!Init, Mode, Attempt
<1>2. IInv /\ [Next]_vars => [Guard!Next]_<<Mode, Attempt>>
  <2> SUFFICES ASSUME IInv, [Next]_vars
               PROVE  Guard!Next \/ UNCHANGED <<Mode, Attempt>>
    OBVIOUS
  <2>1. CASE UNCHANGED vars
    <3>1. UNCHANGED guarded
      BY <2>1 DEF vars, nativeVars, guarded
    <3> QED
      BY <3>1, Stutter
  <2> QED
    BY <2>1, LockEngages, FeedKeySimulates, AuthenticateStutters, AuthResultSimulates,
       TimersStutter, ExtSimulates DEF Next, Guard!Next
<1> QED
  BY <1>1, <1>2, Invariance, PTL DEF Spec, ImplementsGuard, Guard!Spec, Guard!guardVars
=============================================================================

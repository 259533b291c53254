---------------------------- MODULE SessionGuard ----------------------------
(***************************************************************************)
(* What the two screen lockers promise together: the session is open, held *)
(* by the native locker or held by an ext-session-lock-v1 client; the      *)
(* native lock is left only by an attempt that was judged right, one       *)
(* attempt is judged at a time, and an external client neither enters nor  *)
(* leaves while the native lock is up.                                     *)
(***************************************************************************)
VARIABLES
    mode,      \* who holds the session
    attempt    \* the verdict the attempt under way will get

guardVars == <<mode, attempt>>

Init == mode = "open" /\ attempt = "none"

EngageNative ==
    /\ mode = "open" /\ mode' = "native"
    /\ UNCHANGED attempt

Submit ==
    /\ mode = "native" /\ attempt = "none"
    /\ attempt' \in {"right", "wrong"}
    /\ UNCHANGED mode

Reject ==
    /\ mode = "native" /\ attempt = "wrong"
    /\ attempt' = "none"
    /\ UNCHANGED mode

Accept ==
    /\ mode = "native" /\ attempt = "right"
    /\ mode' = "open" /\ attempt' = "none"

EngageExternal ==
    /\ mode = "open" /\ mode' = "ext"
    /\ UNCHANGED attempt

ReleaseExternal ==
    /\ mode = "ext" /\ mode' = "open"
    /\ UNCHANGED attempt

Next ==
    \/ EngageNative \/ Submit \/ Reject \/ Accept
    \/ EngageExternal \/ ReleaseExternal

Spec == Init /\ [][Next]_guardVars
=============================================================================

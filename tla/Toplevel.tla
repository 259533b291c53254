------------------------------ MODULE Toplevel ------------------------------
(***************************************************************************)
(* The server side of one xdg_toplevel: smithay's                          *)
(* XdgToplevelSurfaceRoleAttributes and the ToplevelSurface methods rwl    *)
(* calls on it.  A configure is identified by its place in the queue of    *)
(* unacknowledged ones, which is what its serial orders.  Only the fields  *)
(* of ToplevelState that rwl ever sets are kept: the size, the four Tiled  *)
(* states (always set together), Activated, Fullscreen and the decoration  *)
(* mode; bounds and capabilities never change after the role is created.   *)
(***************************************************************************)
EXTENDS Naturals, Sequences

CONSTANT None    \* Option::None

\* A size is None (the client chooses), the output's, the dragged one, or that of the
\* i-th of n tiles; written as tuples.
ClientSize == <<>>
OutputSize == <<0>>
DraggedSize == <<1>>
TileSize(n, i) == <<n, i>>

ToplevelStates ==
    [size : Seq(Nat), tiled : BOOLEAN, activated : BOOLEAN, fullscreen : BOOLEAN,
     serverSide : BOOLEAN]

\* ToplevelState::default(); no decoration mode counts as client-side in a configure.
DefaultState ==
    [size |-> ClientSize, tiled |-> FALSE, activated |-> FALSE, fullscreen |-> FALSE,
     serverSide |-> FALSE]

\* XdgToplevelSurfaceRoleAttributes, with the decoration object of the shell surface and
\* the mode it was last told.
Roles ==
    [initialSent : BOOLEAN, pending : ToplevelStates \cup {None},
     sent : Seq(ToplevelStates), acked : ToplevelStates \cup {None},
     decorationSent : BOOLEAN,
     decoration : {"none", "unanswered", "server", "client"}]

\* What get_toplevel leaves: the default state is pending for the default capabilities.
NewRole ==
    [initialSent |-> FALSE, pending |-> DefaultState, sent |-> <<>>, acked |-> None,
     decorationSent |-> FALSE, decoration |-> "none"]

\* MUTANT of Current: the acknowledged state comes before what is in flight.
CurrentAcked(r) ==
    IF r.acked # None THEN r.acked
    ELSE IF r.sent # <<>> THEN r.sent[Len(r.sent)] ELSE DefaultState

\* current_server_state()
Current(r) ==
    IF r.sent # <<>> THEN r.sent[Len(r.sent)]
    ELSE IF r.acked # None THEN r.acked ELSE DefaultState

\* The state with_pending_state hands to its closure.
Draft(r) == IF r.pending = None THEN Current(r) ELSE r.pending

\* with_pending_state(|s| *s = state)
WithPending(r, state) == [r EXCEPT !.pending = state]

\* The attributes' own has_pending_changes()
Differs(r) == r.pending # None /\ r.pending # Current(r)

\* ToplevelSurface::has_pending_changes()
HasPendingChanges(r) == ~r.initialSent \/ Differs(r)

\* send_configure(): the pending state if it is news, else the current one once more; and
\* the decoration object is told its mode when that changed or was never told.
SendConfigure(r) ==
    LET taken == ~r.initialSent \/ Differs(r)
        state == IF taken THEN Draft(r) ELSE Current(r)
        tells == /\ r.decoration # "none"
                 /\ ~r.decorationSent \/ state.serverSide # Current(r).serverSide
    IN  [r EXCEPT !.initialSent = TRUE,
                  !.pending = IF taken THEN None ELSE @,
                  !.sent = Append(@, state),
                  !.decorationSent = @ \/ r.decoration # "none",
                  !.decoration = IF ~tells THEN @
                                 ELSE IF state.serverSide THEN "server" ELSE "client"]

\* send_pending_configure()
SendPending(r) == IF HasPendingChanges(r) THEN SendConfigure(r) ELSE r

\* ack_configure of the i-th configure in flight: the older ones are dropped with it.
AckConfigure(r, i) ==
    [r EXCEPT !.acked = r.sent[i], !.sent = SubSeq(@, i + 1, Len(@))]

\* The reset in pre_commit_hook when a null buffer unmaps the surface: everything but the
\* queue of configures goes back to the start; the decoration object is not part of it.
Unmapped(r) == [NewRole EXCEPT !.sent = r.sent, !.decoration = r.decoration]
=============================================================================

--------------------------- MODULE SurfaceCommits ---------------------------
(***************************************************************************)
(* How the commits of one client's surfaces reach the screen: the cached   *)
(* states of smithay's wl_surface tree (wayland/compositor), the           *)
(* transactions that group the states of synchronised subsurfaces, the     *)
(* per-client TransactionQueue, and the fences rwl's pre-commit hook adds  *)
(* as blockers for dma-bufs that the GPU is still writing.                 *)
(*                                                                         *)
(* A state is the version of the buffer it attaches, 0 when it attaches    *)
(* none; the other double-buffered fields travel with it.  Commit ids are  *)
(* Serials, which start at 0 in the code and at 1 here so that 0 can mean  *)
(* "not in the transaction".                                               *)
(***************************************************************************)
EXTENDS Integers, Sequences, FiniteSets, FiniteSetsExt, SequencesExt

CONSTANTS
    Surface,       \* the client's wl_surfaces
    None,          \* Option::None
    Family,        \* the subsurface relations the client may ask for: <<child, parent>>
    MaxVersion,    \* BOUND: buffers attached to a surface
    MaxCommits,    \* BOUND: commit ids of a surface
    Fenced,        \* surfaces whose buffers come with a fence that may be unsignalled
    Whole,         \* the client commits every buffer it attaches before anything else
    Mortal         \* surfaces the client may destroy, and of which it may destroy the wl_subsurface

VARIABLES
    alive,         \* the wl_surface exists
    parent,        \* PrivateSurfaceData::parent
    sync,          \* SubsurfaceState::sync, None for a surface that never was a subsurface
    pending,       \* MultiCache: the version attached since the last commit, or 0
    cache,         \* MultiCache: the committed states with their ids
    current,       \* MultiCache: the state the compositor draws
    txid,          \* current_txid
    tx,            \* pending_transaction
    queue,         \* CompositorClientState::queue
    fences,        \* fences the GPU has not signalled, as <<surface, version>>
    attached,      \* the last version attached to each surface
    committed      \* the last version the client committed with wl_surface.commit

vars == <<alive, parent, sync, pending, cache, current, txid, tx, queue, fences, attached,
          committed>>

Versions == 0 .. MaxVersion
Fences == Surface \X Versions
\* ids: the highest commit id of each surface in the transaction, 0 when it is not part.
Transactions == [ids : [Surface -> Nat], blockers : SUBSET Fences]
NoTransaction == [ids |-> [s \in Surface |-> 0], blockers |-> {}]

\* A state, with the versions its synchronised descendants had committed by then.
States == [version : Versions, due : [Surface -> Versions]]
NoState == [version |-> 0, due |-> [s \in Surface |-> 0]]

TypeOK ==
    /\ alive \subseteq Surface
    /\ parent \in [Surface -> Surface \cup {None}]
    /\ sync \in [Surface -> BOOLEAN \cup {None}]
    /\ pending \in [Surface -> Versions]
    /\ cache \in [Surface -> Seq([id : Nat, state : States])]
    /\ current \in [Surface -> States]
    /\ txid \in [Surface -> Nat]
    /\ tx \in [Surface -> Transactions]
    /\ queue \in Seq(Transactions)
    /\ fences \subseteq Fences
    /\ attached \in [Surface -> Versions]
    /\ committed \in [Surface -> Versions]

Init ==
    /\ alive = Surface
    /\ parent = [s \in Surface |-> None]
    /\ sync = [s \in Surface |-> None]
    /\ pending = [s \in Surface |-> 0]
    /\ cache = [s \in Surface |-> <<>>]
    /\ current = [s \in Surface |-> NoState]
    /\ txid = [s \in Surface |-> 1]
    /\ tx = [s \in Surface |-> NoTransaction]
    /\ queue = <<>>
    /\ fences = {}
    /\ attached = [s \in Surface |-> 0]
    /\ committed = [s \in Surface |-> 0]

-----------------------------------------------------------------------------
(***************************************************************************)
(* The surface tree                                                        *)
(***************************************************************************)

Children(s) == {c \in Surface : parent[c] = s}

\* The surfaces at most n levels below s.
Below(s) ==
    LET level[n \in 0 .. Cardinality(Surface)] ==
            IF n = 0 THEN Children(s)
            ELSE level[n - 1] \cup UNION {Children(c) : c \in level[n - 1]}
    IN  level[Cardinality(Surface)]

\* is_ancestor(a, b)
IsAncestor(a, b) == b \in Below(a)

\* is_effectively_sync
EffectivelySync(s) ==
    \E a \in {s} \cup {b \in Surface : IsAncestor(b, s)} : sync[a] = TRUE

\* The surfaces commit_sync_surface_tree commits with a parent that is not sync.
SyncTree(s) ==
    LET roots == {c \in Children(s) : sync[c] = TRUE} IN roots \cup UNION {Below(c) : c \in roots}

-----------------------------------------------------------------------------
(***************************************************************************)
(* Transactions                                                            *)
(***************************************************************************)

\* PendingTransaction::merge_into
Merged(t, u) ==
    [ids |-> [s \in Surface |-> IF s \in alive THEN Max({t.ids[s], u.ids[s]}) ELSE u.ids[s]],
     blockers |-> t.blockers \cup u.blockers]

\* ... of all the surfaces in T.
MergedAll(t, T) == FoldSet(LAMBDA s, u : Merged(tx[s], u), t, T)

\* PendingTransaction::insert_state
Inserted(t, s, id) == [t EXCEPT !.ids[s] = Max({@, id})]

\* The live surfaces of a transaction.
Touches(t) == {s \in alive : t.ids[s] > 0}

\* Transaction::state, with the fences that are still unsignalled.
TransactionState(t, unsignalled) ==
    IF Touches(t) = {} THEN "cancelled"
    ELSE IF t.blockers \cap unsignalled # {} THEN "pending" ELSE "released"

\* MUTANT of Held: an earlier transaction on the same surface does not hold a later one.
HeldAlone(q, unsignalled) ==
    {i \in DOMAIN q : TransactionState(q[i], unsignalled) = "pending"}

\* take_ready(): the positions that stay in the queue, because a blocker is pending or a
\* surface of theirs is in an earlier transaction that stays.
Held(q, unsignalled) ==
    LET held[n \in 0 .. Len(q)] ==
            IF n = 0 THEN {}
            ELSE LET seen == UNION {Touches(q[i]) : i \in held[n - 1]}
                     state == TransactionState(q[n], unsignalled)
                 IN  IF \/ state = "pending"
                        \/ state = "released" /\ Touches(q[n]) \cap seen # {}
                     THEN held[n - 1] \cup {n} ELSE held[n - 1]
    IN  held[Len(q)]

Ready(q, unsignalled) ==
    {i \in DOMAIN q : TransactionState(q[i], unsignalled) = "released"}
        \ Held(q, unsignalled)

\* Cacheable::merge_into, for a sequence of states.
MergedStates(into, states) ==
    FoldLeft(LAMBDA drawn, e :
                 [e.state EXCEPT !.version = IF @ = 0 THEN drawn.version ELSE @],
             into, states)

\* MUTANT of Applicable: only the state with exactly the transaction's id is taken.
ApplicableExact(entries, id) == SelectSeq(entries, LAMBDA e : e.id = id)

\* The cached states CachedState::apply_state(id) takes.
Applicable(entries, id) == SelectSeq(entries, LAMBDA e : e.id <= id)

\* take_ready() and Transaction::apply of all it returned.
RunQueue(q, c, unsignalled) ==
    LET ready == Ready(q, unsignalled)
        kept == Held(q, unsignalled)
        upTo(s) == Max({q[i].ids[s] : i \in ready} \cup {0})
        takes(s) == IF s \in alive THEN Applicable(c[s], upTo(s)) ELSE <<>>
    IN  /\ queue' = [k \in 1 .. Cardinality(kept) |->
                        q[CHOOSE i \in kept : Cardinality({j \in kept : j <= i}) = k]]
        /\ current' = [s \in Surface |-> MergedStates(current[s], takes(s))]
        /\ cache' = [s \in Surface |->
                        SelectSeq(c[s], LAMBDA e : \A k \in DOMAIN takes(s) : takes(s)[k] # e)]

-----------------------------------------------------------------------------
(***************************************************************************)
(* wl_surface requests                                                     *)
(***************************************************************************)

\* A client that does not leave attached buffers uncommitted.
Tidy(s) == Whole => \A d \in Surface \ {s} : pending[d] = 0

\* wl_surface.attach
Attach(s) ==
    /\ s \in alive /\ pending[s] = 0 /\ attached[s] < MaxVersion
    /\ Tidy(s)
    /\ attached' = [attached EXCEPT ![s] = @ + 1]
    /\ pending' = [pending EXCEPT ![s] = attached'[s]]
    /\ UNCHANGED <<alive, parent, sync, cache, current, txid, tx, queue, fences, committed>>

\* The pre-commit hook: a dma-buf with an unsignalled fence adds a blocker to the surface's
\* pending transaction.
Hooked(s, fenced) ==
    IF fenced THEN [tx[s] EXCEPT !.blockers = @ \cup {<<s, pending[s]>>}] ELSE tx[s]

\* CachedState::commit(Some(id)): the pending states of the surfaces in S go to their
\* caches; the one of s remembers what F had committed.
CacheOf(S, s, F) ==
    [d \in Surface |->
        IF d \notin S THEN cache[d]
        ELSE Append(cache[d],
                    [id |-> txid[d],
                     state |-> [version |-> pending[d],
                                due |-> [f \in Surface |-> IF d = s /\ f \in F
                                                           THEN committed[f] ELSE 0]]])]

\* PrivateSurfaceData::commit of a surface that is effectively sync: its state stays in its
\* pending transaction, which takes over those of its children.
CommitSync(s, fenced) ==
    LET taken == MergedAll(Hooked(s, fenced), Children(s))
    IN  /\ cache' = CacheOf({s}, s, Children(s))
        /\ pending' = [pending EXCEPT ![s] = 0]
        /\ tx' = [d \in Surface |-> IF d = s THEN Inserted(taken, s, txid[s])
                                    ELSE IF d \in Children(s) THEN NoTransaction ELSE tx[d]]
        /\ txid' = [d \in Surface |-> IF d \in {s} \cup Children(s) THEN txid[d] + 1
                                      ELSE txid[d]]
        /\ UNCHANGED <<current, queue>>

\* PrivateSurfaceData::commit of a surface that is not: the whole trees of its sync
\* children are committed with it, and the transaction goes to the queue.
CommitDesync(s, fenced) ==
    LET tree == SyncTree(s)
        group == tree \cup {s}
        merged == MergedAll(Hooked(s, fenced), tree)
        full == [merged EXCEPT !.ids = [d \in Surface |-> IF d \in group
                                            THEN Max({@[d], txid[d]}) ELSE @[d]]]
    IN  /\ pending' = [d \in Surface |-> IF d \in group THEN 0 ELSE pending[d]]
        /\ tx' = [d \in Surface |-> IF d \in group THEN NoTransaction ELSE tx[d]]
        /\ txid' = [d \in Surface |-> IF d \in group THEN txid[d] + 1 ELSE txid[d]]
        /\ RunQueue(Append(queue, full), CacheOf(group, s, tree), fences')

\* wl_surface.commit
Commit(s) ==
    /\ s \in alive /\ Tidy(s)
    /\ \A d \in {s} \cup Below(s) : txid[d] < MaxCommits
    /\ \E fenced \in IF s \in Fenced /\ pending[s] # 0 THEN BOOLEAN ELSE {FALSE} :
         /\ fences' = IF fenced THEN fences \cup {<<s, pending[s]>>} ELSE fences
         /\ committed' = IF pending[s] # 0 THEN [committed EXCEPT ![s] = pending[s]]
                         ELSE committed
         /\ IF EffectivelySync(s) THEN CommitSync(s, fenced)
            ELSE CommitDesync(s, fenced)
    /\ UNCHANGED <<alive, parent, sync, attached>>

\* MUTANT of Signal: nobody calls blocker_cleared.
SignalQuietly(f) ==
    /\ f \in fences
    /\ fences' = fences \ {f}
    /\ UNCHANGED <<alive, parent, sync, pending, cache, current, txid, tx, queue, attached,
                   committed>>

\* The GPU signals a fence; its event source calls blocker_cleared.
Signal(f) ==
    /\ f \in fences
    /\ fences' = fences \ {f}
    /\ RunQueue(queue, cache, fences')
    /\ UNCHANGED <<alive, parent, sync, pending, txid, tx, attached, committed>>

\* wl_surface.destroy: parent and children are orphaned.
DestroySurface(s) ==
    /\ s \in alive \cap Mortal
    /\ alive' = alive \ {s}
    /\ parent' = [c \in Surface |-> IF c = s \/ parent[c] = s THEN None ELSE parent[c]]
    /\ UNCHANGED <<sync, pending, cache, current, txid, tx, queue, fences, attached,
                   committed>>

\* wl_subcompositor.get_subsurface; the flag of a surface that was one before is kept.
GetSubsurface(c, p) ==
    /\ <<c, p>> \in Family /\ {c, p} \subseteq alive
    /\ parent[c] = None /\ ~IsAncestor(c, p)
    /\ parent' = [parent EXCEPT ![c] = p]
    /\ sync' = [sync EXCEPT ![c] = IF @ = None THEN TRUE ELSE @]
    /\ UNCHANGED <<alive, pending, cache, current, txid, tx, queue, fences, attached,
                   committed>>

\* wl_subsurface.destroy: the surface is nobody's child, and sync should it become one.
DestroySubsurface(c) ==
    /\ c \in alive \cap Mortal /\ parent[c] # None
    /\ parent' = [parent EXCEPT ![c] = None]
    /\ sync' = [sync EXCEPT ![c] = TRUE]
    /\ UNCHANGED <<alive, pending, cache, current, txid, tx, queue, fences, attached,
                   committed>>

\* wl_subsurface.set_sync and set_desync
SetSync(c, on) ==
    /\ c \in alive /\ parent[c] # None /\ sync[c] # on
    /\ sync' = [sync EXCEPT ![c] = on]
    /\ UNCHANGED <<alive, parent, pending, cache, current, txid, tx, queue, fences, attached,
                   committed>>

-----------------------------------------------------------------------------
Request(s) ==
    \/ Attach(s)
    \/ Commit(s)
    \/ DestroySurface(s)
    \/ DestroySubsurface(s)
    \/ \E on \in BOOLEAN : SetSync(s, on)
    \/ \E p \in Surface : GetSubsurface(s, p)

Signals == \E f \in fences : Signal(f)

Next == Signals \/ \E s \in Surface : Request(s)

Spec == Init /\ [][Next]_vars

\* A fence the GPU was given is signalled in the end; the client owes nothing.
Fairness == WF_vars(Signals)
FairSpec == Spec /\ Fairness

-----------------------------------------------------------------------------
(***************************************************************************)
(* Properties                                                              *)
(***************************************************************************)

\* A buffer the GPU is still writing is not drawn: its fence blocks every transaction that
\* would make it current, on its own or with the surface's parent.
FencesHonoured ==
    \A s \in alive : <<s, current[s].version>> \notin fences

\* What a surface's synchronised descendants had committed when it was committed is drawn
\* no later than that commit.
SubtreesTogether ==
    \A s, d \in alive : current[s].due[d] <= current[d].version

\* Every transaction in the queue is applied or dropped in the end.
QueueDrains == []<>(queue = <<>>)
=============================================================================

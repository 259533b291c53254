-------------------------- MODULE ConfiguresProofs --------------------------
(***************************************************************************)
(* What a client is told of its window, for any windows, tags and fixed    *)
(* sizes, and however many configures it leaves unanswered: the last one   *)
(* sent says what the last arrangement wants, nothing is left pending, and *)
(* an open window never lacks its initial configure.                       *)
(***************************************************************************)
EXTENDS Configures, StacksLemmas, FiniteSetTheorems

-----------------------------------------------------------------------------
(***************************************************************************)
(* The role.  What a send leaves behind depends only on the draft.         *)
(***************************************************************************)

\* The client has its initial configure, and nothing else is pending for it.
Informed(r) == r.initialSent /\ (r.pending # None => r.pending = Current(r))

LEMMA StatesTyped ==
    ASSUME NEW r \in Roles
    PROVE  Current(r) \in ToplevelStates /\ Draft(r) \in ToplevelStates
<1>1. DefaultState \in ToplevelStates
  BY EmptySeq DEF DefaultState, ToplevelStates, ClientSize
<1>2. r.sent \in Seq(ToplevelStates) /\ r.acked \in ToplevelStates \cup {None}
      /\ r.pending \in ToplevelStates \cup {None}
  BY DEF Roles
<1>3. r.sent # <<>> => r.sent[Len(r.sent)] \in ToplevelStates
  BY <1>2
<1>4. Current(r) \in ToplevelStates
  BY <1>1, <1>2, <1>3, Zenon DEF Current
<1> QED
  BY <1>2, <1>4, Zenon DEF Draft

LEMMA NewRoleTyped == NewRole \in Roles
BY EmptySeq DEF NewRole, Roles, DefaultState, ToplevelStates, ClientSize

LEMMA WithPendingTyped ==
    ASSUME NEW r \in Roles, NEW s \in ToplevelStates
    PROVE  /\ WithPending(r, s) \in Roles
           /\ Draft(WithPending(r, s)) = s
           /\ Current(WithPending(r, s)) = Current(r)
<1>1. s # None
  BY NoneAssumption
<1>2. WithPending(r, s) \in Roles /\ WithPending(r, s).pending = s
      /\ WithPending(r, s).sent = r.sent /\ WithPending(r, s).acked = r.acked
  BY DEF WithPending, Roles
<1> QED
  BY <1>1, <1>2, Zenon DEF Draft, Current

LEMMA InformedDraft ==
    ASSUME NEW r \in Roles, Informed(r)
    PROVE  Draft(r) = Current(r)
BY Zenon DEF Informed, Draft

\* send_configure tells the client the draft, whether or not it was news.
LEMMA SendConfigureTells ==
    ASSUME NEW r \in Roles
    PROVE  /\ SendConfigure(r) \in Roles
           /\ Informed(SendConfigure(r))
           /\ Current(SendConfigure(r)) = Draft(r)
<1> DEFINE taken == ~r.initialSent \/ Differs(r)
           state == IF taken THEN Draft(r) ELSE Current(r)
           tells == /\ r.decoration # "none"
                    /\ ~r.decorationSent \/ state.serverSide # Current(r).serverSide
           told  == IF ~tells THEN r.decoration
                    ELSE IF state.serverSide THEN "server" ELSE "client"
           sent  == [r EXCEPT !.initialSent = TRUE,
                              !.pending = IF taken THEN None ELSE r.pending,
                              !.sent = Append(r.sent, state),
                              !.decorationSent = r.decorationSent \/ r.decoration # "none",
                              !.decoration = told]
<1>1. SendConfigure(r) = sent
  BY DEF SendConfigure
<1>2. state = Draft(r) /\ state \in ToplevelStates
  BY StatesTyped, Zenon DEF Differs, Draft
<1>3. told \in {"none", "unanswered", "server", "client"}
  BY DEF Roles
<1>4. Append(r.sent, state) \in Seq(ToplevelStates)
      /\ Append(r.sent, state) # <<>>
      /\ Append(r.sent, state)[Len(Append(r.sent, state))] = state
  <2> HIDE DEF state
  <2> QED
    BY <1>2 DEF Roles
<1>5. taken \/ r.pending = None \/ r.pending = Current(r)
  BY DEF Differs
<1>6. state = Current(r) \/ taken
  OBVIOUS
<1> HIDE DEF taken, state, told
<1>7. /\ sent \in Roles /\ sent.initialSent
      /\ sent.pending = (IF taken THEN None ELSE r.pending)
      /\ sent.sent = Append(r.sent, state)
  BY <1>3, <1>4 DEF Roles
<1>8. Current(sent) = state
  BY <1>4, <1>7, Zenon DEF Current
<1>9. Informed(sent)
  <2>1. CASE taken
    BY <1>7, <2>1, Zenon DEF Informed
  <2>2. CASE ~taken
    <3>1. sent.pending = None \/ sent.pending = Current(sent)
      BY <1>5, <1>6, <1>7, <1>8, <2>2, Zenon
    <3> QED
      BY <1>7, <3>1, Zenon DEF Informed
  <2> QED
    BY <2>1, <2>2
<1> QED
  BY <1>1, <1>2, <1>7, <1>8, <1>9, Zenon

\* send_pending_configure too: it only stays silent when the client knows the draft.
LEMMA SendPendingTells ==
    ASSUME NEW r \in Roles
    PROVE  /\ SendPending(r) \in Roles
           /\ Informed(SendPending(r))
           /\ Current(SendPending(r)) = Draft(r)
<1>1. CASE HasPendingChanges(r)
  BY <1>1, SendConfigureTells, Zenon DEF SendPending
<1>2. CASE ~HasPendingChanges(r)
  <2>1. SendPending(r) = r
    BY <1>2, Zenon DEF SendPending
  <2>2. Informed(r)
    BY <1>2, Zenon DEF HasPendingChanges, Differs, Informed
  <2> QED
    BY <2>1, <2>2, InformedDraft, Zenon
<1> QED
  BY <1>1, <1>2

\* What is left of a queue ends where the queue ended.
LEMMA RestOfQueue ==
    ASSUME NEW S, NEW q \in Seq(S), NEW i \in 1 .. Len(q)
    PROVE  /\ SubSeq(q, i + 1, Len(q)) \in Seq(S)
           /\ i = Len(q) => SubSeq(q, i + 1, Len(q)) = <<>>
           /\ i # Len(q) => /\ SubSeq(q, i + 1, Len(q)) # <<>>
                            /\ SubSeq(q, i + 1, Len(q))[Len(SubSeq(q, i + 1, Len(q)))] = q[Len(q)]
<1> DEFINE n == Len(q)
           rest == SubSeq(q, i + 1, n)
<1>1. n \in Nat /\ i \in 1 .. n /\ \A k \in (i + 1) .. n : q[k] \in S
  OBVIOUS
<1>2. rest \in Seq(S) /\ Len(rest) = n - i
      /\ \A k \in 1 .. (n - i) : rest[k] = q[i + k]
  BY <1>1, SubSeqProperties
<1> HIDE DEF rest
<1>3. ASSUME i # n
      PROVE  n - i \in 1 .. (n - i) /\ i + (n - i) = n
  BY <1>1, <1>3
<1>4. i = n => rest = <<>>
  BY <1>2, EmptySeq
<1>5. ASSUME i # n
      PROVE  rest # <<>> /\ rest[Len(rest)] = q[n]
  <2>1. Len(rest) = n - i /\ rest[n - i] = q[i + (n - i)]
    BY <1>2, <1>3, <1>5
  <2>2. rest[Len(rest)] = q[n]
    BY <1>3, <1>5, <2>1, Zenon
  <2>3. Len(rest) # 0
    BY <1>3, <1>5, <2>1
  <2> QED
    BY <2>2, <2>3, EmptySeq
<1> QED
  BY <1>2, <1>4, <1>5, Zenon DEF rest

\* An acknowledgement changes what the client has answered, not what it was told.
LEMMA AckKeeps ==
    ASSUME NEW r \in Roles, NEW i \in DOMAIN r.sent
    PROVE  /\ AckConfigure(r, i) \in Roles
           /\ Current(AckConfigure(r, i)) = Current(r)
           /\ Informed(r) => Informed(AckConfigure(r, i))
<1> DEFINE rest == SubSeq(r.sent, i + 1, Len(r.sent))
           a == AckConfigure(r, i)
<1>1. r.sent \in Seq(ToplevelStates) /\ i \in 1 .. Len(r.sent) /\ r.sent # <<>>
      /\ r.sent[i] \in ToplevelStates /\ r.sent[i] # None
  BY NoneAssumption DEF Roles
<1>2. /\ rest \in Seq(ToplevelStates)
      /\ i = Len(r.sent) => rest = <<>>
      /\ i # Len(r.sent) => rest # <<>> /\ rest[Len(rest)] = r.sent[Len(r.sent)]
  BY <1>1, RestOfQueue
<1> HIDE DEF rest
<1>3. a \in Roles /\ a.acked = r.sent[i] /\ a.sent = rest
      /\ a.pending = r.pending /\ a.initialSent = r.initialSent
  BY <1>1, <1>2 DEF AckConfigure, Roles, rest
<1>4. CASE i = Len(r.sent)
  <2>1. rest = <<>>
    BY <1>2, <1>4
  <2>2. Current(a) = r.sent[i]
    BY <1>1, <1>3, <2>1, Zenon DEF Current
  <2>3. Current(r) = r.sent[i]
    BY <1>1, <1>4, Zenon DEF Current
  <2> QED
    BY <1>3, <2>2, <2>3, Zenon DEF Informed
<1>5. CASE i # Len(r.sent)
  <2>1. Current(a) = Current(r)
    BY <1>1, <1>2, <1>3, <1>5, Zenon DEF Current
  <2> QED
    BY <1>3, <2>1, Zenon DEF Informed
<1> QED
  BY <1>4, <1>5

LEMMA UnmappedTyped ==
    ASSUME NEW r \in Roles
    PROVE  Unmapped(r) \in Roles
BY NewRoleTyped DEF Unmapped, Roles

-----------------------------------------------------------------------------
(***************************************************************************)
(* arrange() and the arrange() inside focus_window().                      *)
(***************************************************************************)

Places == [mapped : BOOLEAN, role : Roles]

Wins == [Window -> WindowState]

LEMMA TileOfTyped ==
    ASSUME NEW ws \in Seq(Window), NEW wn, NEW v
    PROVE  TileOf(ws, wn, v) \in Seq(Nat)
<1> DEFINE tiles == {i \in DOMAIN ws : ws[i] \in Tiled(wn, v)}
           upTo == {i \in tiles : \E j \in DOMAIN ws : ws[j] = Watched /\ i <= j}
<1>1. IsFiniteSet(1 .. Len(ws))
  BY FS_Interval
<1>2. tiles \subseteq 1 .. Len(ws) /\ upTo \subseteq 1 .. Len(ws)
  OBVIOUS
<1>3. TileOf(ws, wn, v) = <<Cardinality(tiles), Cardinality(upTo)>>
  BY DEF TileOf, TileSize
<1> HIDE DEF tiles, upTo
<1>4. Cardinality(tiles) \in Nat /\ Cardinality(upTo) \in Nat
  BY <1>1, <1>2, FS_Subset, FS_CardinalityType
<1> QED
  BY <1>3, <1>4

\* What arrange() asks of a window is of the type, keeps the decoration mode, and asking
\* twice asks nothing more.
LEMMA AskedTyped ==
    ASSUME NEW s \in ToplevelStates, NEW ws \in Seq(Window), NEW st, NEW wn, NEW v
    PROVE  /\ Asked(s, ws, st, wn, v) \in ToplevelStates
           /\ Asked(s, ws, st, wn, v).serverSide = s.serverSide
           /\ Asked(Asked(s, ws, st, wn, v), ws, st, wn, v) = Asked(s, ws, st, wn, v)
<1> DEFINE place == Placement(wn, v)
           focused == Focused(st, wn, v) = Watched
           size == CASE place = "tiled" -> TileOf(ws, wn, v)
                     [] place = "fullscreen" -> OutputSize
                     [] OTHER -> ClientSize
           hidden(t) == [t EXCEPT !.tiled = place = "tiled",
                                  !.activated = place # "hidden" /\ focused]
           shown(t) == [hidden(t) EXCEPT !.fullscreen = place = "fullscreen", !.size = size]
<1>1. \A t : Asked(t, ws, st, wn, v) = IF place = "hidden" THEN hidden(t) ELSE shown(t)
  BY DEF Asked
<1>2. size \in Seq(Nat)
  <2>1. TileOf(ws, wn, v) \in Seq(Nat) /\ OutputSize \in Seq(Nat) /\ ClientSize \in Seq(Nat)
    BY TileOfTyped DEF OutputSize, ClientSize
  <2> QED
    BY <2>1
<1>3. focused \in BOOLEAN
  OBVIOUS
<1> HIDE DEF place, focused, size
<1>4. /\ hidden(s) \in ToplevelStates /\ hidden(s).serverSide = s.serverSide
      /\ hidden(hidden(s)) = hidden(s)
  BY <1>3 DEF ToplevelStates
<1>5. /\ shown(s) \in ToplevelStates /\ shown(s).serverSide = s.serverSide
      /\ shown(shown(s)) = shown(s)
  BY <1>2, <1>3 DEF ToplevelStates
<1> HIDE DEF hidden, shown
<1>6. CASE place = "hidden"
  BY <1>1, <1>4, <1>6
<1>7. CASE place # "hidden"
  BY <1>1, <1>5, <1>7
<1> QED
  BY <1>6, <1>7

\* arrange() reaches the client of a listed window that is ruled or not on the view; it
\* skips any other.
LEMMA ArrangedTells ==
    ASSUME NEW p \in Places, NEW ws \in Seq(Window), NEW st, NEW wn, NEW v
    PROVE  /\ Arranged(p, ws, st, wn, v) \in Places
           /\ IF Watched \notin Elements(ws) \/ Placement(wn, v) = "unruled"
              THEN Arranged(p, ws, st, wn, v) = p
              ELSE /\ Informed(Arranged(p, ws, st, wn, v).role)
                   /\ Current(Arranged(p, ws, st, wn, v).role)
                        = Asked(Draft(p.role), ws, st, wn, v)
<1>1. CASE Watched \notin Elements(ws) \/ Placement(wn, v) = "unruled"
  BY <1>1, Zenon DEF Arranged
<1>2. CASE ~(Watched \notin Elements(ws) \/ Placement(wn, v) = "unruled")
  <2> DEFINE asked == Asked(Draft(p.role), ws, st, wn, v)
             drafted == WithPending(p.role, asked)
             hides == Placement(wn, v) = "hidden" \/ ~p.mapped
             q == [mapped |-> Placement(wn, v) # "hidden",
                   role |-> IF hides THEN SendConfigure(drafted) ELSE SendPending(drafted)]
  <2>1. Arranged(p, ws, st, wn, v) = q
    BY <1>2, Zenon DEF Arranged
  <2>2. p.role \in Roles
    BY DEF Places
  <2>3. asked \in ToplevelStates
    BY <2>2, StatesTyped, AskedTyped
  <2>4. drafted \in Roles /\ Draft(drafted) = asked
    <3> HIDE DEF asked
    <3> QED
      BY <2>2, <2>3, WithPendingTyped
  <2> HIDE DEF drafted, asked, hides
  <2>5. /\ SendConfigure(drafted) \in Roles /\ Informed(SendConfigure(drafted))
        /\ Current(SendConfigure(drafted)) = asked
    BY <2>4, SendConfigureTells
  <2>6. /\ SendPending(drafted) \in Roles /\ Informed(SendPending(drafted))
        /\ Current(SendPending(drafted)) = asked
    BY <2>4, SendPendingTells
  <2>7. q.role \in Roles /\ Informed(q.role) /\ Current(q.role) = asked
    BY <2>5, <2>6, Zenon
  <2>8. q \in Places
    BY <2>7 DEF Places
  <2> QED
    BY <1>2, <2>1, <2>7, <2>8, Zenon DEF asked
<1> QED
  BY <1>1, <1>2

\* What holds of the watched toplevel while it is open: its client is informed, and a window
\* without rules was told to leave the decorations to the compositor.
Fine(r, wn) == Informed(r) /\ (wn[Watched].rulesApplied \/ Current(r).serverSide)

LEMMA ArrangedFine ==
    ASSUME NEW p \in Places, NEW ws \in Seq(Window), NEW st, NEW wn, NEW v,
           Fine(p.role, wn)
    PROVE  Fine(Arranged(p, ws, st, wn, v).role, wn)
<1> DEFINE q == Arranged(p, ws, st, wn, v)
<1>1. p.role \in Roles
  BY DEF Places
<1>2. Draft(p.role) = Current(p.role) /\ Current(p.role) \in ToplevelStates
  BY <1>1, InformedDraft, StatesTyped DEF Fine
<1>3. CASE q = p
  BY <1>3
<1>4. CASE Informed(q.role) /\ Current(q.role) = Asked(Draft(p.role), ws, st, wn, v)
  <2>1. Current(q.role).serverSide = Current(p.role).serverSide
    BY <1>2, <1>4, AskedTyped
  <2> QED
    BY <1>4, <2>1, Zenon DEF Fine
<1> QED
  BY <1>3, <1>4, ArrangedTells

\* The client of w was told what the arrangement of these lists and this view wants.
Answered(r, ws, st, wn, v) ==
    \/ Placement(wn, v) = "unruled"
    \/ Current(r) = Asked(Current(r), ws, st, wn, v)

LEMMA ArrangedAnswers ==
    ASSUME NEW p \in Places, NEW ws \in Seq(Window), NEW st, NEW wn, NEW v,
           Watched \in Elements(ws)
    PROVE  Answered(Arranged(p, ws, st, wn, v).role, ws, st, wn, v)
<1> DEFINE r == Arranged(p, ws, st, wn, v).role
<1>1. Draft(p.role) \in ToplevelStates
  BY StatesTyped DEF Places
<1>2. CASE Placement(wn, v) = "unruled"
  BY <1>2 DEF Answered
<1>3. CASE Placement(wn, v) # "unruled"
  <2>1. Current(r) = Asked(Draft(p.role), ws, st, wn, v)
    BY <1>3, ArrangedTells
  <2>2. Asked(Current(r), ws, st, wn, v) = Current(r)
    BY <1>1, <2>1, AskedTyped
  <2> QED
    BY <2>2 DEF Answered
<1> QED
  BY <1>2, <1>3

-----------------------------------------------------------------------------
(***************************************************************************)
(* Handlers chain these: what they leave of the stack, of the client, and  *)
(* of the answer.                                                          *)
(***************************************************************************)

\* A window that has its rules is never skipped.
LEMMA RuledPlacement ==
    ASSUME NEW wn \in Wins, NEW v, wn[Watched].rulesApplied
    PROVE  Placement(wn, v) # "unruled"
<1>1. wn[Watched] \in WindowState
  BY WatchedAssumption DEF Wins
<1> QED
  BY <1>1 DEF Placement, WindowState

LEMMA UnruledWindow ==
    ASSUME NEW wn \in Wins, NEW v, Placement(wn, v) = "unruled"
    PROVE  wn[Watched].rulesApplied = FALSE
<1>1. wn[Watched] \in WindowState
  BY WatchedAssumption DEF Wins
<1> QED
  BY <1>1, RuledPlacement DEF WindowState

\* So arrange() informs its client whatever was pending, also of a role that was reset.
LEMMA ArrangedInforms ==
    ASSUME NEW p \in Places, NEW ws \in Seq(Window), NEW st, NEW wn \in Wins, NEW v,
           Watched \in Elements(ws), wn[Watched].rulesApplied
    PROVE  Fine(Arranged(p, ws, st, wn, v).role, wn)
BY RuledPlacement, ArrangedTells DEF Fine

\* Raising what is on top changes nothing.
LEMMA RaiseTop ==
    ASSUME NEW st \in Seq(Window), Distinct(st), st # <<>>
    PROVE  Raise(st, Head(st)) = st
<1> DEFINE e == Head(st)
<1>1. Len(st) \in Nat /\ 1 \in 1 .. Len(st) /\ e = st[1] /\ e \in Window
  BY EmptySeq
<1>2. e \in Elements(st)
  BY <1>1 DEF Elements
<1>3. PICK p \in 1 .. Len(st) : st[p] = e /\ Without(st, e) = Dropped(st, p)
  BY <1>2, WithoutIsDropped
<1>4. p = 1
  BY <1>1, <1>3 DEF Distinct
<1> DEFINE d == Dropped(st, 1)
<1>5. /\ d \in Seq(Window) /\ Len(d) = Len(st) - 1
      /\ \A i \in 1 .. (Len(st) - 1) : d[i] = st[i + 1]
  BY <1>1, DroppedElements
<1> HIDE DEF d
<1>6. <<e>> \in Seq(Window) /\ Len(<<e>>) = 1 /\ <<e>>[1] = e
  BY <1>1
<1> DEFINE r == <<e>> \o d
<1>7. /\ r \in Seq(Window) /\ Len(r) = 1 + Len(d)
      /\ r[1] = e /\ \A i \in 2 .. Len(r) : r[i] = d[i - 1]
  BY <1>5, <1>6, ConcatProperties
<1> HIDE DEF r
<1>8. Len(r) = Len(st)
  BY <1>1, <1>5, <1>7
<1>9. ASSUME NEW i \in 1 .. Len(st)
      PROVE  r[i] = st[i]
  <2>1. CASE i = 1
    BY <1>1, <1>7, <2>1
  <2>2. CASE i # 1
    <3>1. i \in 2 .. Len(r) /\ i - 1 \in 1 .. (Len(st) - 1) /\ (i - 1) + 1 = i
      BY <1>1, <1>8, <2>2
    <3> QED
      BY <1>5, <1>7, <3>1
  <2> QED
    BY <2>1, <2>2
<1>10. r = st
  BY <1>7, <1>8, <1>9, SeqEqual
<1> QED
  BY <1>3, <1>4, <1>10 DEF Raise, r, d

LEMMA StackAfterTyped ==
    ASSUME NEW st \in Seq(Window), Distinct(st), NEW w \in Window \cup {None}
    PROVE  /\ StackAfter(st, w) \in Seq(Window) /\ Distinct(StackAfter(st, w))
           /\ Elements(StackAfter(st, w)) \subseteq Elements(st) \cup {w}
           /\ Top(st, None) = w => StackAfter(st, w) = st
<1>1. CASE w = None
  BY <1>1 DEF StackAfter
<1>2. CASE w # None
  <2>1. StackAfter(st, w) = Raise(st, w)
    BY <1>2 DEF StackAfter
  <2>2. /\ Raise(st, w) \in Seq(Window) /\ Distinct(Raise(st, w))
        /\ Elements(Raise(st, w)) = Elements(st) \cup {w}
    BY <1>2, RaiseElements
  <2>3. Top(st, None) = w => st # <<>> /\ w = Head(st)
    BY <1>2 DEF Top
  <2>4. Top(st, None) = w => Raise(st, w) = st
    BY <2>3, RaiseTop
  <2> QED
    BY <2>1, <2>2, <2>4
<1> QED
  BY <1>1, <1>2

\* focus_window() arranges only when the top of the stack changes; when it does not, the
\* client was told already.
LEMMA FocusArrangedTells ==
    ASSUME NEW p \in Places, NEW ws \in Seq(Window), NEW st \in Seq(Window), Distinct(st),
           NEW wn, NEW v, NEW w \in Window \cup {None}
    PROVE  LET q == FocusArranged(p, ws, st, wn, v, w)
           IN  /\ q \in Places
               /\ Fine(p.role, wn) => Fine(q.role, wn)
               /\ Watched \in Elements(ws) /\ Answered(p.role, ws, st, wn, v)
                    => Answered(q.role, ws, StackAfter(st, w), wn, v)
<1> DEFINE q == FocusArranged(p, ws, st, wn, v, w)
           after == StackAfter(st, w)
<1>1. CASE w = None \/ Top(st, None) = w
  <2>1. q = p
    BY <1>1 DEF FocusArranged
  <2>2. after = st
    BY <1>1, StackAfterTyped DEF StackAfter
  <2> QED
    BY <2>1, <2>2
<1>2. CASE ~(w = None \/ Top(st, None) = w)
  <2>1. q = Arranged(p, ws, after, wn, v)
    BY <1>2 DEF FocusArranged
  <2> HIDE DEF after
  <2>2. Arranged(p, ws, after, wn, v) \in Places
    BY ArrangedTells
  <2>3. Fine(p.role, wn) => Fine(Arranged(p, ws, after, wn, v).role, wn)
    BY ArrangedFine
  <2>4. Watched \in Elements(ws) => Answered(Arranged(p, ws, after, wn, v).role, ws, after, wn, v)
    BY ArrangedAnswers
  <2> QED
    BY <2>1, <2>2, <2>3, <2>4, Zenon DEF after
<1> QED
  BY <1>1, <1>2

LEMMA FocusedTyped ==
    ASSUME NEW st \in Seq(Window), NEW wn, NEW v
    PROVE  Focused(st, wn, v) \in Elements(st) \cup {None} /\ Elements(st) \subseteq Window
<1> DEFINE T == OnView(wn, v)
<1>1. FirstIn(st, T, None) = None \/ FirstIn(st, T, None) \in Elements(st) \cap T
  <2> HIDE DEF T
  <2> QED
    BY FirstInFinds
<1> QED
  BY <1>1, ElementsOf DEF Focused

\* What a handler that arranges leaves behind: types, a client that is informed if it was
\* before, and one that was told what the new arrangement wants.
Told(p, ws, wn, v) ==
    /\ focusStack' \in Seq(Window) /\ Distinct(focusStack')
    /\ mapped' \in BOOLEAN /\ role' \in Roles
    /\ Fine(p.role, wn) => Fine(role', wn)
    /\ Watched \in Elements(ws) => Answered(role', ws, focusStack', wn, v)

LEMMA ArrangeTells ==
    ASSUME NEW p \in Places, NEW ws \in Seq(Window), NEW wn,
           focusStack \in Seq(Window), Distinct(focusStack), Arrange(p, ws, wn)
    PROVE  Told(p, ws, wn, view)
<1> DEFINE q == Arranged(p, ws, focusStack, wn, view)
<1>1. mapped' = q.mapped /\ role' = q.role /\ focusStack' = focusStack
  BY DEF Arrange, Becomes
<1>2. q \in Places
  BY ArrangedTells
<1>3. Fine(p.role, wn) => Fine(q.role, wn)
  BY ArrangedFine
<1>4. Watched \in Elements(ws) => Answered(q.role, ws, focusStack, wn, view)
  BY ArrangedAnswers
<1> HIDE DEF q
<1>5. q.mapped \in BOOLEAN /\ q.role \in Roles
  BY <1>2 DEF Places
<1> QED
  BY <1>1, <1>3, <1>4, <1>5, Zenon DEF Told

LEMMA ArrangeThenFocusTells ==
    ASSUME NEW p \in Places, NEW ws \in Seq(Window), NEW st \in Seq(Window), Distinct(st),
           NEW wn, NEW v, ArrangeThenFocus(p, ws, st, wn, v)
    PROVE  Told(p, ws, wn, v)
<1> DEFINE top == Focused(st, wn, v)
           a == Arranged(p, ws, st, wn, v)
           q == FocusArranged(a, ws, st, wn, v, top)
<1>1. mapped' = q.mapped /\ role' = q.role /\ focusStack' = StackAfter(st, top)
  BY DEF ArrangeThenFocus, Becomes
<1>2. top \in Window \cup {None}
  BY FocusedTyped
<1>3. a \in Places /\ (Fine(p.role, wn) => Fine(a.role, wn))
  BY ArrangedTells, ArrangedFine
<1>4. Watched \in Elements(ws) => Answered(a.role, ws, st, wn, v)
  BY ArrangedAnswers
<1> HIDE DEF top, a
<1>5. /\ q \in Places /\ (Fine(a.role, wn) => Fine(q.role, wn))
      /\ Watched \in Elements(ws) /\ Answered(a.role, ws, st, wn, v)
           => Answered(q.role, ws, StackAfter(st, top), wn, v)
  BY <1>2, <1>3, FocusArrangedTells
<1>6. StackAfter(st, top) \in Seq(Window) /\ Distinct(StackAfter(st, top))
  BY <1>2, StackAfterTyped
<1> HIDE DEF q
<1>7. q.mapped \in BOOLEAN /\ q.role \in Roles
  BY <1>5 DEF Places
<1> QED
  BY <1>1, <1>3, <1>4, <1>5, <1>6, <1>7, Zenon DEF Told

LEMMA FocusThenArrangeTells ==
    ASSUME NEW p \in Places, NEW ws \in Seq(Window), NEW st \in Seq(Window), Distinct(st),
           NEW wn, NEW v, NEW w \in Window \cup {None}, FocusThenArrange(p, ws, st, wn, v, w)
    PROVE  Told(p, ws, wn, v) /\ focusStack' = StackAfter(st, w)
<1> DEFINE f == FocusArranged(p, ws, st, wn, v, w)
           after == StackAfter(st, w)
           q == Arranged(f, ws, after, wn, v)
<1>1. mapped' = q.mapped /\ role' = q.role /\ focusStack' = after
  BY DEF FocusThenArrange, Becomes
<1>2. f \in Places /\ (Fine(p.role, wn) => Fine(f.role, wn))
  BY FocusArrangedTells
<1>3. after \in Seq(Window) /\ Distinct(after)
  BY StackAfterTyped
<1> HIDE DEF f, after
<1>4. q \in Places /\ (Fine(f.role, wn) => Fine(q.role, wn))
  BY <1>2, ArrangedTells, ArrangedFine
<1>5. Watched \in Elements(ws) => Answered(q.role, ws, after, wn, v)
  BY <1>2, ArrangedAnswers
<1> HIDE DEF q
<1>6. q.mapped \in BOOLEAN /\ q.role \in Roles
  BY <1>4 DEF Places
<1>7. Told(p, ws, wn, v)
  BY <1>1, <1>2, <1>3, <1>4, <1>5, <1>6, Zenon DEF Told
<1> QED
  BY <1>1, <1>7 DEF after

-----------------------------------------------------------------------------
(***************************************************************************)
(* The invariant, and what a step may leave unsaid.                        *)
(***************************************************************************)

IInv ==
    /\ TypeOK /\ Distinct(windows) /\ Distinct(focusStack)
    /\ Open(Watched) => Fine(role, win)

\* The action of ArrangeReachesClient.
Reaches ==
    \/ <<windows, focusStack, view>> # <<windows, focusStack, view>>'
    \/ \E w \in Window : <<win[w].tag, win[w].floating, win[w].fullscreen>>
                           # <<win[w].tag, win[w].floating, win[w].fullscreen>>'
    => \/ ~Open(Watched)' \/ Placement(win, view)' = "unruled"
       \/ win[Watched].bufferMapped # win[Watched].bufferMapped'
       \/ Current(role') = Asked(Current(role'), windows', focusStack', win', view')

LEMMA InitInv == Init => IInv
<1> SUFFICES ASSUME Init PROVE IInv
  OBVIOUS
<1>1. <<>> \in Seq(Window) /\ Distinct(<<>>) /\ Elements(<<>>) = {}
  BY EmptySeq DEF Distinct, Elements
<1>2. role \in Roles
  BY NewRoleTyped DEF Init
<1>3. win \in [Window -> WindowState]
  BY DEF Init, NewWindow, WindowState
<1>4. ~Open(Watched)
  BY <1>1 DEF Init, Open
<1> QED
  BY <1>1, <1>2, <1>3, <1>4 DEF Init, IInv, TypeOK

LEMMA NowTyped ==
    ASSUME IInv
    PROVE  Now \in Places /\ Now.role = role /\ role \in Roles /\ Watched \in Window
BY WatchedAssumption DEF Now, Places, IInv, TypeOK

LEMMA AnsweredReaches ==
    ASSUME Answered(role', windows', focusStack', win', view') \/ ~Open(Watched)'
    PROVE  Reaches
BY DEF Answered, Reaches, Placement, OnView

LEMMA QuietReaches ==
    ASSUME UNCHANGED <<windows, focusStack, win, view>>
    PROVE  Reaches
BY DEF Reaches

\* A step that ends in an arrangement.
LEMMA ToldStep ==
    ASSUME windows' \in Seq(Window), Distinct(windows'), win' \in Wins, view' \in Tag,
           NEW p \in Places, Told(p, windows', win', view'),
           Open(Watched)' => Fine(p.role, win')
    PROVE  IInv' /\ Reaches
<1>1. Open(Watched)' => Fine(role', win')
  BY DEF Told
<1>2. TypeOK' /\ Distinct(focusStack')
  BY DEF Told, TypeOK, Wins
<1>3. Open(Watched)' => Answered(role', windows', focusStack', win', view')
  BY DEF Told, Open
<1>4. IInv'
  BY <1>1, <1>2 DEF IInv
<1> QED
  BY <1>3, <1>4, AnsweredReaches

\* Most handlers leave the watched window's rules alone.
LEMMA FineKept ==
    ASSUME IInv, Open(Watched), NEW wn,
           wn[Watched].rulesApplied = win[Watched].rulesApplied
    PROVE  Fine(role, wn)
BY DEF IInv, Fine

LEMMA FocusedWindowTyped ==
    ASSUME IInv, FocusedWindow # None
    PROVE  FocusedWindow \in Window
BY FocusedTyped DEF FocusedWindow, IInv, TypeOK

-----------------------------------------------------------------------------
(***************************************************************************)
(* Key bindings                                                            *)
(***************************************************************************)

LEMMA ViewStep ==
    ASSUME IInv, NEW t \in Tag, View(t)
    PROVE  IInv' /\ Reaches
<1>1. Told(Now, windows, win, t)
  BY NowTyped, ArrangeThenFocusTells DEF View, IInv, TypeOK
<1>2. windows' = windows /\ win' = win /\ view' = t
  BY DEF View
<1>3. Open(Watched)' => Fine(Now.role, win')
  BY <1>2, NowTyped DEF IInv, Open
<1> QED
  BY <1>1, <1>2, <1>3, NowTyped, ToldStep DEF IInv, TypeOK, Wins

LEMMA TagFocusedStep ==
    ASSUME IInv, NEW t \in Tag, TagFocused(t)
    PROVE  IInv' /\ Reaches
<1>1. windows' = windows /\ win' = [win EXCEPT ![FocusedWindow].tag = t] /\ view' = view
  BY DEF TagFocused
<1>2. FocusedWindow \in Window /\ win \in [Window -> WindowState]
  BY FocusedWindowTyped DEF TagFocused, IInv, TypeOK
<1>3. win' \in Wins /\ win'[Watched].rulesApplied = win[Watched].rulesApplied
  BY <1>1, <1>2, NowTyped DEF Wins, WindowState
<1>4. Told(Now, windows, win', view)
  BY NowTyped, ArrangeThenFocusTells DEF TagFocused, IInv, TypeOK
<1>5. Open(Watched)' => Fine(Now.role, win')
  BY <1>1, <1>3, NowTyped, FineKept DEF Open
<1> QED
  BY <1>1, <1>3, <1>4, <1>5, NowTyped, ToldStep DEF IInv, TypeOK

\* Handlers that change what a window is and arrange.
LEMMA ArrangeStep ==
    ASSUME IInv, UNCHANGED <<windows, view>>, win' \in Wins,
           win'[Watched].rulesApplied = win[Watched].rulesApplied,
           Arrange(Now, windows, win')
    PROVE  IInv' /\ Reaches
<1>1. Told(Now, windows, win', view)
  BY NowTyped, ArrangeTells DEF IInv, TypeOK
<1>2. Open(Watched)' => Fine(Now.role, win')
  BY NowTyped, FineKept DEF Open
<1> QED
  BY <1>1, <1>2, NowTyped, ToldStep DEF IInv, TypeOK

LEMMA ToggleFloatingStep ==
    ASSUME IInv, ToggleFloating
    PROVE  IInv' /\ Reaches
<1>1. FocusedWindow \in Window /\ win \in [Window -> WindowState]
  BY FocusedWindowTyped DEF ToggleFloating, IInv, TypeOK
<1>2. win' = [win EXCEPT ![FocusedWindow].floating = ~@]
  BY DEF ToggleFloating
<1>3. win' \in Wins /\ win'[Watched].rulesApplied = win[Watched].rulesApplied
  BY <1>1, <1>2, NowTyped DEF Wins, WindowState
<1> QED
  BY <1>3, ArrangeStep DEF ToggleFloating

LEMMA ToggleFullscreenStep ==
    ASSUME IInv, ToggleFullscreen
    PROVE  IInv' /\ Reaches
<1>1. FocusedWindow \in Window /\ win \in [Window -> WindowState]
  BY FocusedWindowTyped DEF ToggleFullscreen, IInv, TypeOK
<1>2. win' = [win EXCEPT ![FocusedWindow].fullscreen = ~@]
  BY DEF ToggleFullscreen
<1>3. win' \in Wins /\ win'[Watched].rulesApplied = win[Watched].rulesApplied
  BY <1>1, <1>2, NowTyped DEF Wins, WindowState
<1> QED
  BY <1>3, ArrangeStep DEF ToggleFullscreen

\* focus_window() alone: a window that is on top already changes nothing at all.
LEMMA FocusWindowStep ==
    ASSUME IInv, NEW w \in Window, FocusWindow(w)
    PROVE  IInv' /\ Reaches
<1> DEFINE q == FocusArranged(Now, windows, focusStack, win, view, w)
           after == StackAfter(focusStack, w)
<1>1. mapped' = q.mapped /\ role' = q.role /\ focusStack' = after
      /\ UNCHANGED <<windows, win, view>>
  BY DEF FocusWindow, Becomes
<1>2. /\ windows \in Seq(Window) /\ focusStack \in Seq(Window) /\ Distinct(focusStack)
      /\ Distinct(windows) /\ win \in [Window -> WindowState] /\ view \in Tag
  BY DEF IInv, TypeOK
<1>3. q \in Places /\ (Fine(role, win) => Fine(q.role, win))
  BY <1>2, NowTyped, FocusArrangedTells
<1>4. after \in Seq(Window) /\ Distinct(after) /\ (Top(focusStack, None) = w => after = focusStack)
  BY <1>2, StackAfterTyped
<1>5. ASSUME Top(focusStack, None) = w
      PROVE  Reaches
  BY <1>1, <1>4, <1>5, QuietReaches
<1>6. ASSUME Top(focusStack, None) # w
      PROVE  Reaches
  <2>1. w # None
    BY WatchedAssumption
  <2>2. q = Arranged(Now, windows, after, win, view)
    BY <1>6, <2>1 DEF FocusArranged
  <2>3. Watched \in Elements(windows)
          => Answered(Arranged(Now, windows, after, win, view).role, windows, after, win, view)
    <3> HIDE DEF after
    <3> QED
      BY <1>2, NowTyped, ArrangedAnswers
  <2> QED
    BY <1>1, <2>2, <2>3, AnsweredReaches DEF Open
<1> HIDE DEF q, after
<1>7. q.mapped \in BOOLEAN /\ q.role \in Roles
  BY <1>3 DEF Places
<1>8. IInv'
  BY <1>1, <1>2, <1>3, <1>4, <1>7 DEF IInv, TypeOK, Open
<1> QED
  BY <1>5, <1>6, <1>8

\* What a step does that sends something outside of any arrangement.
LEMMA RoleStep ==
    ASSUME IInv, UNCHANGED <<windows, focusStack, win, view>>,
           mapped' \in BOOLEAN, role' \in Roles,
           Open(Watched) /\ Fine(role, win) => Fine(role', win)
    PROVE  IInv' /\ Reaches
<1>1. IInv'
  BY DEF IInv, TypeOK, Open
<1> QED
  BY <1>1, QuietReaches

LEMMA ResizeGrabStep ==
    ASSUME IInv, ResizeGrab
    PROVE  IInv' /\ Reaches
<1> DEFINE s == [Draft(role) EXCEPT !.size = DraggedSize]
           drafted == WithPending(role, s)
<1>1. role \in Roles /\ Draft(role) \in ToplevelStates
  BY NowTyped, StatesTyped
<1>2. s \in ToplevelStates /\ s.serverSide = Draft(role).serverSide
  <2>1. DraggedSize \in Seq(Nat)
    BY DEF DraggedSize
  <2> QED
    BY <1>1, <2>1 DEF ToplevelStates
<1> HIDE DEF s
<1>3. drafted \in Roles /\ Draft(drafted) = s
  BY <1>1, <1>2, WithPendingTyped
<1> HIDE DEF drafted
<1>4. role' = SendPending(drafted)
  BY DEF ResizeGrab, drafted, s
<1>5. role' \in Roles /\ Informed(role') /\ Current(role') = s
  BY <1>3, <1>4, SendPendingTells
<1>6. Fine(role, win) => Fine(role', win)
  BY <1>1, <1>2, <1>5, InformedDraft DEF Fine
<1>7. mapped' \in BOOLEAN
  BY DEF ResizeGrab, IInv, TypeOK
<1> QED
  BY <1>5, <1>6, <1>7, RoleStep DEF ResizeGrab

-----------------------------------------------------------------------------
(***************************************************************************)
(* Client requests                                                         *)
(***************************************************************************)

LEMMA NewToplevelStep ==
    ASSUME IInv, NEW w \in Window, NewToplevel(w)
    PROVE  IInv' /\ Reaches
<1> DEFINE d == [DefaultState EXCEPT !.serverSide = TRUE]
           decorated == WithPending(NewRole, d)
           p == IF w = Watched THEN [mapped |-> TRUE, role |-> SendConfigure(decorated)] ELSE Now
<1>1. /\ windows' = <<w>> \o windows /\ win' = [win EXCEPT ![w] = NewWindow(view)]
      /\ focusStack' = Raise(focusStack, w) /\ view' = view
      /\ Becomes(Arranged(p, windows', focusStack', win', view))
  BY DEF NewToplevel
<1>2. /\ windows \in Seq(Window) /\ focusStack \in Seq(Window) /\ Distinct(focusStack)
      /\ Distinct(windows) /\ win \in [Window -> WindowState] /\ view \in Tag
      /\ w \notin Elements(windows)
  BY DEF IInv, TypeOK, NewToplevel, Open
<1>3. windows' \in Seq(Window) /\ Distinct(windows')
      /\ Elements(windows') = Elements(windows) \cup {w}
  <2>1. windows' = Raise(windows, w)
    BY <1>1, <1>2 DEF Raise, Without
  <2> QED
    BY <1>2, <2>1, RaiseElements
<1>4. focusStack' \in Seq(Window) /\ Distinct(focusStack')
  BY <1>1, <1>2, RaiseElements
<1>5. win' \in Wins
  BY <1>1, <1>2 DEF Wins, NewWindow, WindowState
<1>6. d \in ToplevelStates /\ d.serverSide
  BY EmptySeq DEF DefaultState, ToplevelStates, ClientSize
<1> HIDE DEF d
<1>7. decorated \in Roles /\ Draft(decorated) = d
  BY <1>6, NewRoleTyped, WithPendingTyped
<1> HIDE DEF decorated
<1>8. /\ SendConfigure(decorated) \in Roles /\ Informed(SendConfigure(decorated))
      /\ Current(SendConfigure(decorated)).serverSide
  BY <1>6, <1>7, SendConfigureTells
<1>9. p \in Places
  BY <1>8, NowTyped DEF Places
<1>10. Open(Watched)' => Fine(p.role, win')
  <2>1. CASE w = Watched
    BY <1>8, <2>1 DEF Fine
  <2>2. CASE w # Watched
    <3>1. win'[Watched] = win[Watched]
      BY <1>1, <1>2, <2>2, NowTyped
    <3>2. Open(Watched)' => Open(Watched)
      BY <1>3, <2>2 DEF Open
    <3> QED
      BY <2>2, <3>1, <3>2, NowTyped, FineKept
  <2> QED
    BY <2>1, <2>2
<1> DEFINE q == Arranged(p, windows', focusStack', win', view)
<1> HIDE DEF p
<1>11. q \in Places /\ (Fine(p.role, win') => Fine(q.role, win'))
  BY <1>3, <1>9, ArrangedTells, ArrangedFine
<1>12. Watched \in Elements(windows') => Answered(q.role, windows', focusStack', win', view)
  BY <1>3, <1>9, ArrangedAnswers
<1>13. mapped' = q.mapped /\ role' = q.role
  BY <1>1 DEF Becomes
<1> HIDE DEF q
<1>14. q.mapped \in BOOLEAN /\ q.role \in Roles
  BY <1>11 DEF Places
<1>15. Told(p, windows', win', view)
  BY <1>4, <1>11, <1>12, <1>13, <1>14, Zenon DEF Told
<1> QED
  BY <1>1, <1>2, <1>3, <1>5, <1>9, <1>10, <1>15, ToldStep

LEMMA FullscreenRequestStep ==
    ASSUME IInv, NEW w \in Window, NEW on \in BOOLEAN, FullscreenRequest(w, on)
    PROVE  IInv' /\ Reaches
<1>1. win \in [Window -> WindowState] /\ win' = [win EXCEPT ![w].fullscreen = on]
  BY DEF IInv, TypeOK, FullscreenRequest
<1>2. win' \in Wins /\ win'[Watched].rulesApplied = win[Watched].rulesApplied
  BY <1>1, NowTyped DEF Wins, WindowState
<1> QED
  BY <1>2, ArrangeStep DEF FullscreenRequest

\* Forcing server-side decorations keeps the client informed: either it is told at once, or
\* its window has no rules yet and was told from the start.
LEMMA AskServerSideStep ==
    ASSUME IInv, Open(Watched), UNCHANGED <<windows, win, view>>, NEW r \in Roles,
           r.initialSent = role.initialSent, r.pending = role.pending,
           r.sent = role.sent, r.acked = role.acked, AskServerSide(r)
    PROVE  IInv' /\ Reaches
<1> DEFINE s == [Draft(r) EXCEPT !.serverSide = TRUE]
           drafted == WithPending(r, s)
           p == [mapped |-> mapped, role |-> drafted]
           q == Arranged(p, windows, focusStack, win, view)
<1>1. mapped' = q.mapped /\ role' = q.role /\ focusStack' = focusStack
  BY DEF AskServerSide, Arrange, Becomes
<1>2. /\ windows \in Seq(Window) /\ mapped \in BOOLEAN /\ win \in Wins /\ role \in Roles
      /\ Watched \in Elements(windows) /\ Fine(role, win)
  BY DEF IInv, TypeOK, Wins, Open
<1>3. Informed(r) /\ Current(r) = Current(role) /\ Draft(r) = Current(r)
      /\ Current(r) \in ToplevelStates
  <2>1. Current(r) = Current(role)
    BY Zenon DEF Current
  <2>2. Informed(r)
    BY <1>2, <2>1 DEF Fine, Informed
  <2> QED
    BY <2>1, <2>2, InformedDraft, StatesTyped
<1>4. s \in ToplevelStates /\ s.serverSide /\ (Current(r).serverSide => s = Current(r))
  BY <1>3 DEF ToplevelStates
<1> HIDE DEF s
<1>5. drafted \in Roles /\ Draft(drafted) = s /\ Current(drafted) = Current(r)
      /\ drafted.pending = s /\ drafted.initialSent = r.initialSent
  <2>1. drafted.pending = s /\ drafted.initialSent = r.initialSent
    BY DEF WithPending, Roles
  <2> QED
    BY <1>4, <2>1, WithPendingTyped
<1> HIDE DEF drafted
<1>6. p \in Places /\ p.role = drafted
  BY <1>2, <1>5 DEF Places
<1> HIDE DEF p
<1>7. /\ q \in Places
      /\ IF Watched \notin Elements(windows) \/ Placement(win, view) = "unruled"
         THEN q = p
         ELSE /\ Informed(q.role)
              /\ Current(q.role) = Asked(Draft(p.role), windows, focusStack, win, view)
  BY <1>2, <1>6, ArrangedTells
<1> HIDE DEF q
<1>8. Fine(q.role, win)
  <2>1. CASE Placement(win, view) = "unruled"
    <3>1. Current(r).serverSide
      BY <1>2, <1>3, <2>1, UnruledWindow DEF Fine
    <3>2. Informed(drafted)
      BY <1>3, <1>4, <1>5, <3>1 DEF Informed
    <3>3. q.role = drafted
      BY <1>6, <1>7, <2>1
    <3> QED
      BY <1>5, <3>1, <3>2, <3>3 DEF Fine
  <2>2. CASE Placement(win, view) # "unruled"
    <3>1. Informed(q.role) /\ Current(q.role) = Asked(s, windows, focusStack, win, view)
      BY <1>2, <1>5, <1>6, <1>7, <2>2
    <3>2. Asked(s, windows, focusStack, win, view).serverSide = s.serverSide
      <4>1. windows \in Seq(Window) /\ s \in ToplevelStates
        BY <1>2, <1>4
      <4> QED
        BY <4>1, AskedTyped
    <3> QED
      BY <1>4, <3>1, <3>2 DEF Fine
  <2> QED
    BY <2>1, <2>2
<1>9. q.mapped \in BOOLEAN /\ q.role \in Roles
  BY <1>7 DEF Places
<1> QED
  BY <1>1, <1>8, <1>9, RoleStep

LEMMA DecorationStep ==
    ASSUME IInv, Decoration
    PROVE  IInv' /\ Reaches
<1>1. role \in Roles
  BY NowTyped
<1>2. CASE NewDecoration
  <2> DEFINE r == [role EXCEPT !.decoration = "unanswered"]
  <2>1. r \in Roles /\ r.initialSent = role.initialSent /\ r.pending = role.pending
        /\ r.sent = role.sent /\ r.acked = role.acked
    BY <1>1 DEF Roles
  <2>2. AskServerSide(r) /\ Open(Watched) /\ UNCHANGED <<windows, win, view>>
    BY <1>2 DEF NewDecoration
  <2> HIDE DEF r
  <2> QED
    BY <2>1, <2>2, AskServerSideStep
<1>3. CASE RequestMode
  BY <1>1, <1>3, AskServerSideStep DEF RequestMode
<1> QED
  BY <1>2, <1>3 DEF Decoration

LEMMA DestroyDecorationStep ==
    ASSUME IInv, DestroyDecoration
    PROVE  IInv' /\ Reaches
<1>1. role \in Roles /\ role' = [role EXCEPT !.decoration = "none"]
  BY NowTyped DEF DestroyDecoration
<1>2. /\ role' \in Roles /\ role'.initialSent = role.initialSent
      /\ role'.pending = role.pending /\ role'.sent = role.sent /\ role'.acked = role.acked
  BY <1>1 DEF Roles
<1>3. Current(role') = Current(role)
  BY <1>2, Zenon DEF Current
<1>4. Fine(role, win) => Fine(role', win)
  BY <1>2, <1>3 DEF Fine, Informed
<1>5. mapped' \in BOOLEAN
  BY DEF DestroyDecoration, IInv, TypeOK
<1> QED
  BY <1>2, <1>4, <1>5, RoleStep DEF DestroyDecoration

LEMMA AckStep ==
    ASSUME IInv, NEW i \in DOMAIN role.sent, Ack(i)
    PROVE  IInv' /\ Reaches
<1>1. role' = AckConfigure(role, i) /\ role \in Roles
  BY NowTyped DEF Ack
<1>2. /\ role' \in Roles /\ Current(role') = Current(role)
      /\ (Informed(role) => Informed(role'))
  BY <1>1, AckKeeps
<1>3. Fine(role, win) => Fine(role', win)
  BY <1>2 DEF Fine
<1>4. mapped' \in BOOLEAN
  BY DEF Ack, IInv, TypeOK
<1> QED
  BY <1>2, <1>3, <1>4, RoleStep DEF Ack

-----------------------------------------------------------------------------
(***************************************************************************)
(* Commits and the end of a window.                                        *)
(***************************************************************************)

\* Two windows that arrange() does not tell apart.
Alike(s, t) ==
    /\ s.tag = t.tag /\ s.floating = t.floating
    /\ s.fullscreen = t.fullscreen /\ s.rulesApplied = t.rulesApplied

\* ... as far as these lists and the watched one are concerned.
AlikeFor(ws, st, a, b) ==
    \A x \in Elements(ws) \cup Elements(st) \cup {Watched} : Alike(a[x], b[x])

LEMMA AlikeAsked ==
    ASSUME NEW s, NEW ws \in Seq(Window), NEW st \in Seq(Window), NEW a, NEW b, NEW v,
           AlikeFor(ws, st, a, b)
    PROVE  /\ Placement(a, v) = Placement(b, v)
           /\ Asked(s, ws, st, a, v) = Asked(s, ws, st, b, v)
<1>1. Placement(a, v) = Placement(b, v)
  BY DEF Placement, Alike, AlikeFor
<1>2. \A x \in Elements(ws) : x \in Tiled(a, v) <=> x \in Tiled(b, v)
  BY DEF Tiled, OnView, Alike, AlikeFor
<1>3. \A x \in Elements(st) : x \in OnView(a, v) <=> x \in OnView(b, v)
  BY DEF OnView, Alike, AlikeFor
<1>4. {i \in DOMAIN ws : ws[i] \in Tiled(a, v)} = {i \in DOMAIN ws : ws[i] \in Tiled(b, v)}
  BY <1>2 DEF Elements
<1>5. {i \in DOMAIN st : st[i] \in OnView(a, v)} = {i \in DOMAIN st : st[i] \in OnView(b, v)}
  BY <1>3 DEF Elements
<1>6. TileOf(ws, a, v) = TileOf(ws, b, v)
  BY <1>4, Zenon DEF TileOf
<1>7. Focused(st, a, v) = Focused(st, b, v)
  <2> DEFINE first(hits) == IF hits = {} THEN None
                            ELSE st[CHOOSE i \in hits : \A j \in hits : i <= j]
  <2>1. Focused(st, a, v) = first({i \in DOMAIN st : st[i] \in OnView(a, v)})
    BY DEF Focused, FirstIn
  <2>2. Focused(st, b, v) = first({i \in DOMAIN st : st[i] \in OnView(b, v)})
    BY DEF Focused, FirstIn
  <2> HIDE DEF first
  <2> QED
    BY <1>5, <2>1, <2>2
<1>8. Asked(s, ws, st, a, v) = Asked(s, ws, st, b, v)
  BY <1>1, <1>6, <1>7, Zenon DEF Asked
<1> QED
  BY <1>1, <1>8

LEMMA AlikeAnswered ==
    ASSUME NEW ws \in Seq(Window), NEW st \in Seq(Window), NEW v, NEW a, NEW b, NEW r,
           AlikeFor(ws, st, a, b),
           Answered(r, ws, st, a, v)
    PROVE  Answered(r, ws, st, b, v)
<1>1. /\ Placement(a, v) = Placement(b, v)
      /\ Asked(Current(r), ws, st, a, v) = Asked(Current(r), ws, st, b, v)
  BY AlikeAsked
<1> QED
  BY <1>1 DEF Answered

LEMMA CommittedRoleTyped ==
    ASSUME IInv, NEW w \in Window, NEW buffer
    PROVE  /\ [mapped |-> mapped, role |-> CommittedRole(w, buffer)] \in Places
           /\ \/ CommittedRole(w, buffer) = role
              \/ w = Watched /\ ~CommittedRole(w, buffer).initialSent
<1>1. role \in Roles /\ mapped \in BOOLEAN
  BY NowTyped DEF IInv, TypeOK
<1>2. Unmapped(role) \in Roles
  BY <1>1, UnmappedTyped
<1>3. ~Unmapped(role).initialSent
  BY DEF Unmapped, NewRole
<1>4. CommittedRole(w, buffer) \in Roles
  BY <1>1, <1>2 DEF CommittedRole
<1> QED
  BY <1>1, <1>3, <1>4 DEF CommittedRole, Places

\* The forced configure of the first buffer informs the client, and keeps the decorations.
LEMMA FirstBufferTells ==
    ASSUME NEW r \in Roles, NEW s \in WindowState, NEW st, NEW wn
    PROVE  /\ FirstBufferRole(r, s, st) \in Roles
           /\ Fine(r, wn) => Fine(FirstBufferRole(r, s, st), wn)
<1> DEFINE d == [Draft(r) EXCEPT !.activated = Top(st, None) = Watched,
                                 !.tiled = ~s.floating /\ ~s.fullscreen,
                                 !.fullscreen = s.fullscreen]
           f == FirstBufferRole(r, s, st)
<1>1. Draft(r) \in ToplevelStates
  BY StatesTyped
<1>2. d \in ToplevelStates /\ d.serverSide = Draft(r).serverSide
  BY <1>1 DEF ToplevelStates, WindowState
<1>3. f = SendConfigure(WithPending(r, d))
  BY DEF FirstBufferRole
<1> HIDE DEF d, f
<1>4. WithPending(r, d) \in Roles /\ Draft(WithPending(r, d)) = d
  BY <1>2, WithPendingTyped
<1>5. f \in Roles /\ Informed(f) /\ Current(f) = d
  BY <1>3, <1>4, SendConfigureTells
<1>6. Fine(r, wn) => Fine(f, wn)
  BY <1>2, <1>5, InformedDraft DEF Fine
<1> QED
  BY <1>5, <1>6 DEF f

\* The rest of commit(): it arranges, or it tells at most the client of a first buffer and
\* changes nothing that an arrangement reads.
LEMMA SettleTells ==
    ASSUME NEW p \in Places, NEW st \in Seq(Window), Distinct(st), NEW w \in Window,
           NEW s \in WindowState, Settle(p, st, w, s),
           windows \in Seq(Window), win \in Wins, view \in Tag
    PROVE  LET wn == [win EXCEPT ![w] = s]
           IN  /\ focusStack' = st /\ win' \in Wins /\ mapped' \in BOOLEAN /\ role' \in Roles
               /\ Fine(p.role, wn) => Fine(role', win')
               /\ \/ Watched \in Elements(windows) => Answered(role', windows, st, win', view)
                  \/ /\ \A x \in Window : Alike(wn[x], win'[x])
                     /\ \/ role' = p.role
                        \/ w = Watched /\ win'[w].bufferMapped # s.bufferMapped
<1> DEFINE wn == [win EXCEPT ![w] = s]
           first == s.content /\ ~s.bufferMapped
           floats == first /\ w \in FixedSize /\ ~s.floating /\ ~s.fullscreen
           told == IF first /\ w = Watched THEN [p EXCEPT !.role = FirstBufferRole(p.role, s, st)]
                   ELSE p
           settled == [s EXCEPT !.bufferMapped = s.bufferMapped \/ first,
                                !.floating = s.floating \/ floats]
           q == IF floats THEN Arranged(told, windows, st, win', view) ELSE told
<1>1. win' = [win EXCEPT ![w] = settled] /\ mapped' = q.mapped /\ role' = q.role
      /\ focusStack' = st
  BY DEF Settle, Becomes
<1>2. /\ settled \in WindowState /\ settled.rulesApplied = s.rulesApplied
      /\ settled.bufferMapped = (s.bufferMapped \/ first)
      /\ ~floats => Alike(s, settled)
  BY DEF WindowState, Alike
<1>3. /\ told \in Places
      /\ Fine(p.role, wn) => Fine(told.role, wn)
      /\ told.role = p.role \/ (w = Watched /\ first)
  <2>1. p.role \in Roles
    BY DEF Places
  <2>2. /\ FirstBufferRole(p.role, s, st) \in Roles
        /\ Fine(p.role, wn) => Fine(FirstBufferRole(p.role, s, st), wn)
    BY <2>1, FirstBufferTells
  <2> HIDE DEF wn, first
  <2>3. CASE first /\ w = Watched
    <3>1. told \in Places /\ told.role = FirstBufferRole(p.role, s, st)
      BY <2>2, <2>3 DEF Places
    <3> QED
      BY <2>2, <2>3, <3>1
  <2>4. CASE ~(first /\ w = Watched)
    BY <2>4
  <2> QED
    BY <2>3, <2>4
<1>4. first \in BOOLEAN /\ (first => settled.bufferMapped # s.bufferMapped)
  BY <1>2 DEF WindowState
<1> HIDE DEF settled, told, floats, first
<1>5. win' \in Wins /\ win'[w] = settled /\ wn[w] = s
      /\ \A x \in Window \ {w} : win'[x] = win[x] /\ wn[x] = win[x]
  BY <1>1, <1>2 DEF Wins
<1>6. win'[Watched].rulesApplied = wn[Watched].rulesApplied
  BY <1>2, <1>5, WatchedAssumption
<1> HIDE DEF wn
<1>7. Fine(told.role, wn) => Fine(told.role, win')
  BY <1>6 DEF Fine
<1>8. q \in Places /\ (Fine(told.role, win') => Fine(q.role, win'))
  <2>1. Arranged(told, windows, st, win', view) \in Places
    BY <1>3, ArrangedTells
  <2>2. Fine(told.role, win') => Fine(Arranged(told, windows, st, win', view).role, win')
    BY <1>3, ArrangedFine
  <2> QED
    BY <1>3, <2>1, <2>2
<1>9. ASSUME floats, Watched \in Elements(windows)
      PROVE  Answered(q.role, windows, st, win', view)
  BY <1>3, <1>9, ArrangedAnswers
<1>10. ASSUME ~floats
       PROVE  \A x \in Window : Alike(wn[x], win'[x])
  <2> SUFFICES ASSUME NEW x \in Window PROVE Alike(wn[x], win'[x])
    OBVIOUS
  <2>1. CASE x = w
    BY <1>2, <1>5, <1>10, <2>1
  <2>2. CASE x # w
    BY <1>5, <2>2 DEF Alike
  <2> QED
    BY <2>1, <2>2
<1>11. ~floats => q = told
  OBVIOUS
<1> HIDE DEF q
<1>12. q.mapped \in BOOLEAN /\ q.role \in Roles
  BY <1>8 DEF Places
<1>13. Fine(p.role, wn) => Fine(role', win')
  BY <1>1, <1>3, <1>7, <1>8
<1>14. \/ Watched \in Elements(windows) => Answered(role', windows, st, win', view)
       \/ /\ \A x \in Window : Alike(wn[x], win'[x])
          /\ \/ role' = p.role
             \/ w = Watched /\ win'[w].bufferMapped # s.bufferMapped
  BY <1>1, <1>3, <1>4, <1>5, <1>9, <1>10, <1>11, Zenon
<1> QED
  BY <1>1, <1>5, <1>12, <1>13, <1>14, Zenon DEF wn

\* What remains to be shown of a commit once its layout is settled.
LEMMA SettledStep ==
    ASSUME IInv, NEW w \in Window, NEW s \in WindowState, s.bufferMapped = win[w].bufferMapped,
           NEW p \in Places, NEW st \in Seq(Window), Distinct(st), Settle(p, st, w, s),
           UNCHANGED <<windows, view>>,
           Open(Watched) => Fine(p.role, [win EXCEPT ![w] = s]),
           \/ Open(Watched) => Answered(p.role, windows, st, [win EXCEPT ![w] = s], view)
           \/ st = focusStack /\ s.tag = win[w].tag
              /\ s.floating = win[w].floating /\ s.fullscreen = win[w].fullscreen
    PROVE  IInv' /\ Reaches
<1> DEFINE wn == [win EXCEPT ![w] = s]
<1>1. /\ windows \in Seq(Window) /\ win \in Wins /\ view \in Tag /\ Distinct(windows)
  BY DEF IInv, TypeOK, Wins
<1>2. /\ focusStack' = st /\ win' \in Wins /\ mapped' \in BOOLEAN /\ role' \in Roles
      /\ Fine(p.role, wn) => Fine(role', win')
      /\ \/ Watched \in Elements(windows) => Answered(role', windows, st, win', view)
         \/ /\ \A x \in Window : Alike(wn[x], win'[x])
            /\ \/ role' = p.role
               \/ w = Watched /\ win'[w].bufferMapped # s.bufferMapped
  BY <1>1, SettleTells
<1>3. wn[w] = s /\ \A x \in Window \ {w} : wn[x] = win[x]
  BY <1>1 DEF Wins
<1>4. IInv'
  BY <1>1, <1>2 DEF IInv, TypeOK, Wins, Open
<1> HIDE DEF wn
<1>5. CASE Watched \in Elements(windows) => Answered(role', windows, st, win', view)
  <2>1. Reaches
    BY <1>2, <1>5, AnsweredReaches DEF Open
  <2> QED
    BY <1>4, <2>1
<1>6. CASE /\ \A x \in Window : Alike(wn[x], win'[x])
           /\ \/ role' = p.role
              \/ w = Watched /\ win'[w].bufferMapped # s.bufferMapped
  <2>1. CASE w = Watched /\ win'[w].bufferMapped # s.bufferMapped
    BY <1>4, <2>1 DEF Reaches
  <2>2. CASE /\ role' = p.role
             /\ Open(Watched) => Answered(p.role, windows, st, wn, view)
    <3>1. AlikeFor(windows, st, wn, win')
      BY <1>1, <1>6, ElementsOf, WatchedAssumption DEF AlikeFor
    <3>2. Open(Watched) => Answered(role', windows, st, win', view)
      BY <1>1, <2>2, <3>1, AlikeAnswered
    <3>3. Reaches
      BY <1>2, <3>2, AnsweredReaches DEF Open
    <3> QED
      BY <1>4, <3>3
  <2>3. CASE /\ st = focusStack /\ s.tag = win[w].tag
             /\ s.floating = win[w].floating /\ s.fullscreen = win[w].fullscreen
    <3>1. ASSUME NEW x \in Window
          PROVE  /\ win'[x].tag = win[x].tag /\ win'[x].floating = win[x].floating
                 /\ win'[x].fullscreen = win[x].fullscreen
      BY <1>3, <1>6, <2>3 DEF Alike
    <3>2. UNCHANGED <<windows, focusStack, view>>
      BY <1>2, <2>3
    <3>3. Reaches
      BY <3>1, <3>2 DEF Reaches
    <3> QED
      BY <1>4, <3>3
  <2> QED
    BY <1>6, <2>1, <2>2, <2>3 DEF wn
<1> QED
  BY <1>2, <1>5, <1>6

LEMMA CommitFirstStep ==
    ASSUME IInv, NEW w \in Window, NEW buffer, CommitFirst(w, buffer),
           UNCHANGED <<windows, view>>
    PROVE  IInv' /\ Reaches
<1>1. PICK t \in Tag, floating \in BOOLEAN :
         LET s == [win[w] EXCEPT !.tag = t, !.floating = @ \/ floating,
                                 !.rulesApplied = TRUE, !.content = HasContent(w, buffer)]
             wn == [win EXCEPT ![w] = s]
             top == Focused(focusStack, wn, view)
             p == Arranged([mapped |-> mapped, role |-> CommittedRole(w, buffer)],
                           windows, focusStack, wn, view)
         IN  Settle(FocusArranged(p, windows, focusStack, wn, view, top),
                    StackAfter(focusStack, top), w, s)
  BY DEF CommitFirst
<1> DEFINE s == [win[w] EXCEPT !.tag = t, !.floating = @ \/ floating,
                               !.rulesApplied = TRUE, !.content = HasContent(w, buffer)]
           wn == [win EXCEPT ![w] = s]
           top == Focused(focusStack, wn, view)
           c == [mapped |-> mapped, role |-> CommittedRole(w, buffer)]
           p == Arranged(c, windows, focusStack, wn, view)
           q == FocusArranged(p, windows, focusStack, wn, view, top)
           st == StackAfter(focusStack, top)
<1>2. Settle(q, st, w, s)
  BY <1>1
<1>3. /\ windows \in Seq(Window) /\ focusStack \in Seq(Window) /\ Distinct(focusStack)
      /\ win \in [Window -> WindowState] /\ view \in Tag
  BY DEF IInv, TypeOK
<1>4. /\ s \in WindowState /\ s.bufferMapped = win[w].bufferMapped /\ s.rulesApplied
  <2>1. HasContent(w, buffer) \in BOOLEAN /\ win[w] \in WindowState
    BY <1>3 DEF HasContent, WindowState
  <2> QED
    BY <2>1 DEF WindowState
<1> HIDE DEF s
<1>5. wn \in Wins /\ (w = Watched => wn[Watched].rulesApplied)
      /\ (w # Watched => wn[Watched] = win[Watched])
  BY <1>3, <1>4, WatchedAssumption DEF Wins
<1>6. c \in Places /\ c.role = CommittedRole(w, buffer)
      /\ (w # Watched => c.role = role)
  BY CommittedRoleTyped
<1> HIDE DEF wn, c
<1>7. top \in Window \cup {None}
  BY <1>3, FocusedTyped
<1>8. p \in Places /\ (Watched \in Elements(windows) => Answered(p.role, windows, focusStack, wn, view))
  BY <1>3, <1>6, ArrangedTells, ArrangedAnswers
<1>9. Open(Watched) => Fine(p.role, wn)
  <2>1. CASE w = Watched
    BY <1>3, <1>5, <1>6, <2>1, ArrangedInforms DEF Open
  <2>2. CASE w # Watched
    <3>1. Open(Watched) => Fine(c.role, wn)
      BY <1>5, <1>6, <2>2, FineKept
    <3> QED
      BY <1>3, <1>6, <3>1, ArrangedFine
  <2> QED
    BY <2>1, <2>2
<1> HIDE DEF p, top
<1>10. /\ q \in Places
       /\ Fine(p.role, wn) => Fine(q.role, wn)
       /\ Watched \in Elements(windows) /\ Answered(p.role, windows, focusStack, wn, view)
            => Answered(q.role, windows, st, wn, view)
  BY <1>3, <1>7, <1>8, FocusArrangedTells
<1>11. st \in Seq(Window) /\ Distinct(st)
  BY <1>3, <1>7, StackAfterTyped
<1> HIDE DEF q, st
<1>12. /\ Open(Watched) => Fine(q.role, wn)
       /\ Open(Watched) => Answered(q.role, windows, st, wn, view)
  BY <1>8, <1>9, <1>10 DEF Open
<1> QED
  BY <1>2, <1>4, <1>10, <1>11, <1>12, SettledStep DEF wn

LEMMA CommitLaterStep ==
    ASSUME IInv, NEW w \in Window, NEW buffer, CommitLater(w, buffer),
           UNCHANGED <<windows, view>>
    PROVE  IInv' /\ Reaches
<1> DEFINE s == [win[w] EXCEPT !.content = HasContent(w, buffer)]
           wn == [win EXCEPT ![w] = s]
           c == [mapped |-> mapped, role |-> CommittedRole(w, buffer)]
           a == Arranged(c, windows, focusStack, wn, view)
           p == IF c.role.initialSent THEN c ELSE a
<1>1. Settle(p, focusStack, w, s) /\ Open(w) /\ win[w].rulesApplied
  BY DEF CommitLater
<1>2. /\ windows \in Seq(Window) /\ focusStack \in Seq(Window) /\ Distinct(focusStack)
      /\ win \in [Window -> WindowState] /\ view \in Tag
  BY DEF IInv, TypeOK
<1>3. /\ s \in WindowState /\ s.bufferMapped = win[w].bufferMapped /\ s.rulesApplied
      /\ s.tag = win[w].tag /\ s.floating = win[w].floating /\ s.fullscreen = win[w].fullscreen
  <2>1. HasContent(w, buffer) \in BOOLEAN /\ win[w] \in WindowState
    BY <1>2 DEF HasContent, WindowState
  <2> QED
    BY <1>1, <2>1 DEF WindowState
<1> HIDE DEF s
<1>4. wn \in Wins /\ (w = Watched => wn[Watched].rulesApplied)
      /\ (w # Watched => wn[Watched] = win[Watched])
  BY <1>2, <1>3, WatchedAssumption DEF Wins
<1>5. c \in Places /\ c.role = CommittedRole(w, buffer)
      /\ (c.role = role \/ (w = Watched /\ ~c.role.initialSent))
  BY CommittedRoleTyped
<1> HIDE DEF wn, c
<1>6. a \in Places
  BY <1>2, <1>5, ArrangedTells
<1>7. p \in Places
  BY <1>5, <1>6
<1>8. Open(Watched) => Fine(p.role, wn)
  <2>1. CASE c.role = role
    <3>1. Open(Watched) => Fine(c.role, wn)
      <4>1. w = Watched => wn[Watched].rulesApplied
        BY <1>4
      <4> QED
        BY <1>4, <2>1, <4>1 DEF IInv, Fine
    <3>2. Open(Watched) => c.role.initialSent
      BY <3>1 DEF Fine, Informed
    <3> QED
      BY <3>1, <3>2
  <2>2. CASE w = Watched /\ ~c.role.initialSent
    BY <1>2, <1>4, <1>5, <2>2, ArrangedInforms DEF Open
  <2> QED
    BY <1>5, <2>1, <2>2
<1> HIDE DEF p
<1> QED
  BY <1>1, <1>2, <1>3, <1>7, <1>8, SettledStep DEF wn

\* toplevel_destroyed: the window that goes is no longer in any list that is arranged.
LEMMA CloseStep ==
    ASSUME IInv, NEW w \in Window, Close(w)
    PROVE  IInv' /\ Reaches
<1> DEFINE st == Without(focusStack, w)
           master == FirstIn(windows', Tiled(win, view), None)
           top == IF win[w].bufferMapped /\ master # None THEN master
                  ELSE Focused(st, win, view)
           p == IF w = Watched THEN [mapped |-> FALSE, role |-> NewRole] ELSE Now
<1>1. /\ windows' = Without(windows, w) /\ win' = [win EXCEPT ![w] = NewWindow(view)]
      /\ view' = view /\ FocusThenArrange(p, windows', st, win, view, top)
  BY DEF Close
<1>2. /\ windows \in Seq(Window) /\ focusStack \in Seq(Window) /\ Distinct(focusStack)
      /\ Distinct(windows) /\ win \in [Window -> WindowState] /\ view \in Tag
  BY DEF IInv, TypeOK
<1>3. windows' \in Seq(Window) /\ Distinct(windows')
      /\ Elements(windows') = Elements(windows) \ {w}
  BY <1>1, <1>2, WithoutElements
<1>4. st \in Seq(Window) /\ Distinct(st) /\ Elements(st) = Elements(focusStack) \ {w}
  BY <1>2, WithoutElements
<1>5. p \in Places
  BY NewRoleTyped, NowTyped DEF Places
<1> HIDE DEF st, p
<1>6. top \in (Window \ {w}) \cup {None}
  <2>1. master = None \/ master \in Elements(windows')
    BY <1>3, FirstInFinds
  <2>2. Elements(windows') \subseteq Window
    BY <1>3, ElementsOf
  <2>3. Focused(st, win, view) \in Elements(st) \cup {None} /\ Elements(st) \subseteq Window
    BY <1>4, FocusedTyped
  <2> HIDE DEF master
  <2> QED
    BY <1>3, <1>4, <2>1, <2>2, <2>3
<1> HIDE DEF top
<1>7. Told(p, windows', win, view) /\ focusStack' = StackAfter(st, top)
  BY <1>1, <1>3, <1>4, <1>5, <1>6, FocusThenArrangeTells
<1>8. focusStack' \in Seq(Window) /\ w \notin Elements(focusStack')
  <2>1. /\ StackAfter(st, top) \in Seq(Window)
        /\ Elements(StackAfter(st, top)) \subseteq Elements(st) \cup {top}
    BY <1>4, <1>6, StackAfterTyped
  <2> QED
    BY <1>4, <1>6, <1>7, <2>1, WatchedAssumption
<1>9. win' \in Wins /\ \A x \in Window \ {w} : win'[x] = win[x]
  BY <1>1, <1>2 DEF Wins, NewWindow, WindowState
<1>10. CASE w = Watched
  <2>1. ~Open(Watched)'
    BY <1>3, <1>10 DEF Open
  <2>2. IInv'
    BY <1>1, <1>2, <1>3, <1>7, <1>9, <2>1 DEF IInv, TypeOK, Told, Wins
  <2> QED
    BY <2>1, <2>2, AnsweredReaches
<1>11. CASE w # Watched
  <2>1. AlikeFor(windows', focusStack', win, win')
    <3>1. Elements(windows') \subseteq Window /\ Elements(focusStack') \subseteq Window
      BY <1>3, <1>8, ElementsOf
    <3> QED
      BY <1>3, <1>8, <1>9, <1>11, <3>1, WatchedAssumption DEF AlikeFor, Alike
  <2>2. win'[Watched] = win[Watched]
    BY <1>9, <1>11, WatchedAssumption
  <2>3. Told(p, windows', win', view')
    <3>1. Watched \in Elements(windows') => Answered(role', windows', focusStack', win', view)
      BY <1>3, <1>7, <1>8, <2>1, AlikeAnswered DEF Told
    <3>2. Fine(p.role, win') => Fine(role', win')
      BY <1>7, <2>2 DEF Told, Fine
    <3> QED
      BY <1>1, <1>7, <3>1, <3>2 DEF Told
  <2>4. Open(Watched)' => Fine(p.role, win')
    <3>1. Open(Watched)' => Open(Watched)
      BY <1>3 DEF Open
    <3>2. p.role = role
      BY <1>11, NowTyped DEF p
    <3> QED
      BY <2>2, <3>1, <3>2, FineKept
  <2> QED
    BY <1>1, <1>2, <1>3, <1>5, <1>9, <2>3, <2>4, ToldStep
<1> QED
  BY <1>10, <1>11

-----------------------------------------------------------------------------
LEMMA NextStep ==
    ASSUME IInv, Next
    PROVE  IInv' /\ Reaches
<1>1. CASE Binding
  <2>1. \/ \E t \in Tag : View(t) \/ TagFocused(t)
        \/ ToggleFloating \/ ToggleFullscreen \/ ResizeGrab
        \/ \E w \in Window : FocusWindow(w)
    BY <1>1 DEF Binding
  <2> QED
    BY <2>1, ViewStep, TagFocusedStep, ToggleFloatingStep, ToggleFullscreenStep,
       ResizeGrabStep, FocusWindowStep
<1>2. ASSUME NEW w \in Window, Request(w)
      PROVE  IInv' /\ Reaches
  <2>1. CASE NewToplevel(w)
    BY <2>1, NewToplevelStep
  <2>2. CASE \E on \in BOOLEAN : FullscreenRequest(w, on)
    BY <2>2, FullscreenRequestStep
  <2>3. ASSUME NEW buffer, Commit(w, buffer)
        PROVE  IInv' /\ Reaches
    BY <2>3, CommitFirstStep, CommitLaterStep DEF Commit
  <2> QED
    BY <1>2, <2>1, <2>2, <2>3 DEF Request
<1>3. CASE Decoration
  BY <1>3, DecorationStep
<1>4. CASE DestroyDecoration
  BY <1>4, DestroyDecorationStep
<1>5. CASE \E i \in DOMAIN role.sent : Ack(i)
  BY <1>5, AckStep
<1>6. CASE \E w \in Window : Close(w)
  BY <1>6, CloseStep
<1> QED
  BY <1>1, <1>2, <1>3, <1>4, <1>5, <1>6 DEF Next

LEMMA StutterStep ==
    ASSUME IInv, UNCHANGED vars
    PROVE  IInv'
BY DEF IInv, TypeOK, vars, Fine, Informed, Current, Open

\* The inductive invariant: the lists are typed and free of duplicates, and the client of an
\* open window was sent its initial configure and all that any handler left pending since.
THEOREM Invariant == Spec => []IInv
<1>1. IInv /\ [Next]_vars => IInv'
  BY NextStep, StutterStep
<1> QED
  BY <1>1, InitInv, PTL DEF Spec

\* Type correctness: in particular every configure carries a size that arrange() computed
\* from the list of tiles, with the watched window among them.
THEOREM TypeCorrect == Spec => []TypeOK
<1>1. IInv => TypeOK
  BY DEF IInv
<1> QED
  BY <1>1, Invariant, PTL

\* Between two handlers nothing is pending that the client was not sent (send_configure,
\* send_pending_configure and every with_pending_state before them).
THEOREM NothingLeftUnsent == Spec => []NothingUnsent
<1>1. IInv => NothingUnsent
  BY DEF IInv, Fine, Informed, NothingUnsent
<1> QED
  BY <1>1, Invariant, PTL

\* An open window has its initial configure, whatever null buffers reset its role.
THEOREM InitialConfigureSent == Spec => []AlwaysConfigured
<1>1. IInv => AlwaysConfigured
  BY DEF IInv, Fine, Informed, AlwaysConfigured
<1> QED
  BY <1>1, Invariant, PTL

\* Whatever changes the layout, the focus or the view, the last configure sent says what the
\* new arrangement wants.
THEOREM ArrangementSent == Spec => ArrangeReachesClient
<1>1. IInv /\ [Next]_vars => [Reaches]_vars
  BY NextStep
<1> QED
  BY <1>1, Invariant, PTL DEF Spec, ArrangeReachesClient, Reaches
=============================================================================

--------------------------- MODULE ScanOutProofs ---------------------------
(***************************************************************************)
(* What an output shows, for any elements over any regions: a buffer that  *)
(* is repainted in part, from the damage its age says it missed, ends up   *)
(* with the whole scene, and a frame on the screen or on its way there     *)
(* keeps what it was composed from.                                        *)
(***************************************************************************)
EXTENDS ScanOut, StacksLemmas, FiniteSetTheorems

-----------------------------------------------------------------------------
(* Lists of elements.                                                       *)

\* An element is on the list once.
DistinctIds(s) == \A i, j \in DOMAIN s : s[i].id = s[j].id => i = j

\* `at` names the positions of s that the list v keeps, of the first n.
Picks(s, v, at, n) ==
    /\ v \in Seq(Layers) /\ at \in [1 .. Len(v) -> 1 .. n]
    /\ \A m \in 1 .. Len(v) : v[m] = s[at[m]]
    /\ \A k, m \in 1 .. Len(v) : k < m => at[k] < at[m]
    /\ \A i \in 1 .. n : Uncovered(s, i) <=> \E m \in 1 .. Len(v) : at[m] = i

LEMMA PicksOne ==
    ASSUME NEW s \in Seq(Layers), NEW n \in 1 .. Len(s), NEW v, NEW at,
           Picks(s, v, at, n - 1), Uncovered(s, n)
    PROVE  \E bt : Picks(s, Append(v, s[n]), bt, n)
<1> DEFINE l == Len(v)
           w == Append(v, s[n])
           bt == [m \in 1 .. (l + 1) |-> IF m <= l THEN at[m] ELSE n]
<1>1. /\ v \in Seq(Layers) /\ l \in Nat /\ s[n] \in Layers /\ n \in Nat
      /\ at \in [1 .. l -> 1 .. (n - 1)]
  BY DEF Picks
<1>2. /\ w \in Seq(Layers) /\ Len(w) = l + 1 /\ w[l + 1] = s[n]
      /\ \A m \in 1 .. l : w[m] = v[m]
  BY <1>1
<1> HIDE DEF w
<1>3. /\ \A m \in 1 .. l : v[m] = s[at[m]] /\ at[m] \in 1 .. (n - 1)
      /\ \A k, m \in 1 .. l : k < m => at[k] < at[m]
      /\ \A i \in 1 .. (n - 1) : Uncovered(s, i) <=> \E m \in 1 .. l : at[m] = i
  BY <1>1 DEF Picks
<1> HIDE DEF l
<1>4. bt \in [1 .. (l + 1) -> 1 .. n]
  BY <1>1
<1>5. \A m \in 1 .. (l + 1) : (m \in 1 .. l /\ bt[m] = at[m]) \/ (m = l + 1 /\ bt[m] = n)
  BY <1>1
<1>6. bt[l + 1] = n /\ \A m \in 1 .. l : bt[m] = at[m] /\ m \in 1 .. (l + 1)
  BY <1>1
<1> HIDE DEF bt
<1>7. \A m \in 1 .. (l + 1) : w[m] = s[bt[m]]
  BY <1>2, <1>3, <1>5
<1>8. \A k, m \in 1 .. (l + 1) : k < m => bt[k] < bt[m]
  <2> SUFFICES ASSUME NEW k \in 1 .. (l + 1), NEW m \in 1 .. (l + 1), k < m
               PROVE  bt[k] < bt[m]
    OBVIOUS
  <2>1. k \in 1 .. l
    BY <1>1
  <2>2. bt[k] = at[k] /\ at[k] \in 1 .. (n - 1)
    BY <1>3, <1>6, <2>1
  <2>3. CASE m = l + 1
    BY <1>1, <1>6, <2>2, <2>3
  <2>4. CASE m \in 1 .. l
    BY <1>3, <1>6, <2>1, <2>2, <2>4
  <2> QED
    BY <1>1, <2>3, <2>4
<1>9. \A i \in 1 .. n : Uncovered(s, i) <=> \E m \in 1 .. (l + 1) : bt[m] = i
  <2> TAKE i \in 1 .. n
  <2>1. CASE i = n
    BY <1>1, <1>6, <2>1
  <2>2. CASE i # n
    <3>1. i \in 1 .. (n - 1)
      BY <1>1, <2>2
    <3>2. (\E m \in 1 .. (l + 1) : bt[m] = i) <=> (\E m \in 1 .. l : at[m] = i)
      BY <1>5, <1>6, <2>2
    <3> QED
      BY <1>3, <3>1, <3>2
  <2> QED
    BY <2>1, <2>2
<1>10. Picks(s, w, bt, n)
  BY <1>2, <1>4, <1>7, <1>8, <1>9 DEF Picks
<1> QED
  BY <1>10 DEF w

LEMMA PicksNone ==
    ASSUME NEW s \in Seq(Layers), NEW n \in 1 .. Len(s), NEW v, NEW at,
           Picks(s, v, at, n - 1), ~Uncovered(s, n)
    PROVE  Picks(s, v, at, n)
<1>1. /\ v \in Seq(Layers) /\ Len(v) \in Nat
      /\ at \in [1 .. Len(v) -> 1 .. (n - 1)]
  BY DEF Picks
<1>2. at \in [1 .. Len(v) -> 1 .. n] /\ \A m \in 1 .. Len(v) : at[m] \in 1 .. (n - 1)
  BY <1>1
<1>3. \A i \in 1 .. n : i = n \/ i \in 1 .. (n - 1)
  OBVIOUS
<1>4. \A i \in 1 .. n : Uncovered(s, i) <=> \E m \in 1 .. Len(v) : at[m] = i
  BY <1>2, <1>3 DEF Picks
<1> QED
  BY <1>1, <1>2, <1>4 DEF Picks

\* What is left of a list is a part of it in the same order.
LEMMA VisiblePicks ==
    ASSUME NEW s \in Seq(Layers)
    PROVE  \E at : Picks(s, Visible(s), at, Len(s))
<1> DEFINE n == Len(s)
           Y == Seq(Layers)
           list[i \in 0 .. Len(s)] ==
             IF i = 0 THEN <<>>
             ELSE IF Uncovered(s, i) THEN Append(list[i - 1], s[i])
             ELSE list[i - 1]
           step == [i \in 1 .. n |-> [q \in Y |-> IF Uncovered(s, i) THEN Append(q, s[i]) ELSE q]]
<1>1. n \in Nat /\ \A i \in 1 .. n : s[i] \in Layers
  OBVIOUS
<1>2. Visible(s) = list[n]
  BY DEF Visible
<1>3. \A i \in 1 .. n : \A q \in Y : (IF Uncovered(s, i) THEN Append(q, s[i]) ELSE q) \in Y
  BY <1>1
<1>4. <<>> \in Y
  OBVIOUS
<1> HIDE DEF Y
<1>5. step \in [1 .. n -> [Y -> Y]]
  BY <1>3
<1>6. \A i \in 1 .. n : \A q \in Y : step[i][q] = IF Uncovered(s, i) THEN Append(q, s[i]) ELSE q
  OBVIOUS
<1>7. \A i \in 1 .. n : i \in 0 .. n /\ i - 1 \in 0 .. n /\ i # 0
  BY <1>1
<1>8. list = [i \in 0 .. n |->
               IF i = 0 THEN <<>>
               ELSE IF Uncovered(s, i) THEN Append(list[i - 1], s[i]) ELSE list[i - 1]]
  <2>1. PICK f \in [0 .. n -> Y] : Iterates(f, n, <<>>, step)
    <3> HIDE DEF n, step, list
    <3> QED
      BY <1>1, <1>4, <1>5, LoopExists
  <2>2. \A i \in 1 .. n : f[i] = IF Uncovered(s, i) THEN Append(f[i - 1], s[i]) ELSE f[i - 1]
    <3> HIDE DEF step, list
    <3> QED
      BY <1>6, <1>7, <2>1 DEF Iterates
  <2>3. \A i \in 0 .. n : i # 0 => i \in 1 .. n
    BY <1>1
  <2>4. f = [i \in 0 .. n |->
               IF i = 0 THEN <<>>
               ELSE IF Uncovered(s, i) THEN Append(f[i - 1], s[i]) ELSE f[i - 1]]
    BY <2>1, <2>2, <2>3 DEF Iterates
  <2> QED
    BY <2>4
<1> HIDE DEF list, step
<1> DEFINE T == {i \in 0 .. n : \E at : Picks(s, list[i], at, i)}
<1>9. 0 \in T
  <2>1. list[0] = <<>>
    BY <1>1, <1>8
  <2> DEFINE at == [m \in 1 .. 0 |-> m]
  <2>2. Picks(s, <<>>, at, 0)
    <3>1. <<>> \in Seq(Layers) /\ Len(<<>>) = 0 /\ at \in [1 .. 0 -> 1 .. 0]
      OBVIOUS
    <3> HIDE DEF at
    <3> QED
      BY <3>1 DEF Picks
  <2> HIDE DEF at
  <2> QED
    BY <1>1, <2>1, <2>2
<1>10. \A i \in 1 .. n : i - 1 \in T => i \in T
  <2> SUFFICES ASSUME NEW i \in 1 .. n, i - 1 \in T PROVE i \in T
    OBVIOUS
  <2>1. PICK at : Picks(s, list[i - 1], at, i - 1)
    OBVIOUS
  <2>2. list[i] = IF Uncovered(s, i) THEN Append(list[i - 1], s[i]) ELSE list[i - 1]
    BY <1>7, <1>8
  <2>3. \E bt : Picks(s, list[i], bt, i)
    <3>1. CASE Uncovered(s, i)
      BY <2>1, <2>2, <3>1, PicksOne
    <3>2. CASE ~Uncovered(s, i)
      BY <2>1, <2>2, <3>2, PicksNone
    <3> QED
      BY <3>1, <3>2
  <2> QED
    BY <1>7, <2>3
<1>11. 0 .. n \subseteq T
  <2> HIDE DEF T
  <2> QED
    BY <1>1, <1>9, <1>10, UpTo
<1>12. n \in T
  BY <1>1, <1>11
<1> QED
  BY <1>2, <1>12

LEMMA TopmostUncovered ==
    ASSUME NEW s \in Seq(Layers), NEW p, NEW i \in Topmost(s, p)
    PROVE  i \in 1 .. Len(s) /\ Uncovered(s, i)
<1>1. /\ i \in 1 .. Len(s) /\ p \in s[i].geo
      /\ \A j \in 1 .. (i - 1) : p \in s[j].geo => s[j].id \notin Opaque
  BY DEF Topmost
<1> QED
  BY <1>1 DEF Uncovered

\* If something opaque is in front of a position, something opaque that is
\* itself not covered is.
LEMMA FirstOpaque ==
    ASSUME NEW s \in Seq(Layers), NEW p, NEW i \in 1 .. Len(s),
           NEW j \in 1 .. (i - 1), p \in s[j].geo, s[j].id \in Opaque
    PROVE  \E k \in 1 .. (i - 1) : p \in s[k].geo /\ s[k].id \in Opaque /\ Uncovered(s, k)
<1> DEFINE B == {k \in 1 .. (i - 1) : p \in s[k].geo /\ s[k].id \in Opaque}
<1>1. B \in SUBSET Nat /\ B # {}
  OBVIOUS
<1>2. PICK k \in B : \A l \in B : k <= l
  <2> HIDE DEF B
  <2> QED
    BY <1>1, FirstPosition
<1>3. \A l \in 1 .. (k - 1) : l \in 1 .. (i - 1) /\ ~(k <= l)
  OBVIOUS
<1>4. \A l \in 1 .. (k - 1) : p \in s[l].geo => s[l].id \notin Opaque
  BY <1>2, <1>3
<1>5. Uncovered(s, k)
  BY <1>4 DEF Uncovered
<1> QED
  BY <1>5

\* What is behind opaque elements cannot be seen.
LEMMA SeenVisible ==
    ASSUME NEW s \in Seq(Layers), NEW p
    PROVE  Seen(Visible(s), p) = Seen(s, p)
<1> DEFINE v == Visible(s)
           l == Len(v)
           n == Len(s)
<1>1. PICK at : Picks(s, v, at, n)
  BY VisiblePicks
<1> HIDE DEF v
<1>2. /\ v \in Seq(Layers) /\ l \in Nat /\ n \in Nat /\ DOMAIN v = 1 .. l /\ DOMAIN s = 1 .. n
      /\ \A m \in 1 .. l : at[m] \in 1 .. n /\ v[m] = s[at[m]]
      /\ \A k, m \in 1 .. l : k < m => at[k] < at[m]
      /\ \A i \in 1 .. n : Uncovered(s, i) <=> \E m \in 1 .. l : at[m] = i
  BY <1>1 DEF Picks
<1> HIDE DEF l
<1>3. \A k, m \in 1 .. l : at[k] < at[m] => k < m
  <2> TAKE k, m \in 1 .. l
  <2>1. at[k] \in Int /\ at[m] \in Int
    BY <1>2
  <2>2. k = m \/ k < m \/ m < k
    BY <1>2
  <2> QED
    BY <1>2, <2>1, <2>2
<1>4. ASSUME NEW m \in 1 .. l, at[m] \in Topmost(s, p)
      PROVE  m \in Topmost(v, p)
  <2> SUFFICES ASSUME NEW k \in 1 .. (m - 1), p \in v[k].geo, v[k].id \in Opaque PROVE FALSE
    BY <1>2, <1>4 DEF Topmost
  <2>1. k \in 1 .. l /\ k < m
    BY <1>2
  <2>2. at[k] \in 1 .. (at[m] - 1)
    BY <1>2, <2>1
  <2> QED
    BY <1>2, <1>4, <2>1, <2>2 DEF Topmost
<1>5. ASSUME NEW m \in 1 .. l, m \in Topmost(v, p)
      PROVE  at[m] \in Topmost(s, p)
  <2>1. p \in s[at[m]].geo /\ at[m] \in 1 .. n
    BY <1>2, <1>5 DEF Topmost
  <2> SUFFICES ASSUME NEW j \in 1 .. (at[m] - 1), p \in s[j].geo, s[j].id \in Opaque PROVE FALSE
    BY <1>2, <2>1 DEF Topmost
  <2>2. PICK i \in 1 .. (at[m] - 1) : p \in s[i].geo /\ s[i].id \in Opaque /\ Uncovered(s, i)
    BY <2>1, FirstOpaque
  <2>3. i \in 1 .. n /\ i < at[m]
    BY <2>1
  <2>4. PICK k \in 1 .. l : at[k] = i
    BY <1>2, <2>2, <2>3
  <2>5. k \in 1 .. (m - 1)
    BY <1>2, <1>3, <2>3, <2>4
  <2> QED
    BY <1>2, <1>5, <2>2, <2>4, <2>5 DEF Topmost
<1>6. \A i \in Topmost(s, p) : \E m \in 1 .. l : at[m] = i /\ m \in Topmost(v, p)
  BY <1>2, <1>4, TopmostUncovered
<1>7. Topmost(v, p) \subseteq 1 .. l
  BY <1>2 DEF Topmost
<1> DEFINE Above(t, i) == {t[j].id : j \in {k \in Topmost(t, p) : k < i}}
<1>8. ASSUME NEW m \in Topmost(v, p)
      PROVE  Above(v, m) = Above(s, at[m])
  <2>1. \A k \in Topmost(v, p) : k < m =>
          at[k] \in Topmost(s, p) /\ at[k] < at[m] /\ v[k] = s[at[k]]
    BY <1>2, <1>5, <1>7, <1>8
  <2>2. \A i \in Topmost(s, p) : i < at[m] =>
          \E k \in Topmost(v, p) : k < m /\ v[k] = s[i]
    BY <1>2, <1>3, <1>6, <1>7, <1>8
  <2> QED
    BY <2>1, <2>2
<1> HIDE DEF Above
<1>9. \A m \in Topmost(v, p) : at[m] \in Topmost(s, p) /\ v[m] = s[at[m]] /\ Above(v, m) = Above(s, at[m])
  BY <1>2, <1>5, <1>7, <1>8
<1>10. \A i \in Topmost(s, p) : \E m \in Topmost(v, p) : at[m] = i
  BY <1>6
<1>11. {<<v[m].id, v[m].commit, Above(v, m)>> : m \in Topmost(v, p)}
         = {<<s[i].id, s[i].commit, Above(s, i)>> : i \in Topmost(s, p)}
  BY <1>9, <1>10
<1> QED
  BY <1>11 DEF Seen, Above, v

LEMMA ImageVisible ==
    ASSUME NEW s \in Seq(Layers)
    PROVE  Image(Visible(s)) = Image(s)
BY SeenVisible DEF Image

LEMMA VisibleKeeps ==
    ASSUME NEW s \in Seq(Layers), DistinctIds(s)
    PROVE  Visible(s) \in Seq(Layers) /\ DistinctIds(Visible(s))
<1> DEFINE v == Visible(s)
<1>1. PICK at : Picks(s, v, at, Len(s))
  BY VisiblePicks
<1> HIDE DEF v
<1>2. /\ v \in Seq(Layers) /\ DOMAIN v = 1 .. Len(v) /\ Len(v) \in Nat
      /\ \A m \in 1 .. Len(v) : at[m] \in 1 .. Len(s) /\ v[m] = s[at[m]]
      /\ \A k, m \in 1 .. Len(v) : k < m => at[k] < at[m]
  BY <1>1 DEF Picks
<1>3. \A k, m \in 1 .. Len(v) : v[k].id = v[m].id => k = m
  <2> SUFFICES ASSUME NEW k \in 1 .. Len(v), NEW m \in 1 .. Len(v), v[k].id = v[m].id
               PROVE  k = m
    OBVIOUS
  <2>1. at[k] = at[m]
    BY <1>2 DEF DistinctIds
  <2>2. k = m \/ k < m \/ m < k
    BY <1>2
  <2>3. at[k] \in Int
    BY <1>2
  <2> QED
    BY <1>2, <2>1, <2>2, <2>3
<1>4. DistinctIds(v)
  BY <1>2, <1>3 DEF DistinctIds
<1> QED
  BY <1>2, <1>4 DEF v

-----------------------------------------------------------------------------
(* Damage.                                                                  *)

Trackers ==
    [known : BOOLEAN, elements : Seq(Layers), opaque : SUBSET Pixel, old : Seq(SUBSET Pixel)]

\* Two lists with the same elements at the same places over a region show the
\* same in it.
LEMMA SameOver ==
    ASSUME NEW s \in Seq(Layers), NEW t \in Seq(Layers), NEW p,
           \A i \in DOMAIN s : p \in s[i].geo => i \in DOMAIN t /\ t[i] = s[i],
           \A i \in DOMAIN t : p \in t[i].geo => i \in DOMAIN s /\ s[i] = t[i]
    PROVE  Seen(s, p) = Seen(t, p)
<1>1. /\ DOMAIN s = 1 .. Len(s) /\ DOMAIN t = 1 .. Len(t) /\ Len(s) \in Nat /\ Len(t) \in Nat
  OBVIOUS
<1>2. \A i \in DOMAIN s : \A j \in 1 .. (i - 1) : j \in DOMAIN s
  BY <1>1
<1>3. \A i \in DOMAIN t : \A j \in 1 .. (i - 1) : j \in DOMAIN t
  BY <1>1
<1>4. ASSUME NEW i \in Topmost(s, p)
      PROVE  i \in Topmost(t, p) /\ t[i] = s[i]
  BY <1>3 DEF Topmost
<1>5. ASSUME NEW i \in Topmost(t, p)
      PROVE  i \in Topmost(s, p) /\ t[i] = s[i]
  BY <1>2 DEF Topmost
<1>6. Topmost(s, p) = Topmost(t, p) /\ \A i \in Topmost(s, p) : s[i] = t[i]
  BY <1>4, <1>5
<1> HIDE DEF Topmost
<1>7. \A i \in Topmost(s, p) :
        {s[j].id : j \in {k \in Topmost(s, p) : k < i}} = {t[j].id : j \in {k \in Topmost(t, p) : k < i}}
  <2> SUFFICES ASSUME NEW i \in Topmost(s, p)
               PROVE  {s[j].id : j \in {k \in Topmost(s, p) : k < i}}
                         = {t[j].id : j \in {k \in Topmost(t, p) : k < i}}
    OBVIOUS
  <2> DEFINE above == {k \in Topmost(s, p) : k < i}
  <2>1. above = {k \in Topmost(t, p) : k < i}
    BY <1>6
  <2>2. \A j \in above : s[j].id = t[j].id
    BY <1>6
  <2> HIDE DEF above
  <2>3. {s[j].id : j \in above} = {t[j].id : j \in above}
    BY <2>2
  <2> QED
    BY <2>1, <2>3 DEF above
<1> QED
  BY <1>6, <1>7 DEF Seen

\* A region that is not damaged shows what it did.
LEMMA Undamaged ==
    ASSUME NEW d \in Trackers, d.known, DistinctIds(d.elements),
           NEW s \in Seq(Layers), NEW p, p \notin NewDamage(d, s)
    PROVE  Seen(d.elements, p) = Seen(s, p)
<1> DEFINE t == d.elements
<1>1. t \in Seq(Layers)
  BY DEF Trackers
<1>2. /\ \A i \in DOMAIN s : p \notin ElementDamage(d, s, i)
      /\ \A k \in DOMAIN t : p \in t[k].geo => \E i \in DOMAIN s : s[i].id = t[k].id
  <2> DEFINE changed == {ElementDamage(d, s, i) : i \in DOMAIN s}
             gone == {t[k].geo : k \in {j \in DOMAIN t : \A i \in DOMAIN s : s[i].id # t[j].id}}
  <2>1. NewDamage(d, s) = (UNION changed) \union (UNION gone) \union (d.opaque \ OpaqueRegions(s))
    BY DEF NewDamage
  <2> HIDE DEF changed, gone
  <2>2. p \notin UNION changed /\ p \notin UNION gone
    BY <2>1
  <2>3. \A i \in DOMAIN s : p \notin ElementDamage(d, s, i)
    BY <2>2 DEF changed
  <2>4. \A k \in DOMAIN t : p \in t[k].geo => \E i \in DOMAIN s : s[i].id = t[k].id
    BY <2>2 DEF gone
  <2> QED
    BY <2>3, <2>4
<1> DEFINE last(i) == LastDrawn(d, s[i].id)
<1>3. ASSUME NEW i \in DOMAIN s
      PROVE  /\ last(i) = {k \in DOMAIN t : t[k].id = s[i].id}
             /\ ~(i \in last(i) /\ t[i].geo = s[i].geo)
                  => p \notin s[i].geo /\ \A k \in last(i) : p \notin t[k].geo
             /\ i \in last(i) /\ t[i].geo = s[i].geo /\ p \in s[i].geo
                  => t[i].commit = s[i].commit
  <2>1. p \notin ElementDamage(d, s, i)
    BY <1>2
  <2>2. last(i) = {k \in DOMAIN t : t[k].id = s[i].id}
    BY DEF LastDrawn
  <2>3. CASE i \in last(i) /\ t[i].geo = s[i].geo
    BY <2>1, <2>2, <2>3 DEF ElementDamage
  <2>4. CASE ~(i \in last(i) /\ t[i].geo = s[i].geo)
    <3>1. ElementDamage(d, s, i) = s[i].geo \union UNION {t[k].geo : k \in last(i)}
      BY <2>4 DEF ElementDamage
    <3> QED
      BY <2>1, <2>2, <2>4, <3>1
  <2> QED
    BY <2>3, <2>4
<1> HIDE DEF last
<1>4. \A i \in DOMAIN s : s[i] \in Layers
  OBVIOUS
<1>5. \A i \in DOMAIN t : t[i] \in Layers
  BY <1>1
<1>6. ASSUME NEW i \in DOMAIN s, p \in s[i].geo
      PROVE  i \in DOMAIN t /\ t[i] = s[i]
  <2>1. i \in last(i) /\ t[i].geo = s[i].geo /\ t[i].commit = s[i].commit
    BY <1>3, <1>6
  <2>2. i \in DOMAIN t /\ t[i].id = s[i].id
    BY <1>3, <2>1
  <2>3. ASSUME NEW e \in Layers, NEW f \in Layers, e.id = f.id, e.geo = f.geo, e.commit = f.commit
        PROVE  e = f
    BY <2>3 DEF Layers
  <2>4. s[i] \in Layers /\ t[i] \in Layers
    BY <1>4, <1>5, <2>2
  <2> QED
    BY <2>1, <2>2, <2>3, <2>4
<1>7. ASSUME NEW k \in DOMAIN t, p \in t[k].geo
      PROVE  k \in DOMAIN s /\ s[k] = t[k]
  <2>1. PICK i \in DOMAIN s : s[i].id = t[k].id
    BY <1>2, <1>7
  <2>2. k \in last(i)
    BY <1>3, <2>1
  <2>3. i \in last(i) /\ t[i].geo = s[i].geo
    BY <1>3, <1>7, <2>2
  <2>4. i \in DOMAIN t /\ t[i].id = t[k].id
    BY <1>3, <2>1, <2>3
  <2>5. i = k
    BY <2>4 DEF DistinctIds
  <2> QED
    BY <1>6, <1>7, <2>3, <2>5
<1> HIDE DEF t
<1>8. Seen(s, p) = Seen(t, p)
  BY <1>1, <1>6, <1>7, SameOver
<1> QED
  BY <1>8 DEF t

-----------------------------------------------------------------------------
(* The history of damage.                                                   *)

LEMMA MinOfTwo ==
    ASSUME NEW a \in Nat, NEW b \in Nat
    PROVE  Min({a, b}) = IF a <= b THEN a ELSE b
<1> DEFINE S == {a, b}
           m == IF a <= b THEN a ELSE b
<1>1. m \in S /\ \A y \in S : m <= y
  OBVIOUS
<1>2. \A x \in S : (\A y \in S : x <= y) => x = m
  OBVIOUS
<1>3. Min(S) = m
  <2> HIDE DEF S, m
  <2> QED
    BY <1>1, <1>2 DEF Min
<1> QED
  BY <1>3

LEMMA MinInside ==
    ASSUME NEW S \in SUBSET Nat, S # {}
    PROVE  Min(S) \in S
<1>1. \E x \in S : \A y \in S : x <= y
  BY FirstPosition
<1> QED
  BY <1>1 DEF Min

LEMMA TruncatedList ==
    ASSUME NEW S, NEW s \in Seq(S), NEW n \in Nat
    PROVE  /\ Truncated(s, n) \in Seq(S)
           /\ Len(Truncated(s, n)) = IF n <= Len(s) THEN n ELSE Len(s)
           /\ \A k \in 1 .. Len(Truncated(s, n)) : k <= Len(s) /\ Truncated(s, n)[k] = s[k]
<1> DEFINE m == IF n <= Len(s) THEN n ELSE Len(s)
<1>1. Len(s) \in Nat
  OBVIOUS
<1>2. Truncated(s, n) = SubSeq(s, 1, m)
  BY <1>1, MinOfTwo DEF Truncated
<1>3. m \in 0 .. Len(s)
  BY <1>1
<1> HIDE DEF m
<1>4. /\ SubSeq(s, 1, m) \in Seq(S) /\ Len(SubSeq(s, 1, m)) = m
      /\ \A k \in 1 .. m : SubSeq(s, 1, m)[k] = s[k]
  BY <1>1, <1>3
<1> QED
  BY <1>1, <1>2, <1>3, <1>4 DEF m

LEMMA DamageTyped ==
    ASSUME NEW d \in Trackers, NEW s \in Seq(Layers)
    PROVE  NewDamage(d, s) \subseteq Pixel /\ OpaqueRegions(s) \subseteq Pixel
<1>1. /\ d.elements \in Seq(Layers) /\ d.opaque \subseteq Pixel
  BY DEF Trackers
<1>2. /\ \A i \in DOMAIN s : s[i].geo \subseteq Pixel
      /\ \A k \in DOMAIN d.elements : d.elements[k].geo \subseteq Pixel
  <2>1. \A t \in Seq(Layers) : \A i \in DOMAIN t : t[i] \in Layers
    OBVIOUS
  <2>2. \A e \in Layers : e.geo \subseteq Pixel
    BY DEF Layers
  <2> QED
    BY <1>1, <2>1, <2>2
<1>3. \A i \in DOMAIN s : ElementDamage(d, s, i) \subseteq Pixel
  BY <1>2 DEF ElementDamage, LastDrawn
<1>4. OpaqueRegions(s) \subseteq Pixel
  BY <1>2 DEF OpaqueRegions
<1> DEFINE changed == {ElementDamage(d, s, i) : i \in DOMAIN s}
           gone == {d.elements[k].geo : k \in {j \in DOMAIN d.elements :
                      \A i \in DOMAIN s : s[i].id # d.elements[j].id}}
<1>5. NewDamage(d, s) = IF ~d.known THEN Pixel
        ELSE (UNION changed) \union (UNION gone) \union (d.opaque \ OpaqueRegions(s))
  BY DEF NewDamage
<1>6. (\A c \in changed : c \subseteq Pixel) /\ (\A c \in gone : c \subseteq Pixel)
  BY <1>2, <1>3
<1> HIDE DEF changed, gone
<1>7. (UNION changed) \subseteq Pixel /\ (UNION gone) \subseteq Pixel
  BY <1>6
<1> QED
  BY <1>1, <1>4, <1>5, <1>7

\* last_state after a render, with the history it keeps.
TrackedAs(d, s, age, kept) ==
    LET new == NewDamage(d, s)
        after == Tracked(d, s, new, age)
        fits == age > 0 /\ Len(d.old) >= age
    IN  /\ Len(kept) = IF fits THEN age ELSE IF Len(d.old) <= MAX_AGE THEN Len(d.old) ELSE MAX_AGE
        /\ \A k \in 1 .. Len(kept) : k <= Len(d.old) /\ kept[k] = d.old[k]
        /\ after \in Trackers
        /\ Repaint(d, new, age) = {} =>
             after.known = d.known /\ after.elements = d.elements /\ after.old = kept
        /\ Repaint(d, new, age) # {} =>
             /\ after.known = TRUE /\ after.elements = s
             /\ Len(after.old) = Len(kept) + 1 /\ after.old[1] = new
             /\ \A k \in 1 .. Len(kept) : after.old[k + 1] = kept[k]

LEMMA TrackedIs ==
    ASSUME NEW d \in Trackers, NEW s \in Seq(Layers), NEW age \in Nat
    PROVE  \E kept \in Seq(SUBSET Pixel) : TrackedAs(d, s, age, kept)
<1> DEFINE new == NewDamage(d, s)
           fits == age > 0 /\ Len(d.old) >= age
           bound == IF fits THEN age ELSE MAX_AGE
           kept == Truncated(d.old, bound)
           after == Tracked(d, s, new, age)
<1>1. /\ d.old \in Seq(SUBSET Pixel) /\ d.elements \in Seq(Layers) /\ d.known \in BOOLEAN
      /\ d.opaque \in SUBSET Pixel /\ Len(d.old) \in Nat
  BY DEF Trackers
<1>2. new \in SUBSET Pixel /\ OpaqueRegions(s) \in SUBSET Pixel
  BY DamageTyped
<1>3. after = IF Repaint(d, new, age) = {} THEN [d EXCEPT !.old = kept]
              ELSE [known |-> TRUE, elements |-> s, opaque |-> OpaqueRegions(s), old |-> <<new>> \o kept]
  BY DEF Tracked
<1>4. bound \in Nat
  BY DEF MAX_AGE
<1> HIDE DEF bound, new
<1>5. /\ kept \in Seq(SUBSET Pixel)
      /\ Len(kept) = IF bound <= Len(d.old) THEN bound ELSE Len(d.old)
      /\ \A k \in 1 .. Len(kept) : k <= Len(d.old) /\ kept[k] = d.old[k]
  BY <1>1, <1>4, TruncatedList
<1>6. Len(kept) = IF fits THEN age ELSE IF Len(d.old) <= MAX_AGE THEN Len(d.old) ELSE MAX_AGE
  BY <1>1, <1>5 DEF bound, MAX_AGE
<1> HIDE DEF kept, after, fits
<1>7. CASE Repaint(d, new, age) = {}
  <2>1. after = [d EXCEPT !.old = kept]
    BY <1>3, <1>7
  <2>2. /\ after \in Trackers /\ after.known = d.known /\ after.elements = d.elements
        /\ after.old = kept
    BY <1>5, <2>1 DEF Trackers
  <2> QED
    BY <1>5, <1>6, <1>7, <2>2 DEF new, after, fits, TrackedAs
<1>8. CASE Repaint(d, new, age) # {}
  <2> DEFINE hist == <<new>> \o kept
  <2>1. <<new>> \in Seq(SUBSET Pixel) /\ Len(<<new>>) = 1 /\ <<new>>[1] = new
    BY <1>2
  <2>2. /\ hist \in Seq(SUBSET Pixel) /\ Len(hist) = Len(kept) + 1 /\ hist[1] = new
        /\ \A k \in 1 .. Len(kept) : hist[k + 1] = kept[k]
    BY <1>5, <2>1
  <2> HIDE DEF hist
  <2>3. after = [known |-> TRUE, elements |-> s, opaque |-> OpaqueRegions(s), old |-> hist]
    BY <1>3, <1>8 DEF hist
  <2>4. /\ after \in Trackers /\ after.known = TRUE /\ after.elements = s /\ after.old = hist
    BY <1>2, <2>2, <2>3 DEF Trackers
  <2> QED
    BY <1>5, <1>6, <1>8, <2>2, <2>4 DEF new, after, fits, TrackedAs
<1> QED
  BY <1>7, <1>8

-----------------------------------------------------------------------------
(* States of an output.                                                     *)

Pictures == (SUBSET (Element \X Nat \X SUBSET Element)) \union {None}

Images == [Pixel -> Pictures]

FrameRecords ==
    [slot : Slots \union {None}, image : Images, element : Layers \union {None}, meant : Images,
     skip : BOOLEAN, full : BOOLEAN]

Compositors ==
    [current : FrameRecords, pending : FrameRecords, queued : FrameRecords,
     reset_pending : BOOLEAN, commit_pending : BOOLEAN]

Swapchains == [Slots -> [age : 0 .. Oldest, image : Images]]

Outputs ==
    [swapchain : Swapchains, compositor : Compositors, damage : Trackers,
     flip_pending : BOOLEAN, is_empty : BOOLEAN]

\* Where no damage of the frames a buffer missed is, it holds what was drawn last.
Aged(chain, d) ==
    \A j \in Slots :
        LET age == chain[j].age
        IN  age > 0 /\ d.known /\ Len(d.old) >= age
              => \A p \in Pixel : \/ \E k \in 1 .. (age - 1) : p \in d.old[k]
                                  \/ chain[j].image[p] = Seen(d.elements, p)

\* A slot that was used again shortens the history.
Short(chain, d) ==
    /\ Len(d.old) <= MAX_AGE + 1
    /\ \A v \in 1 .. (MAX_AGE + 1) :
          (\E j \in Slots : chain[j].age > v) /\ (\A j \in Slots : chain[j].age # v)
             => Len(d.old) <= v

History(chain, d) ==
    /\ d.known => DistinctIds(d.elements)
    /\ Aged(chain, d)
    /\ Short(chain, d)

LEMMA SeenTyped ==
    ASSUME NEW s \in Seq(Layers), NEW p
    PROVE  Seen(s, p) \in Pictures
<1>1. \A i \in DOMAIN s : s[i].id \in Element /\ s[i].commit \in Nat
  <2>1. \A i \in DOMAIN s : s[i] \in Layers
    OBVIOUS
  <2> QED
    BY <2>1 DEF Layers
<1>2. Topmost(s, p) \subseteq DOMAIN s
  BY DEF Topmost
<1>3. \A i \in Topmost(s, p) :
        <<s[i].id, s[i].commit, {s[j].id : j \in {k \in Topmost(s, p) : k < i}}>>
          \in Element \X Nat \X SUBSET Element
  BY <1>1, <1>2
<1> QED
  BY <1>3 DEF Seen, Pictures

LEMMA ImageTyped ==
    ASSUME NEW s \in Seq(Layers)
    PROVE  Image(s) \in Images
BY SeenTyped DEF Image, Images

\* queue_frame makes every other buffer one older.
LEMMA SubmittedIs ==
    ASSUME NEW chain \in Swapchains, NEW i \in Slots
    PROVE  LET after == Submitted(chain, i)
           IN  /\ after \in Swapchains
               /\ after[i].age = 1
               /\ \A j \in Slots :
                    /\ after[j].image = chain[j].image
                    /\ j # i /\ chain[j].age = 0 => after[j].age = 0
                    /\ j # i /\ chain[j].age > 0 =>
                         after[j].age = IF chain[j].age + 1 <= Oldest THEN chain[j].age + 1 ELSE Oldest
<1> DEFINE next(j) == IF j = i THEN 1 ELSE IF chain[j].age > 0 THEN Min({chain[j].age + 1, Oldest}) ELSE 0
           after == Submitted(chain, i)
<1>1. Oldest \in Nat /\ Oldest = 6
  BY DEF Oldest, MAX_AGE
<1>2. \A j \in Slots : chain[j] \in [age : 0 .. Oldest, image : Images]
  BY DEF Swapchains
<1>3. \A j \in Slots : chain[j].age \in 0 .. Oldest
  BY <1>2
<1>4. ASSUME NEW j \in Slots
      PROVE  /\ next(j) \in 0 .. Oldest
             /\ j = i => next(j) = 1
             /\ j # i /\ chain[j].age = 0 => next(j) = 0
             /\ j # i /\ chain[j].age > 0 =>
                  next(j) = IF chain[j].age + 1 <= Oldest THEN chain[j].age + 1 ELSE Oldest
  <2> DEFINE older == chain[j].age + 1
  <2>0. older \in Nat
    BY <1>3
  <2>1. Min({older, Oldest}) = IF older <= Oldest THEN older ELSE Oldest
    <3> HIDE DEF older
    <3> QED
      BY <1>1, <2>0, MinOfTwo
  <2> QED
    BY <1>1, <1>3, <2>1
<1>5. after = [j \in Slots |-> [chain[j] EXCEPT !.age = next(j)]]
  BY DEF Submitted
<1> HIDE DEF next, after
<1>6. \A j \in Slots : after[j] = [chain[j] EXCEPT !.age = next(j)]
  BY <1>5
<1>7. \A j \in Slots : after[j] \in [age : 0 .. Oldest, image : Images]
                         /\ after[j].age = next(j) /\ after[j].image = chain[j].image
  BY <1>2, <1>4, <1>6
<1>8. after \in Swapchains
  BY <1>5, <1>7 DEF Swapchains
<1> QED
  BY <1>4, <1>7, <1>8 DEF after

\* A region that is not repainted shows the scene: the buffer's age says which
\* damage it missed, and there is none.
LEMMA NotRepainted ==
    ASSUME NEW chain \in Swapchains, NEW d \in Trackers, History(chain, d), NEW s \in Seq(Layers),
           NEW i \in Slots, NEW p \in Pixel,
           p \notin Repaint(d, NewDamage(d, s), chain[i].age)
    PROVE  /\ d.known /\ chain[i].age > 0 /\ chain[i].age <= Len(d.old)
           /\ p \notin NewDamage(d, s) /\ \A k \in 1 .. (chain[i].age - 1) : p \notin d.old[k]
           /\ chain[i].image[p] = Seen(d.elements, p)
           /\ chain[i].image[p] = Seen(s, p)
<1> DEFINE new == NewDamage(d, s)
           age == chain[i].age
<1>1. age \in Nat /\ Len(d.old) \in Nat
  <2>1. chain[i] \in [age : 0 .. Oldest, image : Images]
    BY DEF Swapchains
  <2>2. d.old \in Seq(SUBSET Pixel)
    BY DEF Trackers
  <2> QED
    BY <2>1, <2>2 DEF Oldest, MAX_AGE
<1>2. ~d.known => new = Pixel
  BY DEF NewDamage
<1> HIDE DEF new
<1>3. /\ age > 0 /\ Len(d.old) >= age /\ p \notin new
      /\ \A k \in 1 .. (age - 1) : p \notin d.old[k]
  <2>1. CASE age > 0 /\ Len(d.old) >= age
    <3>1. Repaint(d, new, age) = new \union UNION {d.old[k] : k \in 1 .. (age - 1)}
      BY <2>1 DEF Repaint
    <3>2. p \notin new \union UNION {d.old[k] : k \in 1 .. (age - 1)}
      BY <3>1 DEF new
    <3> QED
      BY <2>1, <3>2
  <2>2. CASE ~(age > 0 /\ Len(d.old) >= age)
    <3>1. Repaint(d, new, age) = Pixel
      BY <2>2 DEF Repaint
    <3> QED
      BY <3>1 DEF new
  <2> QED
    BY <2>1, <2>2
<1>4. d.known
  BY <1>2, <1>3
<1>5. chain[i].image[p] = Seen(d.elements, p)
  BY <1>3, <1>4 DEF History, Aged
<1>6. Seen(d.elements, p) = Seen(s, p)
  BY <1>3, <1>4, Undamaged DEF History, new
<1> QED
  BY <1>1, <1>3, <1>4, <1>5, <1>6 DEF new

\* The buffer after composition.
Painted(chain, d, s, i) ==
    [p \in Pixel |-> IF p \in Repaint(d, NewDamage(d, s), chain[i].age) THEN Seen(s, p)
                     ELSE chain[i].image[p]]

\* Whatever had to be repainted, the buffer holds the scene.
LEMMA PaintedShows ==
    ASSUME NEW chain \in Swapchains, NEW d \in Trackers, History(chain, d), NEW s \in Seq(Layers),
           NEW i \in Slots
    PROVE  Painted(chain, d, s, i) = Image(s)
<1>1. \A p \in Pixel : p \notin Repaint(d, NewDamage(d, s), chain[i].age) => chain[i].image[p] = Seen(s, p)
  BY NotRepainted
<1> QED
  BY <1>1 DEF Painted, Image

\* Nothing to repaint: the buffer held the scene, and the history is kept up
\* to its age.
LEMMA NothingRepainted ==
    ASSUME NEW chain \in Swapchains, NEW d \in Trackers, History(chain, d), NEW s \in Seq(Layers),
           NEW i \in Slots, Pixel # {},
           Repaint(d, NewDamage(d, s), chain[i].age) = {}
    PROVE  /\ d.known /\ chain[i].age > 0 /\ chain[i].age <= Len(d.old)
           /\ \A k \in 1 .. (chain[i].age - 1) : d.old[k] = {}
           /\ Image(d.elements) = Image(s)
           /\ chain[i].image = Image(s)
           /\ [chain EXCEPT ![i].image = Image(s)] = chain
<1>1. PICK p \in Pixel : TRUE
  OBVIOUS
<1>2. d.known /\ chain[i].age > 0 /\ chain[i].age <= Len(d.old)
  BY <1>1, NotRepainted
<1>3. \A q \in Pixel : /\ \A k \in 1 .. (chain[i].age - 1) : q \notin d.old[k]
                       /\ chain[i].image[q] = Seen(d.elements, q) /\ chain[i].image[q] = Seen(s, q)
  BY NotRepainted
<1>4. chain[i] \in [age : 0 .. Oldest, image : Images] /\ chain = [j \in Slots |-> chain[j]]
  BY DEF Swapchains
<1>5. chain[i].image = Image(s) /\ Image(d.elements) = Image(s)
  <2>1. chain[i].image = [q \in Pixel |-> chain[i].image[q]]
    BY <1>4 DEF Images
  <2> QED
    BY <1>3, <2>1 DEF Image
<1>6. \A k \in 1 .. (chain[i].age - 1) : d.old[k] = {}
  <2>1. d.old \in Seq(SUBSET Pixel) /\ Len(d.old) \in Nat /\ chain[i].age \in Nat
    BY <1>4 DEF Trackers, Oldest, MAX_AGE
  <2>2. \A k \in 1 .. (chain[i].age - 1) : k \in 1 .. Len(d.old)
    BY <1>2, <2>1
  <2>3. \A k \in 1 .. (chain[i].age - 1) : d.old[k] \subseteq Pixel
    BY <2>1, <2>2
  <2> QED
    BY <1>3, <2>3
<1>7. [chain EXCEPT ![i].image = chain[i].image] = chain
  <2>1. [chain[i] EXCEPT !.image = chain[i].image] = chain[i]
    BY <1>4
  <2> QED
    BY <1>4, <2>1
<1> QED
  BY <1>2, <1>5, <1>6, <1>7

\* A shorter history of the same drawings is as good.
LEMMA HistoryShortened ==
    ASSUME NEW chain \in Swapchains, NEW d \in Trackers, History(chain, d), NEW e \in Trackers,
           e.known = d.known, e.elements = d.elements, Len(e.old) <= Len(d.old),
           \A k \in 1 .. Len(e.old) : e.old[k] = d.old[k]
    PROVE  History(chain, e)
<1>1. /\ Len(d.old) \in Nat /\ Len(e.old) \in Nat
      /\ \A j \in Slots : chain[j].age \in Nat
  <2>1. \A j \in Slots : chain[j] \in [age : 0 .. Oldest, image : Images]
    BY DEF Swapchains
  <2>2. d.old \in Seq(SUBSET Pixel) /\ e.old \in Seq(SUBSET Pixel)
    BY DEF Trackers
  <2> QED
    BY <2>1, <2>2 DEF Oldest, MAX_AGE
<1>2. Aged(chain, e)
  <2> SUFFICES ASSUME NEW j \in Slots, chain[j].age > 0, e.known, Len(e.old) >= chain[j].age, NEW p \in Pixel
               PROVE  \/ \E k \in 1 .. (chain[j].age - 1) : p \in e.old[k]
                      \/ chain[j].image[p] = Seen(e.elements, p)
    BY DEF Aged
  <2>1. Len(d.old) >= chain[j].age
    BY <1>1
  <2>2. \/ \E k \in 1 .. (chain[j].age - 1) : p \in d.old[k]
        \/ chain[j].image[p] = Seen(d.elements, p)
    BY <2>1 DEF History, Aged
  <2>3. \A k \in 1 .. (chain[j].age - 1) : k \in 1 .. Len(e.old)
    BY <1>1
  <2> QED
    BY <2>2, <2>3
<1>3. Short(chain, e)
  <2>1. Len(e.old) <= MAX_AGE + 1
    BY <1>1 DEF History, Short, MAX_AGE
  <2>2. \A v \in 1 .. (MAX_AGE + 1) :
          (\E j \in Slots : chain[j].age > v) /\ (\A j \in Slots : chain[j].age # v) => Len(d.old) <= v
    BY DEF History, Short
  <2>3. \A v \in 1 .. (MAX_AGE + 1) : Len(d.old) <= v => Len(e.old) <= v
    BY <1>1
  <2> QED
    BY <2>1, <2>2, <2>3 DEF Short
<1> QED
  BY <1>2, <1>3 DEF History

\* The oldest buffer that the history still covers is not the one to be used
\* when it would grow too long: one of its ages is then missing.
LEMMA HistoryRoom ==
    ASSUME NEW chain \in Swapchains, NEW d \in Trackers, Short(chain, d), NEW i \in Slots,
           chain[i].age > 0, chain[i].age <= Len(d.old)
    PROVE  chain[i].age <= MAX_AGE
<1>1. /\ Len(d.old) \in Nat /\ \A j \in Slots : chain[j].age \in Nat
  <2>1. \A j \in Slots : chain[j] \in [age : 0 .. Oldest, image : Images]
    BY DEF Swapchains
  <2>2. d.old \in Seq(SUBSET Pixel)
    BY DEF Trackers
  <2> QED
    BY <2>1, <2>2 DEF Oldest, MAX_AGE
<1> SUFFICES ASSUME chain[i].age > 4 PROVE FALSE
  BY <1>1 DEF MAX_AGE
<1> DEFINE a(j) == chain[j].age
<1>2. a(i) = 5 /\ Len(d.old) = 5
  <2>1. Len(d.old) <= 5
    BY DEF Short, MAX_AGE
  <2>2. a(i) \in Nat /\ Len(d.old) \in Nat /\ a(i) > 4 /\ a(i) <= Len(d.old)
    BY <1>1
  <2>3. ASSUME NEW x \in Nat, NEW y \in Nat, x > 4, x <= y, y <= 5
        PROVE  x = 5 /\ y = 5
    BY <2>3
  <2> HIDE DEF a
  <2> QED
    BY <2>1, <2>2, <2>3
<1>3. \A v \in 1 .. 5 : a(i) > v /\ (\A j \in Slots : a(j) # v) => Len(d.old) <= v
  BY DEF Short, MAX_AGE
<1>4. Slots = 1 .. 4
  BY DEF Slots, SLOT_CAP
<1> HIDE DEF a
<1>5. \A v \in 1 .. 4 : \E j \in 1 .. 4 : a(j) = v
  BY <1>2, <1>3, <1>4
<1>6. i \in 1 .. 4 /\ a(i) = 5
  BY <1>2, <1>4
<1>7. /\ 1 \in {a(1), a(2), a(3), a(4)} /\ 2 \in {a(1), a(2), a(3), a(4)}
      /\ 3 \in {a(1), a(2), a(3), a(4)} /\ 4 \in {a(1), a(2), a(3), a(4)}
      /\ 5 \in {a(1), a(2), a(3), a(4)}
  <2>1. \A j \in 1 .. 4 : j = 1 \/ j = 2 \/ j = 3 \/ j = 4
    OBVIOUS
  <2>2. \A v \in 1 .. 4 : v \in {a(1), a(2), a(3), a(4)}
    BY <1>5, <2>1
  <2>3. 1 \in 1 .. 4 /\ 2 \in 1 .. 4 /\ 3 \in 1 .. 4 /\ 4 \in 1 .. 4
    OBVIOUS
  <2> QED
    BY <1>6, <2>1, <2>2, <2>3
<1>8. ASSUME NEW w, NEW x, NEW y, NEW z, 1 \in {w, x, y, z}, 2 \in {w, x, y, z}, 3 \in {w, x, y, z},
             4 \in {w, x, y, z}, 5 \in {w, x, y, z}
      PROVE  FALSE
  BY <1>8, SMTT(30)
<1> QED
  BY <1>7, <1>8

\* The swapchain once the buffer of slot i holds an image.
LEMMA DrawnInto ==
    ASSUME NEW chain \in Swapchains, NEW i \in Slots, NEW image \in Images
    PROVE  LET after == [chain EXCEPT ![i].image = image]
           IN  /\ after \in Swapchains /\ after[i].image = image
               /\ \A j \in Slots : after[j].age = chain[j].age
               /\ \A j \in Slots : j # i => after[j].image = chain[j].image
<1>1. \A j \in Slots : chain[j] \in [age : 0 .. Oldest, image : Images]
  BY DEF Swapchains
<1> QED
  BY <1>1 DEF Swapchains

\* Drawing and submitting keep the history right: what the other buffers miss
\* now is the damage they missed, the new damage with it.
LEMMA HistoryGrows ==
    ASSUME NEW chain \in Swapchains, NEW d \in Trackers, History(chain, d),
           NEW s \in Seq(Layers), DistinctIds(s), NEW i \in Slots, Pixel # {}
    PROVE  LET drawn == [chain EXCEPT ![i].image = Image(s)]
           IN  History(Submitted(drawn, i), Tracked(d, s, NewDamage(d, s), chain[i].age))
<1> DEFINE drawn == [chain EXCEPT ![i].image = Image(s)]
           after == Submitted(drawn, i)
           new == NewDamage(d, s)
           age == chain[i].age
           e == Tracked(d, s, new, age)
           fits == age > 0 /\ Len(d.old) >= age
           none == Repaint(d, new, age) = {}
<1>1. /\ drawn \in Swapchains /\ drawn[i].image = Image(s)
      /\ \A j \in Slots : drawn[j].age = chain[j].age
      /\ \A j \in Slots : j # i => drawn[j].image = chain[j].image
  BY ImageTyped, DrawnInto
<1> HIDE DEF drawn
<1>2. /\ after \in Swapchains /\ after[i].age = 1
      /\ \A j \in Slots :
           /\ after[j].image = drawn[j].image
           /\ j # i /\ drawn[j].age = 0 => after[j].age = 0
           /\ j # i /\ drawn[j].age > 0 =>
                after[j].age = IF drawn[j].age + 1 <= Oldest THEN drawn[j].age + 1 ELSE Oldest
  BY <1>1, SubmittedIs
<1> HIDE DEF after
<1>3. \A j \in Slots : chain[j].age \in 0 .. 6
  <2>1. \A j \in Slots : chain[j] \in [age : 0 .. Oldest, image : Images]
    BY DEF Swapchains
  <2> QED
    BY <2>1 DEF Oldest, MAX_AGE
<1>4. /\ after[i].age = 1 /\ after[i].image = Image(s)
      /\ \A j \in Slots : j # i =>
           /\ after[j].image = chain[j].image
           /\ chain[j].age = 0 => after[j].age = 0
           /\ chain[j].age > 0 => after[j].age = IF chain[j].age <= 5 THEN chain[j].age + 1 ELSE 6
  BY <1>1, <1>2, <1>3 DEF Oldest, MAX_AGE
<1>5. age \in Nat /\ Len(d.old) \in Nat /\ d.old \in Seq(SUBSET Pixel) /\ Len(d.old) <= 5
  <2>1. d.old \in Seq(SUBSET Pixel)
    BY DEF Trackers
  <2> QED
    BY <1>3, <2>1 DEF History, Short, MAX_AGE
<1> HIDE DEF e
<1>6. PICK kept \in Seq(SUBSET Pixel) :
        /\ Len(kept) = IF fits THEN age ELSE IF Len(d.old) <= MAX_AGE THEN Len(d.old) ELSE MAX_AGE
        /\ \A k \in 1 .. Len(kept) : k <= Len(d.old) /\ kept[k] = d.old[k]
        /\ e \in Trackers
        /\ none => e.known = d.known /\ e.elements = d.elements /\ e.old = kept
        /\ ~none => /\ e.known = TRUE /\ e.elements = s
                    /\ Len(e.old) = Len(kept) + 1 /\ e.old[1] = new
                    /\ \A k \in 1 .. Len(kept) : e.old[k + 1] = kept[k]
  <2>1. PICK kept \in Seq(SUBSET Pixel) : TrackedAs(d, s, age, kept)
    BY <1>5, TrackedIs
  <2>2. /\ Len(kept) = IF fits THEN age ELSE IF Len(d.old) <= MAX_AGE THEN Len(d.old) ELSE MAX_AGE
        /\ \A k \in 1 .. Len(kept) : k <= Len(d.old) /\ kept[k] = d.old[k]
        /\ e \in Trackers
        /\ none => e.known = d.known /\ e.elements = d.elements /\ e.old = kept
        /\ ~none => /\ e.known = TRUE /\ e.elements = s
                    /\ Len(e.old) = Len(kept) + 1 /\ e.old[1] = new
                    /\ \A k \in 1 .. Len(kept) : e.old[k + 1] = kept[k]
    <3> HIDE DEF age
    <3> QED
      BY <2>1, Zenon DEF TrackedAs, e
  <2> HIDE DEF none, fits, age, new
  <2> QED
    BY <2>2
<1>7. none => /\ d.known /\ fits /\ \A k \in 1 .. (age - 1) : d.old[k] = {}
              /\ Image(d.elements) = Image(s)
  BY NothingRepainted
<1>8. fits => age <= 4
  BY HistoryRoom DEF History, MAX_AGE
<1>9. d.known => \A p \in Pixel : p \notin new => Seen(d.elements, p) = Seen(s, p)
  BY Undamaged DEF History
<1>10. ~d.known => new = Pixel
  BY DEF NewDamage
<1> HIDE DEF new, none, age
<1>11. /\ Len(kept) \in Nat /\ Len(kept) <= Len(d.old) /\ Len(kept) <= 4
       /\ fits => Len(kept) = age
  BY <1>5, <1>6, <1>8 DEF MAX_AGE
<1>12. Len(e.old) = (IF none THEN Len(kept) ELSE Len(kept) + 1) /\ Len(e.old) \in Nat
  BY <1>6, <1>11
<1>13. Aged(after, e)
  <2> SUFFICES ASSUME NEW j \in Slots, after[j].age > 0, e.known, Len(e.old) >= after[j].age, NEW p \in Pixel
               PROVE  \/ \E k \in 1 .. (after[j].age - 1) : p \in e.old[k]
                      \/ after[j].image[p] = Seen(e.elements, p)
    BY DEF Aged
  <2>1. CASE j = i
    <3>1. e.elements = s \/ Image(e.elements) = Image(s)
      BY <1>6, <1>7
    <3>2. Image(e.elements)[p] = Image(s)[p]
      BY <3>1
    <3> QED
      BY <1>4, <2>1, <3>2 DEF Image
  <2>2. CASE j # i
    <3> DEFINE b == chain[j].age
    <3>1. /\ b \in 1 .. 5 /\ after[j].age = b + 1 /\ after[j].image = chain[j].image
          /\ b + 1 <= Len(e.old)
      BY <1>3, <1>4, <1>11, <1>12, <2>2
    <3>2. b <= Len(d.old)
      BY <1>5, <1>11, <1>12, <3>1
    <3>3. d.known => \/ \E k \in 1 .. (b - 1) : p \in d.old[k]
                     \/ chain[j].image[p] = Seen(d.elements, p)
      BY <3>1, <3>2 DEF History, Aged
    <3> HIDE DEF b
    <3>4. CASE none
      <4>1. /\ d.known /\ e.elements = d.elements /\ b + 1 <= age
            /\ \A k \in 1 .. (age - 1) : d.old[k] = {}
        BY <1>6, <1>7, <1>11, <1>12, <3>1, <3>4
      <4>2. \A k \in 1 .. (b - 1) : k \in 1 .. (age - 1)
        BY <1>5, <3>1, <4>1
      <4> QED
        BY <3>1, <3>3, <4>1, <4>2
    <3>5. CASE ~none
      <4>1. /\ e.elements = s /\ e.old[1] = new /\ Len(e.old) = Len(kept) + 1
            /\ \A k \in 1 .. Len(kept) : e.old[k + 1] = d.old[k]
        BY <1>6, <3>5
      <4>2. 1 \in 1 .. (after[j].age - 1)
        BY <3>1
      <4>3. CASE p \in new
        BY <4>1, <4>2, <4>3
      <4>4. CASE p \notin new
        <5>1. d.known /\ Seen(d.elements, p) = Seen(s, p)
          BY <1>9, <1>10, <4>4
        <5>2. CASE chain[j].image[p] = Seen(d.elements, p)
          BY <3>1, <4>1, <5>1, <5>2
        <5>3. CASE \E k \in 1 .. (b - 1) : p \in d.old[k]
          <6>1. PICK k \in 1 .. (b - 1) : p \in d.old[k]
            BY <5>3
          <6>2. k \in 1 .. Len(kept) /\ k + 1 \in 1 .. (after[j].age - 1)
            BY <1>11, <3>1, <4>1
          <6> QED
            BY <4>1, <6>1, <6>2
        <5> QED
          BY <3>3, <5>1, <5>2, <5>3
      <4> QED
        BY <4>3, <4>4
    <3> QED
      BY <3>4, <3>5
  <2> QED
    BY <2>1, <2>2
<1>14. Short(after, e)
  <2>1. Len(e.old) <= 5
    BY <1>11, <1>12
  <2>2. ASSUME NEW v \in 1 .. 5, NEW j \in Slots, after[j].age > v, \A l \in Slots : after[l].age # v
        PROVE  Len(e.old) <= v
    <3> DEFINE u == v - 1
               a(l) == chain[l].age
    <3>1. v # 1 /\ j # i
      BY <1>4, <2>2
    <3>2. u \in 1 .. 4
      BY <3>1
    <3>3. a(j) > u
      <4>1. after[j].age = (IF a(j) <= 5 THEN a(j) + 1 ELSE 6) \/ after[j].age = 0
        BY <1>3, <1>4, <3>1
      <4>2. a(j) \in 0 .. 6
        BY <1>3
      <4> HIDE DEF a
      <4> QED
        BY <2>2, <4>1, <4>2
    <3>4. \A l \in Slots : l # i => a(l) # u
      <4> SUFFICES ASSUME NEW l \in Slots, l # i, a(l) = u PROVE FALSE
        OBVIOUS
      <4>1. after[l].age = v
        BY <1>4, <3>2
      <4> QED
        BY <2>2, <4>1
    <3>5. CASE a(i) = u
      <4>1. age = u
        BY <3>5 DEF age
      <4>2. Len(kept) <= u
        BY <1>5, <1>11, <3>2, <4>1
      <4> QED
        BY <1>11, <1>12, <3>2, <4>2
    <3>6. CASE a(i) # u
      <4>1. \A l \in Slots : a(l) # u
        BY <3>4, <3>6
      <4>2. u \in 1 .. (MAX_AGE + 1)
        BY <3>2 DEF MAX_AGE
      <4>3. Len(d.old) <= u
        BY <3>3, <4>1, <4>2 DEF History, Short
      <4> QED
        BY <1>5, <1>11, <1>12, <3>2, <4>3
    <3> QED
      BY <3>5, <3>6
  <2> QED
    BY <2>1, <2>2 DEF Short, MAX_AGE
<1>15. e.known => DistinctIds(e.elements)
  BY <1>6 DEF History
<1>16. History(after, e)
  BY <1>13, <1>14, <1>15 DEF History
<1> QED
  BY <1>16 DEF after, drawn, e, age, new

-----------------------------------------------------------------------------
(* The frames.                                                              *)

\* A frame shows what it was composed from.
Composed(chain, c) == \A f \in Frames(c) : Content(chain, f) = f.meant

\* A frame is queued for something new, or for a full update.
Live(c) == \A f \in Frames(c) : f # NoFrame => ~f.skip \/ f.full

\* The frame that was made last: its image is the one the damage is counted
\* from, or one element's; without it no buffer was ever drawn into.
LatestFrame(chain, f, d) ==
    /\ d.known /\ f # NoFrame /\ f.element = None => Content(chain, f) = Image(d.elements)
    /\ f.element # None => Content(chain, f) = Image(<<f.element>>)
    /\ (\E j \in Slots : chain[j].age > 0) => f # NoFrame

\* A frame that still waits while the output may render is replaced by a full
\* update.
Ready(chain, c) ==
    c.queued # NoFrame => c.reset_pending /\ \A j \in Slots : chain[j].age = 0

\* What holds of an output that shows a scene.
ScanInv(s, o) ==
    /\ o \in Outputs
    /\ DistinctIds(s)
    /\ History(o.swapchain, o.damage)
    /\ Composed(o.swapchain, o.compositor)
    /\ Live(o.compositor)
    /\ LatestFrame(o.swapchain, Newest(o.compositor), o.damage)
    /\ o.flip_pending \/ Ready(o.swapchain, o.compositor)
    /\ o.is_empty => Content(o.swapchain, Newest(o.compositor)) = Image(s)

LEMMA NoFrameIs ==
    /\ NoFrame \in FrameRecords
    /\ NoFrame.skip = TRUE /\ NoFrame.full = FALSE /\ NoFrame.slot = None /\ NoFrame.element = None
    /\ NoFrame.image = Blank /\ NoFrame.meant = Blank
    /\ \A chain : Content(chain, NoFrame) = NoFrame.meant
BY DEF NoFrame, FrameRecords, Images, Blank, Pictures, Content

\* Whether a swapchain shows the same in a frame depends on its slot only.
LEMMA ContentKept ==
    ASSUME NEW before, NEW after, NEW f,
           f.slot # None => after[f.slot].image = before[f.slot].image
    PROVE  Content(after, f) = Content(before, f)
BY DEF Content

\* A frame in flight: its content is the one it was queued with.
LEMMA InFlight ==
    ASSUME NEW f \in FrameRecords
    PROVE  LET g == [f EXCEPT !.skip = FALSE, !.full = FALSE]
           IN  /\ g \in FrameRecords /\ g # NoFrame /\ ~g.skip
               /\ g.slot = f.slot /\ g.image = f.image /\ g.element = f.element /\ g.meant = f.meant
               /\ \A chain : Content(chain, g) = Content(chain, f)
<1> DEFINE g == [f EXCEPT !.skip = FALSE, !.full = FALSE]
<1>1. /\ g \in FrameRecords /\ g.skip = FALSE
      /\ g.slot = f.slot /\ g.image = f.image /\ g.element = f.element /\ g.meant = f.meant
  BY DEF FrameRecords
<1> HIDE DEF g
<1>2. g # NoFrame
  BY <1>1, NoFrameIs
<1>3. \A chain : Content(chain, g) = Content(chain, f)
  BY <1>1 DEF Content
<1> QED
  BY <1>1, <1>2, <1>3 DEF g

\* The compositor once the frame that is queued is in flight.
LEMMA FlippedIs ==
    ASSUME NEW c \in Compositors, NEW f \in FrameRecords
    PROVE  LET g == [f EXCEPT !.skip = FALSE, !.full = FALSE]
               after == Flipped(c, f)
           IN  /\ after \in Compositors
               /\ after.current = c.current /\ after.pending = g /\ after.queued = NoFrame
               /\ Newest(after) = g
<1> DEFINE g == [f EXCEPT !.skip = FALSE, !.full = FALSE]
           after == Flipped(c, f)
<1>1. g \in FrameRecords /\ g # NoFrame
  BY InFlight
<1>2. f.full \in BOOLEAN
  BY DEF FrameRecords
<1>3. after = [c EXCEPT !.pending = g, !.queued = NoFrame, !.commit_pending = FALSE,
                        !.reset_pending = c.reset_pending /\ ~f.full]
  BY DEF Flipped
<1> HIDE DEF g, after
<1>4. /\ after \in Compositors
      /\ after.current = c.current /\ after.pending = g /\ after.queued = NoFrame
  <2>1. (c.reset_pending /\ ~f.full) \in BOOLEAN
    OBVIOUS
  <2> DEFINE pend == (c.reset_pending /\ ~f.full)
  <2>2. pend \in BOOLEAN
    BY <2>1
  <2> HIDE DEF pend
  <2>3. after = [c EXCEPT !.pending = g, !.queued = NoFrame, !.commit_pending = FALSE, !.reset_pending = pend]
    BY <1>3 DEF pend
  <2> QED
    BY <1>1, <2>2, <2>3, NoFrameIs DEF Compositors
<1>5. Newest(after) = g
  BY <1>1, <1>4 DEF Newest
<1> QED
  BY <1>4, <1>5 DEF g, after

\* What queue_frame and submit may do when no flip fails.
LEMMA SubmitsIs ==
    ASSUME NEW c, "flip" \notin Events
    PROVE  Submits(c) = {[ok |-> TRUE, c |-> Flipped(c, c.queued)]}
BY DEF Submits

\* The swapchain and the compositor after queue_frame.
QueuedChain(chain, f) == IF ~f.skip /\ f.slot # None THEN Submitted(chain, f.slot) ELSE chain

QueuedCompositor(c, f) ==
    LET waiting == [c EXCEPT !.queued = f]
    IN  IF c.pending = NoFrame THEN Flipped(waiting, f) ELSE waiting

LEMMA QueuedIs ==
    ASSUME NEW o \in Outputs, NEW f \in FrameRecords, "flip" \notin Events, NEW r \in Queued(o, f)
    PROVE  /\ r \in Outputs
           /\ r.swapchain = QueuedChain(o.swapchain, f) /\ r.compositor = QueuedCompositor(o.compositor, f)
           /\ r.damage = o.damage /\ r.flip_pending = TRUE /\ r.is_empty = FALSE
<1> DEFINE chain == QueuedChain(o.swapchain, f)
           waiting == [o.compositor EXCEPT !.queued = f]
           c == QueuedCompositor(o.compositor, f)
           With(t) == [o EXCEPT !.swapchain = chain, !.compositor = t.c,
                                !.flip_pending = @ \/ t.ok, !.is_empty = FALSE]
           done == [ok |-> TRUE, c |-> c]
<1>1. /\ o.swapchain \in Swapchains /\ o.compositor \in Compositors /\ o.damage \in Trackers
      /\ o.flip_pending \in BOOLEAN
  BY DEF Outputs
<1>2. waiting \in Compositors /\ waiting.pending = o.compositor.pending /\ waiting.queued = f
  BY <1>1 DEF Compositors
<1>3. c \in Compositors
  BY <1>2, FlippedIs DEF QueuedCompositor
<1>4. chain \in Swapchains
  <2>1. f.slot # None => f.slot \in Slots
    BY DEF FrameRecords
  <2> QED
    BY <1>1, <2>1, SubmittedIs DEF QueuedChain
<1>5. r = With(done)
  <2>1. Queued(o, f) = IF waiting.pending = NoFrame THEN {With(t) : t \in Submits(waiting)}
                       ELSE {With([ok |-> TRUE, c |-> waiting])}
    BY DEF Queued, QueuedChain
  <2> HIDE DEF With, chain
  <2>2. CASE waiting.pending = NoFrame
    <3>1. Submits(waiting) = {done}
      BY <1>2, <2>2, SubmitsIs DEF QueuedCompositor
    <3> QED
      BY <2>1, <2>2, <3>1
  <2>3. CASE waiting.pending # NoFrame
    <3>1. c = waiting
      BY <1>2, <2>3 DEF QueuedCompositor
    <3> QED
      BY <2>1, <2>3, <3>1
  <2> QED
    BY <2>2, <2>3
<1> HIDE DEF c, chain
<1>6. /\ With(done).swapchain = chain /\ With(done).compositor = c /\ With(done).damage = o.damage
      /\ With(done).is_empty = FALSE
  BY DEF Outputs
<1>7. With(done).flip_pending = TRUE
  BY <1>1 DEF Outputs
<1>8. With(done) = [swapchain |-> chain, compositor |-> c, damage |-> o.damage,
                    flip_pending |-> TRUE, is_empty |-> FALSE]
  <2> DEFINE flips == (o.flip_pending \/ done.ok)
             cc == done.c
  <2>1. flips = TRUE /\ cc = c
    BY <1>1
  <2>2. With(done) = [o EXCEPT !.swapchain = chain, !.compositor = cc, !.flip_pending = flips, !.is_empty = FALSE]
    OBVIOUS
  <2> HIDE DEF flips, cc, With, done
  <2> QED
    BY <1>1, <2>1, <2>2 DEF Outputs
<1>9. With(done) \in Outputs
  BY <1>1, <1>3, <1>4, <1>8 DEF Outputs
<1> QED
  BY <1>5, <1>6, <1>7, <1>9 DEF c, chain

\* Queueing a frame that shows what it should keeps the output right.
LEMMA QueuedKeeps ==
    ASSUME NEW s, NEW o \in Outputs, NEW f \in FrameRecords, "flip" \notin Events, NEW r \in Queued(o, f),
           ConstantsSound, DistinctIds(s), ~f.skip \/ f.full,
           History(QueuedChain(o.swapchain, f), o.damage),
           Composed(o.swapchain, o.compositor), Live(o.compositor),
           Content(o.swapchain, f) = f.meant,
           o.damage.known /\ f.element = None => Content(o.swapchain, f) = Image(o.damage.elements),
           f.element # None => Content(o.swapchain, f) = Image(<<f.element>>)
    PROVE  ScanInv(s, r)
<1> DEFINE c == o.compositor
           chain == QueuedChain(o.swapchain, f)
           waiting == [c EXCEPT !.queued = f]
           g == [f EXCEPT !.skip = FALSE, !.full = FALSE]
           d == QueuedCompositor(c, f)
<1>1. /\ r \in Outputs /\ r.swapchain = chain /\ r.compositor = d
      /\ r.damage = o.damage /\ r.flip_pending = TRUE /\ r.is_empty = FALSE
  BY QueuedIs
<1>2. /\ c \in Compositors /\ o.swapchain \in Swapchains
      /\ c.current \in FrameRecords /\ c.pending \in FrameRecords
  BY DEF Outputs, Compositors
<1>3. \A j \in Slots : chain[j].image = o.swapchain[j].image
  <2>1. f.slot # None => f.slot \in Slots
    BY DEF FrameRecords
  <2> QED
    BY <1>2, <2>1, SubmittedIs DEF QueuedChain
<1>4. \A h \in FrameRecords : Content(chain, h) = Content(o.swapchain, h)
  <2> HIDE DEF chain
  <2>1. \A h \in FrameRecords : h.slot # None => h.slot \in Slots
    BY DEF FrameRecords
  <2> QED
    BY <1>3, <2>1, ContentKept
<1>5. waiting \in Compositors /\ waiting.current = c.current /\ waiting.pending = c.pending /\ waiting.queued = f
  BY <1>2 DEF Compositors
<1>6. /\ g \in FrameRecords /\ g # NoFrame /\ ~g.skip /\ g.element = f.element /\ g.meant = f.meant
      /\ \A any : Content(any, g) = Content(any, f)
  BY InFlight
<1>7. f # NoFrame
  BY NoFrameIs
<1>8. /\ Frames(d) \subseteq {c.current, c.pending, f, g, NoFrame}
      /\ Newest(d) = f \/ Newest(d) = g
  <2>1. CASE c.pending = NoFrame
    <3>1. d = Flipped(waiting, f)
      BY <2>1 DEF QueuedCompositor
    <3> HIDE DEF waiting, g, d
    <3>2. d.current = c.current /\ d.pending = g /\ d.queued = NoFrame /\ Newest(d) = g
      BY <1>5, <3>1, FlippedIs DEF g
    <3> QED
      BY <3>2 DEF Frames
  <2>2. CASE c.pending # NoFrame
    <3>1. d = waiting
      BY <2>2 DEF QueuedCompositor
    <3> QED
      BY <1>5, <1>7, <3>1 DEF Frames, Newest
  <2> QED
    BY <2>1, <2>2
<1> HIDE DEF c, chain, waiting, g, d
<1>9. \A h \in {c.current, c.pending} : Content(o.swapchain, h) = h.meant /\ (h # NoFrame => ~h.skip \/ h.full)
  BY DEF Composed, Live, Frames, c
<1>10. Composed(chain, d) /\ Live(d)
  <2>1. \A h \in {c.current, c.pending, f, g, NoFrame} :
          h \in FrameRecords /\ Content(o.swapchain, h) = h.meant /\ (h # NoFrame => ~h.skip \/ h.full)
    BY <1>2, <1>6, <1>9, NoFrameIs
  <2> QED
    BY <1>4, <1>8, <2>1 DEF Composed, Live
<1>11. LatestFrame(chain, Newest(d), o.damage)
  <2>1. /\ Newest(d) # NoFrame /\ Newest(d).element = f.element
        /\ Content(chain, Newest(d)) = Content(o.swapchain, f)
    BY <1>4, <1>6, <1>7, <1>8
  <2> QED
    BY <2>1 DEF LatestFrame
<1> QED
  BY <1>1, <1>10, <1>11 DEF ScanInv, chain

-----------------------------------------------------------------------------
(* render_frame.                                                            *)

\* What an output that may render is: the scene is a list of elements, and no
\* frame waits that a full update does not replace.
MayRender(o) == ScanInv(scene, o) /\ Ready(o.swapchain, o.compositor) /\ scene \in Seq(Layers)

\* What is assumed: no flip fails.
Assumed == ConstantsSound /\ "flip" \notin Events

LEMMA AssumedIs ==
    ASSUME Assumed
    PROVE  "flip" \notin Events /\ Pixel # {} /\ None \notin Slots /\ None \notin Layers
BY DEF Assumed, ConstantsSound

LEMMA FramesTyped ==
    ASSUME NEW o \in Outputs
    PROVE  /\ Frames(o.compositor) \subseteq FrameRecords
           /\ Previous(o.compositor) \in Frames(o.compositor)
           /\ Newest(o.compositor) \in Frames(o.compositor)
           /\ o.compositor.queued = NoFrame => Newest(o.compositor) = Previous(o.compositor)
           /\ Full(o.compositor) \in BOOLEAN
<1>1. o.compositor \in Compositors
  BY DEF Outputs
<1>2. Frames(o.compositor) \subseteq FrameRecords
  BY <1>1 DEF Compositors, Frames
<1> QED
  BY <1>1, <1>2 DEF Frames, Previous, Newest, Full

\* Nothing to do: the output says so.
LEMMA EmptyKeeps ==
    ASSUME NEW s, NEW o \in Outputs, ScanInv(s, o),
           Content(o.swapchain, Newest(o.compositor)) = Image(s)
    PROVE  ScanInv(s, [o EXCEPT !.is_empty = TRUE])
<1> DEFINE r == [o EXCEPT !.is_empty = TRUE]
<1>1. /\ r \in Outputs /\ r.swapchain = o.swapchain /\ r.compositor = o.compositor
      /\ r.damage = o.damage /\ r.flip_pending = o.flip_pending
  BY DEF Outputs
<1> HIDE DEF r
<1>2. ScanInv(s, r)
  BY <1>1 DEF ScanInv
<1> QED
  BY <1>2 DEF r

LEMMA FinishedIs ==
    ASSUME NEW o, NEW f, NEW r \in Finished(o, f)
    PROVE  \/ f.skip /\ ~f.full /\ r = [o EXCEPT !.is_empty = TRUE]
           \/ (~f.skip \/ f.full) /\ r \in Queued(o, f)
BY DEF Finished

\* Direct scan-out keeps the output right.
LEMMA ScannedOutKeeps ==
    ASSUME Assumed, NEW o \in Outputs, MayRender(o), NEW r \in ScannedOut(o)
    PROVE  ScanInv(scene, r)
<1> DEFINE shown == Visible(scene)
           before == Previous(o.compositor)
           e == shown[1]
           same == before.element = e
           full == Full(o.compositor)
           f == [slot |-> None, image |-> Image(scene), element |-> e, meant |-> Image(scene),
                 skip |-> same, full |-> full]
<1>1. /\ scene \in Seq(Layers) /\ DistinctIds(scene) /\ ScanInv(scene, o) /\ Ready(o.swapchain, o.compositor)
  BY DEF MayRender, ScanInv
<1>2. shown \in Seq(Layers) /\ Image(shown) = Image(scene)
  BY <1>1, VisibleKeeps, ImageVisible
<1>3. Len(shown) = 1 /\ r \in Finished(o, f)
  <2>1. ScannedOut(o) = IF Len(shown) = 1 THEN Finished(o, f) ELSE {}
    BY DEF ScannedOut
  <2> HIDE DEF f, shown
  <2> QED
    BY <2>1
<1> HIDE DEF shown
<1>4. e \in Layers /\ e # None /\ shown = <<e>>
  BY <1>2, <1>3, AssumedIs
<1>5. Image(<<e>>) = Image(scene) /\ Image(scene) \in Images
  BY <1>1, <1>2, <1>4, ImageTyped
<1>6. same \in BOOLEAN /\ full \in BOOLEAN
  BY FramesTyped
<1> HIDE DEF same, full, e
<1>7. f \in FrameRecords
  BY <1>4, <1>5, <1>6 DEF FrameRecords
<1>8. /\ f.slot = None /\ f.image = Image(scene) /\ f.element = e /\ f.meant = Image(scene)
      /\ f.skip = same /\ f.full = full
  OBVIOUS
<1> HIDE DEF f
<1>9. Content(o.swapchain, f) = Image(scene)
  BY <1>8 DEF Content
<1>10. CASE f.skip /\ ~f.full /\ r = [o EXCEPT !.is_empty = TRUE]
  <2>1. o.compositor.queued = NoFrame
    BY <1>1, <1>8, <1>10 DEF Ready, full, Full
  <2>2. Newest(o.compositor) = before
    BY <2>1, FramesTyped
  <2>3. before.element = e
    BY <1>8, <1>10 DEF same
  <2>4. Content(o.swapchain, before) = Image(scene)
    <3> HIDE DEF before
    <3> QED
      BY <1>1, <1>4, <1>5, <2>2, <2>3 DEF ScanInv, LatestFrame
  <2> QED
    BY <1>1, <1>10, <2>2, <2>4, EmptyKeeps
<1>11. CASE (~f.skip \/ f.full) /\ r \in Queued(o, f)
  <2>1. QueuedChain(o.swapchain, f) = o.swapchain
    BY <1>8 DEF QueuedChain
  <2>2. /\ History(QueuedChain(o.swapchain, f), o.damage)
        /\ Composed(o.swapchain, o.compositor) /\ Live(o.compositor)
    BY <1>1, <2>1 DEF ScanInv
  <2>3. f.element # None /\ Content(o.swapchain, f) = f.meant /\ Content(o.swapchain, f) = Image(<<f.element>>)
    BY <1>4, <1>5, <1>8, <1>9
  <2> QED
    BY <1>1, <1>7, <1>11, <2>2, <2>3, QueuedKeeps DEF Assumed
<1> QED
  BY <1>3, <1>10, <1>11, FinishedIs

\* The tracker's state after drawing, or finding nothing to draw.
LEMMA TrackedShows ==
    ASSUME NEW chain \in Swapchains, NEW d \in Trackers, History(chain, d), NEW s \in Seq(Layers),
           NEW i \in Slots, Pixel # {}
    PROVE  LET e == Tracked(d, s, NewDamage(d, s), chain[i].age)
           IN  /\ e \in Trackers /\ Image(e.elements) = Image(s)
               /\ Repaint(d, NewDamage(d, s), chain[i].age) = {} => History(chain, e)
<1> DEFINE new == NewDamage(d, s)
           age == chain[i].age
           e == Tracked(d, s, new, age)
<1>1. age \in Nat /\ Len(d.old) \in Nat
  <2>1. chain[i] \in [age : 0 .. Oldest, image : Images] /\ d.old \in Seq(SUBSET Pixel)
    BY DEF Swapchains, Trackers
  <2> QED
    BY <2>1 DEF Oldest, MAX_AGE
<1>2. PICK kept \in Seq(SUBSET Pixel) : TrackedAs(d, s, age, kept)
  <2> HIDE DEF age
  <2> QED
    BY <1>1, TrackedIs
<1>3. /\ Len(kept) = IF age > 0 /\ Len(d.old) >= age THEN age
                     ELSE IF Len(d.old) <= MAX_AGE THEN Len(d.old) ELSE MAX_AGE
      /\ \A k \in 1 .. Len(kept) : k <= Len(d.old) /\ kept[k] = d.old[k]
      /\ e \in Trackers
      /\ Repaint(d, new, age) = {} => e.known = d.known /\ e.elements = d.elements /\ e.old = kept
      /\ Repaint(d, new, age) # {} => e.elements = s
  <2> HIDE DEF age
  <2> QED
    BY <1>2, Zenon DEF TrackedAs
<1>4. Repaint(d, new, age) = {} => Image(d.elements) = Image(s)
  BY NothingRepainted
<1> HIDE DEF new, age, e
<1>5. Image(e.elements) = Image(s)
  BY <1>3, <1>4
<1>6. ASSUME Repaint(d, new, age) = {}
      PROVE  History(chain, e)
  <2>1. Len(kept) <= Len(d.old)
    BY <1>1, <1>3 DEF MAX_AGE
  <2> QED
    BY <1>3, <1>6, <2>1, HistoryShortened
<1> QED
  BY <1>3, <1>5, <1>6 DEF new, age, e

\* Composition keeps the output right, whether something is drawn or not.
LEMMA CompositedKeeps ==
    ASSUME Assumed, NEW o \in Outputs, MayRender(o), FreeSlots(o.compositor) # {}, NEW r \in Composited(o)
    PROVE  ScanInv(scene, r)
<1> DEFINE shown == Visible(scene)
           chain == o.swapchain
           d == o.damage
           c == o.compositor
           i == NextSlot(c)
           age == chain[i].age
           new == NewDamage(d, shown)
           drawn == Repaint(d, new, age)
           full == Full(c)
           own == [slot |-> i, image |-> Blank, element |-> None, meant |-> Image(scene), skip |-> FALSE,
                   full |-> full]
           before == Previous(c)
           painted == [p \in Pixel |-> IF p \in drawn THEN Seen(scene, p) ELSE chain[i].image[p]]
           e == Tracked(d, shown, new, age)
           after == [o EXCEPT !.swapchain[i].image = painted, !.damage = e]
           over == [chain EXCEPT ![i].image = Image(scene)]
           f == Primary(before, own, drawn # {}, full)
<1>1. /\ scene \in Seq(Layers) /\ DistinctIds(scene) /\ ScanInv(scene, o) /\ Ready(chain, c)
      /\ chain \in Swapchains /\ d \in Trackers /\ c \in Compositors /\ History(chain, d)
      /\ Composed(chain, c) /\ Live(c) /\ LatestFrame(chain, Newest(c), d)
  BY DEF MayRender, ScanInv, Outputs
<1>2. shown \in Seq(Layers) /\ DistinctIds(shown) /\ Image(shown) = Image(scene) /\ Image(scene) \in Images
      /\ \A p : Seen(shown, p) = Seen(scene, p)
  BY <1>1, VisibleKeeps, ImageVisible, SeenVisible, ImageTyped
<1>3. i \in Slots /\ i \notin Acquired(c) /\ i # None
  <2>1. FreeSlots(c) \in SUBSET Nat
    BY DEF FreeSlots, Slots, SLOT_CAP
  <2>2. i \in FreeSlots(c)
    BY <2>1, MinInside DEF NextSlot
  <2> QED
    BY <2>2, AssumedIs DEF FreeSlots
<1>4. r \in Finished(after, f)
  BY DEF Composited
<1> HIDE DEF shown, i
<1>5. painted = Image(scene)
  <2>1. Painted(chain, d, shown, i) = Image(shown)
    BY <1>1, <1>2, <1>3, PaintedShows
  <2>2. painted = Painted(chain, d, shown, i)
    BY <1>2 DEF Painted
  <2> QED
    BY <1>2, <2>1, <2>2
<1>6. /\ e \in Trackers /\ Image(e.elements) = Image(scene)
      /\ drawn = {} => History(chain, e)
  BY <1>1, <1>2, <1>3, TrackedShows, AssumedIs
<1>7. /\ over \in Swapchains /\ over[i].image = Image(scene)
      /\ \A j \in Slots : over[j].age = chain[j].age
      /\ \A j \in Slots : j # i => over[j].image = chain[j].image
  BY <1>1, <1>2, <1>3, DrawnInto
<1>8. History(Submitted(over, i), e)
  <2>1. over = [chain EXCEPT ![i].image = Image(shown)]
    BY <1>2
  <2> QED
    BY <1>1, <1>2, <1>3, <2>1, HistoryGrows, AssumedIs
<1>9. /\ after \in Outputs /\ after.swapchain = over /\ after.compositor = c /\ after.damage = e
      /\ after.flip_pending = o.flip_pending /\ after.is_empty = o.is_empty
  <2>1. after = [o EXCEPT !.swapchain = over, !.damage = e]
    BY <1>5 DEF Outputs
  <2> HIDE DEF after, over, e
  <2> QED
    BY <1>6, <1>7, <2>1 DEF Outputs
<1>10. \A h \in Frames(c) : Content(over, h) = Content(chain, h)
  <2> SUFFICES ASSUME NEW h \in Frames(c) PROVE Content(over, h) = Content(chain, h)
    OBVIOUS
  <2>1. h \in FrameRecords
    BY FramesTyped
  <2>2. h.slot # None => h.slot \in Slots /\ h.slot # i
    BY <1>3, <2>1 DEF FrameRecords, Acquired
  <2> HIDE DEF over
  <2> QED
    BY <1>7, <2>2, ContentKept
<1>11. Composed(over, c)
  BY <1>1, <1>10 DEF Composed
<1>12. full \in BOOLEAN /\ before \in FrameRecords /\ before \in Frames(c)
  BY FramesTyped
<1>13. CASE drawn # {} \/ before.element # None
  <2>1. f = own
    BY <1>13 DEF Primary
  <2> HIDE DEF full
  <2>2. own \in FrameRecords
    <3>1. Blank \in Images
      BY DEF Blank, Images, Pictures
    <3> QED
      BY <1>2, <1>3, <1>12, <3>1 DEF FrameRecords
  <2>3. /\ own.slot = i /\ own.element = None /\ own.meant = Image(scene) /\ own.skip = FALSE
    OBVIOUS
  <2> HIDE DEF own, f, after, over, e, drawn
  <2>4. r \in Queued(after, own)
    BY <1>4, <2>1, <2>3, FinishedIs
  <2>5. Content(over, own) = Image(scene)
    BY <1>3, <1>7, <2>3 DEF Content
  <2>6. QueuedChain(over, own) = Submitted(over, i)
    BY <1>3, <2>3 DEF QueuedChain
  <2> QED
    BY <1>1, <1>6, <1>8, <1>9, <1>11, <2>2, <2>3, <2>4, <2>5, <2>6, QueuedKeeps DEF Assumed
<1>14. CASE drawn = {} /\ before.element = None
  <2>1. /\ age > 0 /\ d.known /\ Image(d.elements) = Image(scene)
    BY <1>1, <1>2, <1>3, <1>14, NothingRepainted, AssumedIs
  <2>2. over = chain
    <3>1. Pixel # {} /\ chain[i].age = age
      BY AssumedIs
    <3>2. Repaint(d, NewDamage(d, shown), chain[i].age) = {}
      BY <1>14, <3>1
    <3>3. [chain EXCEPT ![i].image = Image(shown)] = chain
      <4>1. /\ chain \in Swapchains /\ d \in Trackers /\ History(chain, d)
            /\ shown \in Seq(Layers) /\ i \in Slots
        BY <1>1, <1>2, <1>3
      <4> HIDE DEF chain, d, age
      <4> QED
        BY <3>1, <3>2, <4>1, NothingRepainted
    <3> QED
      BY <1>2, <3>3
  <2>3. Newest(c) # NoFrame
    BY <1>1, <1>3, <2>1 DEF LatestFrame
  <2>4. c.queued = NoFrame
    <3>1. age \in Nat
      <4>1. chain[i] \in [age : 0 .. Oldest, image : Images]
        BY <1>1, <1>3 DEF Swapchains
      <4> QED
        BY <4>1 DEF Oldest, MAX_AGE
    <3> QED
      BY <1>1, <1>3, <2>1, <3>1 DEF Ready
  <2>5. Newest(c) = before
    BY <2>4, FramesTyped
  <2>6. f = [before EXCEPT !.skip = TRUE, !.full = full, !.meant = Image(scene)]
    BY <1>14, <2>3, <2>5 DEF Primary
  <2> HIDE DEF full
  <2>7. /\ f \in FrameRecords /\ f.skip = TRUE /\ f.slot = before.slot /\ f.image = before.image
        /\ f.element = None /\ f.meant = Image(scene) /\ f.full = full
    <3> HIDE DEF before, f
    <3> QED
      BY <1>2, <1>12, <1>14, <2>6 DEF FrameRecords
  <2>8. Content(chain, before) = Image(scene)
    BY <1>1, <1>14, <2>1, <2>3, <2>5 DEF LatestFrame
  <2> HIDE DEF before, f, after, over, e, drawn
  <2>9. Content(over, f) = Image(scene)
    BY <2>2, <2>7, <2>8 DEF Content
  <2>10. History(over, e)
    BY <1>6, <1>14, <2>2
  <2>11. CASE f.skip /\ ~f.full /\ r = [after EXCEPT !.is_empty = TRUE]
    <3>1. LatestFrame(over, Newest(c), e)
      BY <1>6, <1>14, <2>2, <2>3, <2>5, <2>8 DEF LatestFrame
    <3>2. /\ o.flip_pending \/ Ready(over, c)
          /\ o.is_empty => Content(over, Newest(c)) = Image(scene)
      BY <1>1, <2>2 DEF ScanInv
    <3>3. ScanInv(scene, after)
      BY <1>1, <1>9, <1>11, <2>10, <3>1, <3>2 DEF ScanInv
    <3>4. Content(after.swapchain, Newest(after.compositor)) = Image(scene)
      BY <1>9, <2>2, <2>5, <2>8
    <3> QED
      BY <1>9, <2>11, <3>3, <3>4, EmptyKeeps
  <2>12. CASE (~f.skip \/ f.full) /\ r \in Queued(after, f)
    <3>1. QueuedChain(over, f) = over
      BY <2>7 DEF QueuedChain
    <3> QED
      BY <1>1, <1>6, <1>9, <1>11, <2>7, <2>9, <2>10, <2>12, <3>1, QueuedKeeps DEF Assumed
  <2> QED
    BY <1>4, <2>11, <2>12, FinishedIs
<1> QED
  BY <1>13, <1>14

\* reset_buffers: a frame keeps the buffer it has.
Detached(chain, f) == [f EXCEPT !.image = Content(chain, f), !.slot = None]

LEMMA DetachedIs ==
    ASSUME NEW chain \in Swapchains, NEW f \in FrameRecords
    PROVE  LET g == Detached(chain, f)
           IN  /\ g \in FrameRecords /\ \A any : Content(any, g) = Content(chain, f)
               /\ g.element = f.element /\ g.meant = f.meant /\ g.skip = f.skip /\ g.full = f.full
               /\ f = NoFrame => g = NoFrame
               /\ ~f.skip \/ f.full => g # NoFrame
<1> DEFINE image == Content(chain, f)
           g == Detached(chain, f)
<1>1. image \in Images
  <2>1. f.slot # None => chain[f.slot] \in [age : 0 .. Oldest, image : Images]
    BY DEF FrameRecords, Swapchains
  <2>2. f.image \in Images
    BY DEF FrameRecords
  <2> QED
    BY <2>1, <2>2 DEF Content
<1>2. g = [f EXCEPT !.image = image, !.slot = None]
  BY DEF Detached
<1>3. f = NoFrame => g = NoFrame
  <2> SUFFICES ASSUME f = NoFrame PROVE g = NoFrame
    OBVIOUS
  <2>1. image = Blank
    BY NoFrameIs
  <2> QED
    BY <1>2, <2>1 DEF NoFrame
<1> HIDE DEF image, g
<1>4. /\ g \in FrameRecords /\ g.image = image /\ g.slot = None
      /\ g.element = f.element /\ g.meant = f.meant /\ g.skip = f.skip /\ g.full = f.full
  BY <1>1, <1>2 DEF FrameRecords
<1>5. \A any : Content(any, g) = image
  BY <1>4 DEF Content
<1>6. ~f.skip \/ f.full => g # NoFrame
  BY <1>4, NoFrameIs
<1> QED
  BY <1>3, <1>4, <1>5, <1>6 DEF g, image

FreshChain == [i \in Slots |-> FreshSlot]

LEMMA FreshChainIs ==
    FreshChain \in Swapchains /\ \A j \in Slots : FreshChain[j].age = 0
<1>1. FreshSlot \in [age : 0 .. Oldest, image : Images] /\ FreshSlot.age = 0
  BY DEF FreshSlot, Oldest, MAX_AGE, Blank, Images, Pictures
<1> QED
  BY <1>1 DEF FreshChain, Swapchains

\* New buffers: the history says nothing about them.
LEMMA FreshHistory ==
    ASSUME NEW d \in Trackers, d.known => DistinctIds(d.elements), Len(d.old) <= MAX_AGE + 1
    PROVE  History(FreshChain, d)
<1>1. Aged(FreshChain, d)
  BY FreshChainIs DEF Aged
<1>2. \A v \in 1 .. (MAX_AGE + 1) : ~(\E j \in Slots : FreshChain[j].age > v)
  BY FreshChainIs
<1> QED
  BY <1>1, <1>2 DEF History, Short

\* An output whose buffers are all new shows what it did.
LEMMA ResetKeeps ==
    ASSUME NEW s, NEW o \in Outputs, ScanInv(s, o), NEW r \in Outputs,
           r.swapchain = FreshChain,
           r.compositor.current = Detached(o.swapchain, o.compositor.current),
           r.compositor.pending = Detached(o.swapchain, o.compositor.pending),
           r.compositor.queued = Detached(o.swapchain, o.compositor.queued),
           r.damage = o.damage \/ r.damage = Unknown,
           r.is_empty = o.is_empty,
           r.flip_pending \/ r.compositor.queued = NoFrame \/ r.compositor.reset_pending
    PROVE  ScanInv(s, r)
<1> DEFINE chain == o.swapchain
           c == o.compositor
           b == r.compositor
<1>1. /\ chain \in Swapchains /\ Frames(c) \subseteq FrameRecords
      /\ c.current \in Frames(c) /\ c.pending \in Frames(c) /\ c.queued \in Frames(c)
  <2>1. chain \in Swapchains
    BY DEF Outputs
  <2> QED
    BY <2>1, FramesTyped DEF Frames
<1>2. /\ Composed(chain, c) /\ Live(c) /\ LatestFrame(chain, Newest(c), o.damage)
      /\ History(chain, o.damage) /\ o.damage \in Trackers
  BY DEF ScanInv, Outputs
<1>3. \A f \in Frames(c) :
        /\ \A any : Content(any, Detached(chain, f)) = Content(chain, f)
        /\ Detached(chain, f).element = f.element /\ Detached(chain, f).meant = f.meant
        /\ Detached(chain, f).skip = f.skip /\ Detached(chain, f).full = f.full
        /\ f = NoFrame <=> Detached(chain, f) = NoFrame
  BY <1>1, <1>2, DetachedIs DEF Live
<1>4. Newest(b) = Detached(chain, Newest(c)) /\ Newest(c) \in Frames(c)
  <2>1. \A f \in Frames(c) : f = NoFrame <=> Detached(chain, f) = NoFrame
    BY <1>3
  <2> QED
    BY <1>1, <2>1 DEF Newest
<1>5. \A g \in Frames(b) : \E f \in Frames(c) : g = Detached(chain, f)
  BY DEF Frames
<1>6. Composed(FreshChain, b) /\ Live(b)
  BY <1>2, <1>3, <1>5 DEF Composed, Live
<1>7. History(FreshChain, r.damage)
  <2>1. Len(Unknown.old) <= MAX_AGE + 1 /\ ~Unknown.known /\ Unknown \in Trackers
    BY DEF Unknown, MAX_AGE, Trackers
  <2>2. CASE r.damage = o.damage
    BY <1>2, <2>2, FreshHistory DEF History, Short
  <2>3. CASE r.damage = Unknown
    BY <2>1, <2>3, FreshHistory
  <2> QED
    BY <2>2, <2>3
<1>8. LatestFrame(FreshChain, Newest(b), r.damage)
  <2>1. ~(\E j \in Slots : FreshChain[j].age > 0)
    BY FreshChainIs
  <2>2. ~Unknown.known
    BY DEF Unknown
  <2>3. /\ Content(FreshChain, Newest(b)) = Content(chain, Newest(c))
        /\ Newest(b).element = Newest(c).element
        /\ Newest(b) = NoFrame <=> Newest(c) = NoFrame
    BY <1>3, <1>4
  <2> QED
    BY <1>2, <2>1, <2>2, <2>3 DEF LatestFrame
<1>9. r.flip_pending \/ Ready(FreshChain, b)
  BY FreshChainIs DEF Ready
<1>10. r.is_empty => Content(FreshChain, Newest(b)) = Image(s)
  BY <1>3, <1>4 DEF ScanInv
<1>11. DistinctIds(s)
  BY DEF ScanInv
<1> QED
  BY <1>6, <1>7, <1>8, <1>9, <1>10, <1>11 DEF ScanInv

LEMMA ResetBuffersIs ==
    ASSUME NEW o \in Outputs
    PROVE  LET r == ResetBuffers(o)
           IN  /\ r \in Outputs /\ r.swapchain = FreshChain
               /\ r.compositor.current = Detached(o.swapchain, o.compositor.current)
               /\ r.compositor.pending = Detached(o.swapchain, o.compositor.pending)
               /\ r.compositor.queued = Detached(o.swapchain, o.compositor.queued)
               /\ r.compositor.reset_pending = o.compositor.reset_pending
               /\ r.damage = o.damage /\ r.flip_pending = o.flip_pending /\ r.is_empty = o.is_empty
<1> DEFINE c == o.compositor
           current == Detached(o.swapchain, c.current)
           pending == Detached(o.swapchain, c.pending)
           queued == Detached(o.swapchain, c.queued)
           d == [c EXCEPT !.current = current, !.pending = pending, !.queued = queued]
           r == ResetBuffers(o)
<1>1. c \in Compositors /\ o.swapchain \in Swapchains
  BY DEF Outputs
<1>2. c.current \in FrameRecords /\ c.pending \in FrameRecords /\ c.queued \in FrameRecords
  BY <1>1 DEF Compositors
<1>3. current \in FrameRecords /\ pending \in FrameRecords /\ queued \in FrameRecords
  BY <1>1, <1>2, DetachedIs
<1>4. r = [o EXCEPT !.swapchain = FreshChain, !.compositor.current = current,
                    !.compositor.pending = pending, !.compositor.queued = queued]
  BY DEF ResetBuffers, FreshChain, Detached
<1> HIDE DEF current, pending, queued, r
<1>5. /\ d \in Compositors /\ d.current = current /\ d.pending = pending /\ d.queued = queued
      /\ d.reset_pending = c.reset_pending
  BY <1>1, <1>3 DEF Compositors
<1>6. r = [o EXCEPT !.swapchain = FreshChain, !.compositor = d]
  BY <1>4 DEF Outputs
<1> HIDE DEF d
<1>7. /\ r \in Outputs /\ r.swapchain = FreshChain /\ r.compositor = d
      /\ r.damage = o.damage /\ r.flip_pending = o.flip_pending /\ r.is_empty = o.is_empty
  BY <1>5, <1>6, FreshChainIs DEF Outputs
<1> QED
  BY <1>5, <1>7 DEF current, pending, queued, r

\* A render that fails.
LEMMA RenderFailsKeeps ==
    ASSUME Assumed, NEW o \in Outputs, MayRender(o), NEW r \in RenderFails(o)
    PROVE  ScanInv(scene, r)
<1> DEFINE reset == ResetBuffers(o)
<1>1. r = [reset EXCEPT !.damage = Unknown]
  BY DEF RenderFails
<1>2. /\ reset \in Outputs /\ reset.swapchain = FreshChain
      /\ reset.compositor.current = Detached(o.swapchain, o.compositor.current)
      /\ reset.compositor.pending = Detached(o.swapchain, o.compositor.pending)
      /\ reset.compositor.queued = Detached(o.swapchain, o.compositor.queued)
      /\ reset.compositor.reset_pending = o.compositor.reset_pending
      /\ reset.flip_pending = o.flip_pending /\ reset.is_empty = o.is_empty
  BY ResetBuffersIs
<1> HIDE DEF reset
<1>3. Unknown \in Trackers
  BY DEF Unknown, Trackers
<1>4. /\ r \in Outputs /\ r.swapchain = reset.swapchain /\ r.compositor = reset.compositor
      /\ r.damage = Unknown /\ r.flip_pending = reset.flip_pending /\ r.is_empty = reset.is_empty
  BY <1>1, <1>2, <1>3 DEF Outputs
<1>5. o.compositor.queued = NoFrame \/ o.compositor.reset_pending
  BY DEF MayRender, Ready
<1>6. o.compositor.queued = NoFrame => Detached(o.swapchain, o.compositor.queued) = NoFrame
  <2>1. o.swapchain \in Swapchains
    BY DEF Outputs
  <2> QED
    BY <2>1, DetachedIs, NoFrameIs
<1>7. r.compositor.queued = NoFrame \/ r.compositor.reset_pending
  BY <1>2, <1>4, <1>5, <1>6
<1>8. ScanInv(scene, o)
  BY DEF MayRender
<1> QED
  BY <1>2, <1>4, <1>7, <1>8, ResetKeeps

\* Whatever a render does, the output stays right.
LEMMA RenderedKeeps ==
    ASSUME Assumed, NEW o \in Outputs, MayRender(o), NEW r \in Rendered(o)
    PROVE  ScanInv(scene, r)
<1>1. CASE FreeSlots(o.compositor) = {}
  BY <1>1 DEF Rendered, MayRender
<1>2. CASE FreeSlots(o.compositor) # {}
  <2>1. r \in ScannedOut(o) \/ r \in Composited(o) \/ r \in RenderFails(o)
    BY <1>2 DEF Rendered
  <2> QED
    BY <1>2, <2>1, ScannedOutKeeps, CompositedKeeps, RenderFailsKeeps
<1> QED
  BY <1>1, <1>2

\* frame_submitted: after it the output may render.
LEMMA FrameSubmittedKeeps ==
    ASSUME Assumed, NEW s, NEW o \in Outputs, ScanInv(s, o), o.compositor.pending # NoFrame,
           NEW r \in FrameSubmitted(o)
    PROVE  ScanInv(s, r) /\ Ready(r.swapchain, r.compositor)
<1> DEFINE c == o.compositor
           d == [c EXCEPT !.current = c.pending, !.pending = NoFrame]
           flown == Flipped(d, d.queued)
           With(b) == [o EXCEPT !.compositor = b, !.flip_pending = FALSE]
           next == IF c.queued = NoFrame THEN d ELSE flown
<1>1. c \in Compositors /\ Frames(c) \subseteq FrameRecords
  BY FramesTyped DEF Outputs
<1>2. d \in Compositors /\ d.current = c.pending /\ d.pending = NoFrame /\ d.queued = c.queued
  BY <1>1, NoFrameIs DEF Compositors
<1>3. r = With(next)
  <2>1. FrameSubmitted(o) = IF d.queued = NoFrame THEN {With(d)} ELSE {With(t.c) : t \in Submits(d)}
    BY DEF FrameSubmitted
  <2>2. Submits(d) = {[ok |-> TRUE, c |-> flown]}
    BY SubmitsIs DEF Assumed
  <2> HIDE DEF d, flown, With
  <2>3. CASE c.queued = NoFrame
    BY <1>2, <2>1, <2>3
  <2>4. CASE c.queued # NoFrame
    <3>1. r \in {With(t.c) : t \in {[ok |-> TRUE, c |-> flown]}}
      BY <1>2, <2>1, <2>2, <2>4
    <3> QED
      BY <2>4, <3>1
  <2> QED
    BY <2>3, <2>4
<1> HIDE DEF d
<1>4. c.queued \in FrameRecords /\ c.pending \in FrameRecords
  BY <1>1 DEF Frames
<1> DEFINE g == [c.queued EXCEPT !.skip = FALSE, !.full = FALSE]
<1>5. /\ g \in FrameRecords /\ g # NoFrame /\ ~g.skip
      /\ g.element = c.queued.element /\ g.meant = c.queued.meant
      /\ \A any : Content(any, g) = Content(any, c.queued)
  BY <1>4, InFlight
<1>6. /\ flown \in Compositors /\ flown.current = c.pending /\ flown.pending = g
      /\ flown.queued = NoFrame /\ Newest(flown) = g
  <2>1. d.queued = c.queued /\ d.current = c.pending /\ d \in Compositors
    BY <1>2
  <2>2. /\ Flipped(d, c.queued) \in Compositors
        /\ Flipped(d, c.queued).current = d.current /\ Flipped(d, c.queued).pending = g
        /\ Flipped(d, c.queued).queued = NoFrame /\ Newest(Flipped(d, c.queued)) = g
    BY <1>4, <2>1, FlippedIs, Zenon
  <2>3. flown = Flipped(d, c.queued)
    BY <2>1
  <2> HIDE DEF g, flown
  <2> QED
    BY <2>1, <2>2, <2>3, Zenon
<1> HIDE DEF flown, g
<1>7. /\ next \in Compositors /\ next.queued = NoFrame
      /\ Frames(next) \subseteq {c.pending, g, NoFrame}
      /\ IF c.queued = NoFrame THEN Newest(next) = Newest(c)
         ELSE Newest(next) = g /\ Newest(c) = c.queued /\ Frames(next) \subseteq {c.pending, g, NoFrame}
  <2>1. CASE c.queued = NoFrame
    BY <1>2, <2>1 DEF Frames, Newest
  <2>2. CASE c.queued # NoFrame
    BY <1>6, <2>2 DEF Frames, Newest
  <2> QED
    BY <2>1, <2>2
<1> HIDE DEF next
<1>8. /\ Newest(next).element = Newest(c).element
      /\ Newest(next) = NoFrame <=> Newest(c) = NoFrame
      /\ \A any : Content(any, Newest(next)) = Content(any, Newest(c))
  BY <1>5, <1>7
<1>9. /\ r \in Outputs /\ r.swapchain = o.swapchain /\ r.compositor = next /\ r.damage = o.damage
      /\ r.is_empty = o.is_empty
  <2>1. r = [o EXCEPT !.compositor = next, !.flip_pending = FALSE]
    BY <1>3
  <2> QED
    BY <1>7, <2>1 DEF Outputs
<1>10. Composed(o.swapchain, next) /\ Live(next)
  <2>1. \A h \in Frames(c) : Content(o.swapchain, h) = h.meant /\ (h # NoFrame => ~h.skip \/ h.full)
    BY DEF ScanInv, Composed, Live
  <2>2. c.pending \in Frames(c) /\ c.queued \in Frames(c)
    BY DEF Frames
  <2>3. \A h \in {c.pending, g, NoFrame} :
          Content(o.swapchain, h) = h.meant /\ (h # NoFrame => ~h.skip \/ h.full)
    BY <1>5, <2>1, <2>2, NoFrameIs
  <2> QED
    BY <1>7, <2>3 DEF Composed, Live
<1>11. LatestFrame(o.swapchain, Newest(next), o.damage)
  BY <1>8 DEF ScanInv, LatestFrame
<1>12. Ready(o.swapchain, next)
  BY <1>7 DEF Ready
<1>13. o.is_empty => Content(o.swapchain, Newest(next)) = Image(s)
  BY <1>8 DEF ScanInv
<1>14. DistinctIds(s) /\ History(o.swapchain, o.damage)
  BY DEF ScanInv
<1>15. ScanInv(s, r)
  BY <1>9, <1>10, <1>11, <1>12, <1>13, <1>14 DEF ScanInv
<1> QED
  BY <1>9, <1>12, <1>15

-----------------------------------------------------------------------------
(* The specification.                                                       *)

ScreenInv ==
    /\ scene \in Seq(Layers) /\ changes \in Nat
    /\ ScanInv(scene, Output)

\* Whatever follows in the code, the output is what the model says it becomes.
LEMMA OutputBecomes ==
    ASSUME ScreenInv, NEW o \in Outputs, Becomes(o), ScanInv(scene, o)
    PROVE  ScreenInv'
<1>1. Output' = o
  BY DEF Becomes, Output, Outputs
<1>2. scene' = scene /\ changes' = changes
  BY DEF Becomes
<1> QED
  BY <1>1, <1>2 DEF ScreenInv

\* A change of the scene leaves everything else as it is.
LEMMA SceneChanges ==
    ASSUME ScreenInv, NEW s \in Seq(Layers), DistinctIds(s), Shows(s)
    PROVE  ScreenInv'
<1> DEFINE o == Output
           r == [o EXCEPT !.is_empty = FALSE]
<1>1. scene' = s /\ changes' \in Nat
  BY DEF Shows, ScreenInv
<1>2. o \in Outputs /\ ScanInv(scene, o)
  BY DEF ScreenInv, ScanInv
<1>3. /\ r \in Outputs /\ r.swapchain = o.swapchain /\ r.compositor = o.compositor
      /\ r.damage = o.damage /\ r.flip_pending = o.flip_pending /\ r.is_empty = FALSE
  <2> HIDE DEF o
  <2> QED
    BY <1>2 DEF Outputs
<1>4. ScanInv(s, r)
  <2> HIDE DEF r, o
  <2> QED
    BY <1>2, <1>3 DEF ScanInv
<1> HIDE DEF r
<1>5. /\ swapchain' = r.swapchain /\ compositor' = r.compositor /\ damage' = r.damage
      /\ flip_pending' = r.flip_pending /\ is_empty' = r.is_empty
  BY <1>3 DEF Shows, Output
<1>6. Output' = r
  BY <1>3, <1>5 DEF Output, Outputs
<1> QED
  BY <1>1, <1>4, <1>6 DEF ScreenInv

LEMMA VblankKeeps ==
    ASSUME Assumed, ScreenInv, NEW vrr \in BOOLEAN, OnVblank(vrr)
    PROVE  ScreenInv'
<1> DEFINE pending == Output.compositor.commit_pending \/ vrr
           o == [Output EXCEPT !.compositor.commit_pending = pending]
<1>1. PICK r \in Rendered(o) : Becomes(r)
  BY DEF OnVblank
<1>2. Output \in Outputs /\ ScanInv(scene, Output) /\ scene \in Seq(Layers) /\ Output.compositor \in Compositors
  BY DEF ScreenInv, ScanInv, Outputs
<1>3. ~Output.flip_pending
  BY DEF OnVblank, Output
<1>4. pending \in BOOLEAN
  OBVIOUS
<1> DEFINE x == Output
           b == x.compositor
           c == [b EXCEPT !.commit_pending = pending]
<1>5. o = [x EXCEPT !.compositor = c]
  BY <1>2 DEF Outputs
<1> HIDE DEF pending, x, o
<1>6. /\ c \in Compositors /\ c.current = b.current /\ c.pending = b.pending /\ c.queued = b.queued
      /\ c.reset_pending = b.reset_pending
  BY <1>2, <1>4 DEF Compositors, x
<1> HIDE DEF b, c
<1>7. /\ o \in Outputs /\ o.swapchain = x.swapchain /\ o.compositor = c
      /\ o.damage = x.damage /\ o.flip_pending = x.flip_pending /\ o.is_empty = x.is_empty
  BY <1>2, <1>5, <1>6 DEF Outputs, x
<1>8. Frames(c) = Frames(b) /\ Newest(c) = Newest(b)
  BY <1>6 DEF Frames, Newest
<1>9. Ready(x.swapchain, b)
  BY <1>2, <1>3 DEF ScanInv, x, b
<1>10. ScanInv(scene, o) /\ Ready(o.swapchain, o.compositor)
  <2>1. ScanInv(scene, x)
    BY <1>2 DEF x
  <2>2. Ready(o.swapchain, c)
    BY <1>6, <1>7, <1>9 DEF Ready
  <2>3. Composed(o.swapchain, c) /\ Live(c) /\ LatestFrame(o.swapchain, Newest(c), o.damage)
    BY <1>7, <1>8, <2>1 DEF ScanInv, Composed, Live, b
  <2> QED
    BY <1>7, <1>8, <2>1, <2>2, <2>3 DEF ScanInv, b
<1>11. ScanInv(scene, r)
  BY <1>1, <1>2, <1>7, <1>10, RenderedKeeps DEF MayRender
<1>12. r \in Outputs
  BY <1>11 DEF ScanInv
<1> QED
  BY <1>1, <1>11, <1>12, OutputBecomes

LEMMA VBlankEventKeeps ==
    ASSUME Assumed, ScreenInv, VBlank
    PROVE  ScreenInv'
<1>1. PICK o \in FrameSubmitted(Output) : \E r \in Rendered(o) \union {o} : Becomes(r)
  BY DEF VBlank
<1>2. PICK r \in Rendered(o) \union {o} : Becomes(r)
  BY <1>1
<1>3. Output \in Outputs /\ ScanInv(scene, Output) /\ scene \in Seq(Layers)
  BY DEF ScreenInv, ScanInv
<1>4. Output.compositor.pending # NoFrame
  BY DEF VBlank, Output
<1>5. ScanInv(scene, o) /\ Ready(o.swapchain, o.compositor)
  BY <1>3, <1>4, FrameSubmittedKeeps
<1>6. o \in Outputs /\ MayRender(o)
  BY <1>3, <1>5 DEF ScanInv, MayRender
<1>7. ScanInv(scene, r)
  BY <1>5, <1>6, RenderedKeeps
<1>8. r \in Outputs
  BY <1>7 DEF ScanInv
<1> QED
  BY <1>2, <1>7, <1>8, OutputBecomes

LEMMA ResumeKeeps ==
    ASSUME ScreenInv, Resume
    PROVE  ScreenInv'
<1> DEFINE reset == ResetBuffers(Output)
           c == reset.compositor
           d == [c EXCEPT !.reset_pending = TRUE]
           r == [reset EXCEPT !.compositor.reset_pending = TRUE, !.flip_pending = FALSE]
<1>1. Becomes(r)
  BY DEF Resume
<1>2. Output \in Outputs /\ ScanInv(scene, Output)
  BY DEF ScreenInv, ScanInv
<1>3. /\ reset \in Outputs /\ reset.swapchain = FreshChain
      /\ reset.compositor.current = Detached(Output.swapchain, Output.compositor.current)
      /\ reset.compositor.pending = Detached(Output.swapchain, Output.compositor.pending)
      /\ reset.compositor.queued = Detached(Output.swapchain, Output.compositor.queued)
      /\ reset.damage = Output.damage /\ reset.is_empty = Output.is_empty
  BY <1>2, ResetBuffersIs
<1> HIDE DEF reset
<1>4. c \in Compositors
  BY <1>3 DEF Outputs
<1>5. /\ d \in Compositors /\ d.current = c.current /\ d.pending = c.pending /\ d.queued = c.queued
      /\ d.reset_pending = TRUE
  BY <1>4 DEF Compositors
<1>6. r = [reset EXCEPT !.compositor = d, !.flip_pending = FALSE]
  BY <1>3 DEF Outputs
<1> HIDE DEF d, r
<1>7. /\ r \in Outputs /\ r.swapchain = FreshChain /\ r.compositor = d
      /\ r.damage = Output.damage /\ r.is_empty = Output.is_empty
  BY <1>3, <1>5, <1>6 DEF Outputs
<1> DEFINE o == Output
<1>8. o \in Outputs /\ ScanInv(scene, o)
  BY <1>2
<1>9. /\ r.compositor.current = Detached(o.swapchain, o.compositor.current)
      /\ r.compositor.pending = Detached(o.swapchain, o.compositor.pending)
      /\ r.compositor.queued = Detached(o.swapchain, o.compositor.queued)
      /\ r.damage = o.damage /\ r.is_empty = o.is_empty /\ r.compositor.reset_pending
  BY <1>3, <1>5, <1>7
<1> HIDE DEF o
<1>10. ScanInv(scene, r)
  BY <1>7, <1>8, <1>9, ResetKeeps
<1> QED
  BY <1>1, <1>7, <1>10, OutputBecomes

\* The scene without the element at a position.
LEMMA RemovedIs ==
    ASSUME NEW S, NEW s \in Seq(S), NEW i \in DOMAIN s
    PROVE  LET t == RemoveAt(s, i)
           IN  /\ t \in Seq(S) /\ Len(t) = Len(s) - 1
               /\ \A j \in 1 .. Len(t) : t[j] = IF j < i THEN s[j] ELSE s[j + 1]
<1> DEFINE front == SubSeq(s, 1, i - 1)
           back == SubSeq(s, i + 1, Len(s))
<1>1. i \in 1 .. Len(s) /\ Len(s) \in Nat
  OBVIOUS
<1>2. front \in Seq(S) /\ Len(front) = i - 1 /\ \A j \in 1 .. (i - 1) : front[j] = s[j]
  BY <1>1
<1>3. back \in Seq(S) /\ Len(back) = Len(s) - i /\ \A j \in 1 .. (Len(s) - i) : back[j] = s[i + j]
  BY <1>1
<1>4. RemoveAt(s, i) = front \o back
  BY DEF RemoveAt
<1> HIDE DEF front, back
<1> DEFINE t == front \o back
<1>5. /\ t \in Seq(S) /\ Len(t) = Len(s) - 1
      /\ \A j \in 1 .. Len(t) : t[j] = IF j <= i - 1 THEN front[j] ELSE back[j - (i - 1)]
  <2>1. /\ t \in Seq(S) /\ Len(t) = Len(front) + Len(back)
        /\ \A j \in 1 .. (Len(front) + Len(back)) :
              t[j] = IF j <= Len(front) THEN front[j] ELSE back[j - Len(front)]
    BY <1>2, <1>3
  <2>2. Len(t) = Len(s) - 1
    BY <1>1, <1>2, <1>3, <2>1
  <2> HIDE DEF t
  <2> QED
    BY <1>2, <2>1, <2>2
<1> HIDE DEF t
<1>6. \A j \in 1 .. Len(t) : t[j] = IF j < i THEN s[j] ELSE s[j + 1]
  <2> TAKE j \in 1 .. Len(t)
  <2>1. CASE j < i
    BY <1>1, <1>2, <1>5, <2>1
  <2>2. CASE ~(j < i)
    <3>1. j - (i - 1) \in 1 .. (Len(s) - i) /\ i + (j - (i - 1)) = j + 1
      BY <1>1, <1>5, <2>2
    <3>2. back[j - (i - 1)] = s[j + 1]
      BY <1>3, <3>1
    <3> QED
      BY <1>1, <1>5, <2>2, <3>2
  <2> QED
    BY <2>1, <2>2
<1> QED
  BY <1>4, <1>5, <1>6 DEF t

LEMMA RemovedKeeps ==
    ASSUME NEW s \in Seq(Layers), DistinctIds(s), NEW i \in DOMAIN s
    PROVE  /\ RemoveAt(s, i) \in Seq(Layers) /\ DistinctIds(RemoveAt(s, i))
           /\ \A j \in DOMAIN RemoveAt(s, i) : RemoveAt(s, i)[j].id # s[i].id
<1> DEFINE t == RemoveAt(s, i)
           from(j) == IF j < i THEN j ELSE j + 1
<1>1. /\ t \in Seq(Layers) /\ Len(t) = Len(s) - 1
      /\ \A j \in 1 .. Len(t) : t[j] = IF j < i THEN s[j] ELSE s[j + 1]
  BY RemovedIs
<1> HIDE DEF t
<1>2. i \in 1 .. Len(s) /\ Len(s) \in Nat /\ DOMAIN t = 1 .. Len(t) /\ DOMAIN s = 1 .. Len(s)
  BY <1>1
<1>3. \A j \in DOMAIN t : from(j) \in DOMAIN s /\ from(j) # i /\ t[j] = s[from(j)]
  BY <1>1, <1>2
<1>4. \A j, k \in DOMAIN t : from(j) = from(k) => j = k
  BY <1>1, <1>2
<1> HIDE DEF from
<1>5. DistinctIds(t)
  BY <1>3, <1>4 DEF DistinctIds
<1>6. \A j \in DOMAIN t : t[j].id # s[i].id
  BY <1>3 DEF DistinctIds
<1> QED
  BY <1>1, <1>5, <1>6 DEF t

\* A new element in front.
LEMMA InFrontKeeps ==
    ASSUME NEW s \in Seq(Layers), DistinctIds(s), NEW e \in Layers, \A j \in DOMAIN s : s[j].id # e.id
    PROVE  <<e>> \o s \in Seq(Layers) /\ DistinctIds(<<e>> \o s)
<1> DEFINE t == <<e>> \o s
<1>1. /\ t \in Seq(Layers) /\ Len(t) = Len(s) + 1 /\ t[1] = e
      /\ \A j \in 1 .. Len(s) : t[j + 1] = s[j]
  OBVIOUS
<1> HIDE DEF t
<1>2. /\ Len(s) \in Nat /\ DOMAIN s = 1 .. Len(s) /\ DOMAIN t = 1 .. (Len(s) + 1)
  BY <1>1
<1>3. \A j \in DOMAIN t : j = 1 \/ (j - 1 \in DOMAIN s /\ t[j] = s[j - 1])
  <2> TAKE j \in DOMAIN t
  <2>1. j # 1 => j - 1 \in 1 .. Len(s) /\ (j - 1) + 1 = j
    BY <1>2
  <2> QED
    BY <1>1, <1>2, <2>1
<1>4. \A j, k \in DOMAIN t : t[j].id = t[k].id => j = k
  <2> SUFFICES ASSUME NEW j \in DOMAIN t, NEW k \in DOMAIN t, t[j].id = t[k].id PROVE j = k
    OBVIOUS
  <2>1. j = 1 <=> k = 1
    BY <1>1, <1>3
  <2>2. j # 1 => j - 1 = k - 1
    BY <1>3, <2>1 DEF DistinctIds
  <2> QED
    BY <1>2, <2>1, <2>2
<1> QED
  BY <1>1, <1>4 DEF DistinctIds, t

\* An element that is where it was in the list.
LEMMA ReplacedKeeps ==
    ASSUME NEW s \in Seq(Layers), DistinctIds(s), NEW i \in DOMAIN s, NEW e \in Layers, e.id = s[i].id
    PROVE  [s EXCEPT ![i] = e] \in Seq(Layers) /\ DistinctIds([s EXCEPT ![i] = e])
<1> DEFINE t == [s EXCEPT ![i] = e]
<1>1. t \in Seq(Layers) /\ DOMAIN t = DOMAIN s /\ \A j \in DOMAIN s : t[j].id = s[j].id
  OBVIOUS
<1> HIDE DEF t
<1>2. DistinctIds(t)
  BY <1>1 DEF DistinctIds
<1> QED
  BY <1>1, <1>2 DEF t

LEMMA SceneStep ==
    ASSUME ConstantsSound, ScreenInv,
           \/ \E e \in Element : \E place \in Places[e] : Open(e, place)
           \/ \E i \in DOMAIN scene : Close(i) \/ Commit(i) \/ BringUp(i)
           \/ \E i \in DOMAIN scene, place \in SUBSET Pixel : Move(i, place)
    PROVE  ScreenInv'
<1>1. scene \in Seq(Layers) /\ DistinctIds(scene) /\ changes \in Nat
  BY DEF ScreenInv, ScanInv
<1>2. \A i \in DOMAIN scene : scene[i] \in Layers
  BY <1>1
<1>3. CASE \E e \in Element : \E place \in Places[e] : Open(e, place)
  <2>0. PICK e \in Element : \E place \in Places[e] : Open(e, place)
    BY <1>3
  <2>1. PICK place \in Places[e] : Open(e, place)
    BY <2>0
  <2> DEFINE new == [id |-> e, geo |-> place, commit |-> changes + 1]
  <2>2. place \subseteq Pixel
    BY DEF ConstantsSound
  <2>3. new \in Layers /\ new.id = e
    BY <1>1, <2>2 DEF Layers
  <2>4. \A j \in DOMAIN scene : scene[j].id # e
    BY <2>1 DEF Open, Ids
  <2>5. Shows(<<new>> \o scene)
    BY <2>1 DEF Open
  <2> HIDE DEF new
  <2>6. <<new>> \o scene \in Seq(Layers) /\ DistinctIds(<<new>> \o scene)
    BY <1>1, <2>3, <2>4, InFrontKeeps
  <2> QED
    BY <2>5, <2>6, SceneChanges
<1>4. ASSUME NEW i \in DOMAIN scene, Close(i)
      PROVE  ScreenInv'
  <2>1. Shows(RemoveAt(scene, i))
    BY <1>4 DEF Close
  <2>2. RemoveAt(scene, i) \in Seq(Layers) /\ DistinctIds(RemoveAt(scene, i))
    BY <1>1, RemovedKeeps
  <2> QED
    BY <2>1, <2>2, SceneChanges
<1>5. ASSUME NEW i \in DOMAIN scene, Commit(i)
      PROVE  ScreenInv'
  <2> DEFINE commit == changes + 1
             e == [scene[i] EXCEPT !.commit = commit]
  <2>1. commit \in Nat
    BY <1>1
  <2>2. Shows([scene EXCEPT ![i] = e])
    BY <1>5 DEF Commit
  <2> HIDE DEF commit
  <2>4. e \in Layers /\ e.id = scene[i].id
    BY <1>2, <2>1 DEF Layers
  <2> HIDE DEF e
  <2>3. [scene EXCEPT ![i] = e] \in Seq(Layers) /\ DistinctIds([scene EXCEPT ![i] = e])
    BY <1>1, <2>4, ReplacedKeeps
  <2> QED
    BY <2>2, <2>3, SceneChanges
<1>6. ASSUME NEW i \in DOMAIN scene, BringUp(i)
      PROVE  ScreenInv'
  <2> DEFINE t == RemoveAt(scene, i)
             e == scene[i]
  <2>1. Shows(<<e>> \o t)
    BY <1>6 DEF BringUp
  <2>2. t \in Seq(Layers) /\ DistinctIds(t) /\ \A j \in DOMAIN t : t[j].id # e.id
    BY <1>1, RemovedKeeps
  <2>3. e \in Layers
    BY <1>2
  <2> HIDE DEF t, e
  <2>4. <<e>> \o t \in Seq(Layers) /\ DistinctIds(<<e>> \o t)
    BY <2>2, <2>3, InFrontKeeps
  <2> QED
    BY <2>1, <2>4, SceneChanges
<1>7. ASSUME NEW i \in DOMAIN scene, NEW place \in SUBSET Pixel, Move(i, place)
      PROVE  ScreenInv'
  <2> DEFINE e == [scene[i] EXCEPT !.geo = place]
  <2>1. e \in Layers /\ e.id = scene[i].id
    BY <1>2 DEF Layers
  <2>2. Shows([scene EXCEPT ![i] = e])
    BY <1>7 DEF Move
  <2> HIDE DEF e
  <2>3. [scene EXCEPT ![i] = e] \in Seq(Layers) /\ DistinctIds([scene EXCEPT ![i] = e])
    BY <1>1, <2>1, ReplacedKeeps
  <2> QED
    BY <2>2, <2>3, SceneChanges
<1> QED
  BY <1>3, <1>4, <1>5, <1>6, <1>7

LEMMA InitScreen ==
    ASSUME ConstantsSound, Init
    PROVE  ScreenInv
<1>1. scene \in Seq(Layers) /\ DistinctIds(scene)
  <2> DEFINE ids == UNION {SetToSeqs(E) : E \in SUBSET Element}
             Placed(list) == {places \in [DOMAIN list -> SUBSET Pixel] :
                                \A i \in DOMAIN list : places[i] \in Places[list[i]]}
             With(list, places) == [i \in DOMAIN list |-> [id |-> list[i], geo |-> places[i], commit |-> 0]]
  <2>1. Scenes = UNION {{With(list, places) : places \in Placed(list)} : list \in ids}
    BY DEF Scenes
  <2>2. scene \in Scenes
    BY DEF Init
  <2> HIDE DEF ids, Placed, With
  <2>3. PICK list \in ids : \E places \in Placed(list) : scene = With(list, places)
    BY <2>1, <2>2
  <2>4. PICK places \in Placed(list) : scene = With(list, places)
    BY <2>3
  <2>5. PICK E \in SUBSET Element : list \in SetToSeqs(E)
    BY DEF ids
  <2> DEFINE n == Cardinality(E)
  <2>6. n \in Nat
    BY FS_CardinalityType, FS_Subset DEF ConstantsSound
  <2>7. list \in [1 .. n -> E] /\ \A i, j \in 1 .. n : i # j => list[i] # list[j]
    BY <2>5 DEF SetToSeqs
  <2> HIDE DEF n
  <2>8. places \in [1 .. n -> SUBSET Pixel]
    BY <2>7 DEF Placed
  <2>9. scene = [i \in 1 .. n |-> [id |-> list[i], geo |-> places[i], commit |-> 0]]
    BY <2>4, <2>7 DEF With
  <2>10. \A i \in 1 .. n : [id |-> list[i], geo |-> places[i], commit |-> 0] \in Layers
    BY <2>7, <2>8 DEF Layers
  <2>11. scene \in [1 .. n -> Layers] /\ \A i \in 1 .. n : scene[i].id = list[i]
    BY <2>9, <2>10
  <2>12. scene \in Seq(Layers)
    BY <2>6, <2>11
  <2>13. DistinctIds(scene)
    BY <2>7, <2>11 DEF DistinctIds
  <2> QED
    BY <2>12, <2>13
<1>2. changes \in Nat
  BY DEF Init
<1> DEFINE o == Output
           c == [current |-> NoFrame, pending |-> NoFrame, queued |-> NoFrame,
                 reset_pending |-> TRUE, commit_pending |-> FALSE]
<1>3. /\ o.swapchain = FreshChain /\ o.compositor = c /\ o.damage = Unknown
      /\ o.flip_pending = FALSE /\ o.is_empty = FALSE
  BY DEF Init, Output, FreshChain
<1>4. c \in Compositors /\ Frames(c) = {NoFrame} /\ Newest(c) = NoFrame /\ c.queued = NoFrame
  BY NoFrameIs DEF Compositors, Frames, Newest
<1>5. Unknown \in Trackers /\ ~Unknown.known /\ Len(Unknown.old) = 0
  BY DEF Unknown, Trackers
<1>6. o \in Outputs
  <2>1. o = [swapchain |-> FreshChain, compositor |-> c, damage |-> Unknown,
             flip_pending |-> FALSE, is_empty |-> FALSE]
    BY DEF Init, Output, FreshChain
  <2> HIDE DEF o, c
  <2> QED
    BY <1>4, <1>5, <2>1, FreshChainIs DEF Outputs
<1> HIDE DEF o, c
<1>7. History(FreshChain, Unknown)
  BY <1>5, FreshHistory DEF MAX_AGE
<1>8. Composed(FreshChain, c) /\ Live(c) /\ LatestFrame(FreshChain, Newest(c), Unknown) /\ Ready(FreshChain, c)
  BY <1>4, <1>5, NoFrameIs, FreshChainIs DEF Composed, Live, LatestFrame, Ready
<1>9. ScanInv(scene, o)
  BY <1>1, <1>3, <1>6, <1>7, <1>8 DEF ScanInv
<1> QED
  BY <1>1, <1>2, <1>9 DEF ScreenInv, o

LEMMA ScreenSteps ==
    ASSUME ConstantsSound, "flip" \notin Events, ScreenInv, [Next]_vars
    PROVE  ScreenInv'
<1>1. Assumed
  BY DEF Assumed
<1>2. CASE UNCHANGED vars
  <2>1. Output' = Output /\ scene' = scene /\ changes' = changes
    BY <1>2 DEF vars, Output
  <2> QED
    BY <2>1 DEF ScreenInv
<1>3. ASSUME NEW vrr \in BOOLEAN, OnVblank(vrr)
      PROVE  ScreenInv'
  BY <1>1, <1>3, VblankKeeps
<1>4. CASE VBlank
  BY <1>1, <1>4, VBlankEventKeeps
<1>5. CASE Resume
  BY <1>5, ResumeKeeps
<1> QED
  BY <1>2, <1>3, <1>4, <1>5, SceneStep DEF Next

LEMMA ScreenInvHolds == ASSUME ConstantsSound, "flip" \notin Events PROVE Spec => []ScreenInv
<1>1. Init => ScreenInv
  BY InitScreen
<1>2. ScreenInv /\ [Next]_vars => ScreenInv'
  BY ScreenSteps
<1> QED
  BY <1>1, <1>2, PTL DEF Spec

\* What every frame shows, on the screen or on its way there, is the scene it
\* was composed from: nobody draws into a buffer that is in a frame, and a buffer
\* that is repainted in part, from the damage its age says it missed, ends up with
\* all of the scene (render_frame, OutputDamageTracker.damage_output_internal).
THEOREM ScenesShown ==
    ASSUME ConstantsSound, "flip" \notin Events PROVE Spec => []FramesShowTheirScene
<1>1. ScreenInv => FramesShowTheirScene
  BY DEF ScreenInv, ScanInv, Composed, Output, FramesShowTheirScene
<1> QED
  BY <1>1, ScreenInvHolds, PTL

\* A render that finds nothing to do is right: the frame queued last shows the
\* scene as it is, also after frames that were never shown, a direct scan-out, a
\* render that failed or a resumed session (DrmCompositor.render_frame, is_empty).
THEOREM NothingForgotten ==
    ASSUME ConstantsSound, "flip" \notin Events PROVE Spec => []NothingLeftBehind
<1>1. ScreenInv => NothingLeftBehind
  BY DEF ScreenInv, ScanInv, Output, NothingLeftBehind
<1> QED
  BY <1>1, ScreenInvHolds, PTL
=============================================================================

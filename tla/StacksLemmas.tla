---------------------------- MODULE StacksLemmas ----------------------------
(***************************************************************************)
(* What the list operations of Stacks do to sequences of every length, and *)
(* what a loop over a list does, written as a recursive function.          *)
(***************************************************************************)
EXTENDS Stacks, SequenceTheorems, WellFoundedInduction, TLAPS

\* A set of positions that is not empty has a first one ...
LEMMA FirstPosition ==
    ASSUME NEW T \in SUBSET Nat, T # {}
    PROVE  \E i \in T : \A j \in T : i <= j
<1> DEFINE less == OpToRel(<, Nat)
<1>1. IsWellFoundedOn(less, Nat)
  BY NatLessThanWellFounded
<1>2. \A a, b \in Nat : a < b => <<a, b>> \in less
  BY Zenon DEF OpToRel
<1> HIDE DEF less
<1>3. \E i \in T : \A j \in T : <<j, i>> \notin less
  BY <1>1, WFMin
<1>4. PICK i \in T : \A j \in T : <<j, i>> \notin less
  BY <1>3
<1>5. \A j \in T : ~(j < i)
  BY <1>2, <1>4, Zenon
<1> QED
  BY <1>5

\* ... and, when it is bounded, a last one.
LEMMA LastPosition ==
    ASSUME NEW n \in Nat, NEW T \in SUBSET (1 .. n), T # {}
    PROVE  \E i \in T : \A j \in T : j <= i
<1> DEFINE left == {n - i : i \in T}
<1>1. left \in SUBSET Nat /\ left # {}
  <2>1. left \subseteq Nat
    OBVIOUS
  <2>2. PICK e \in T : TRUE
    OBVIOUS
  <2>3. n - e \in left
    OBVIOUS
  <2> QED
    BY <2>1, <2>3
<1>2. PICK k \in left : \A l \in left : k <= l
  <2> HIDE DEF left
  <2> QED
    BY <1>1, FirstPosition
<1>3. PICK i \in T : k = n - i
  BY <1>2
<1>4. \A j \in T : n - i <= n - j
  BY <1>2, <1>3
<1> QED
  BY <1>4

\* A member of a list has a position.
LEMMA ElementsOf ==
    ASSUME NEW S, NEW s \in Seq(S)
    PROVE  /\ Elements(s) \subseteq S
           /\ \A e : e \in Elements(s) <=> \E i \in 1 .. Len(s) : s[i] = e
BY DEF Elements

\* The first window of a kind is on the list and of that kind, if there is one.
LEMMA FirstInFinds ==
    ASSUME NEW S, NEW s \in Seq(S), NEW T, NEW none
    PROVE  \/ FirstIn(s, T, none) = none
           \/ FirstIn(s, T, none) \in Elements(s) \cap T
<1> DEFINE hits == {i \in DOMAIN s : s[i] \in T}
<1>1. CASE hits = {}
  BY <1>1 DEF FirstIn
<1>2. CASE hits # {}
  <2>1. hits \in SUBSET Nat
    OBVIOUS
  <2>2. \E i \in hits : \A j \in hits : i <= j
    <3> HIDE DEF hits
    <3> QED
      BY <1>2, <2>1, FirstPosition
  <2> DEFINE p == CHOOSE i \in hits : \A j \in hits : i <= j
  <2>3. p \in hits
    BY <2>2
  <2>4. FirstIn(s, T, none) = s[p]
    BY <1>2 DEF FirstIn
  <2> QED
    BY <2>3, <2>4 DEF Elements
<1> QED
  BY <1>1, <1>2

\* ... and there is one whenever the list has a member of the kind.
LEMMA FirstInHits ==
    ASSUME NEW S, NEW s \in Seq(S), NEW T, NEW none, NEW e \in Elements(s) \cap T
    PROVE  FirstIn(s, T, none) \in Elements(s) \cap T
<1> DEFINE hits == {i \in DOMAIN s : s[i] \in T}
<1>1. hits \in SUBSET Nat /\ hits # {}
  BY DEF Elements
<1>2. \E i \in hits : \A j \in hits : i <= j
  <2> HIDE DEF hits
  <2> QED
    BY <1>1, FirstPosition
<1> DEFINE p == CHOOSE i \in hits : \A j \in hits : i <= j
<1>3. p \in hits
  BY <1>2
<1>4. FirstIn(s, T, none) = s[p]
  BY <1>1 DEF FirstIn
<1> QED
  BY <1>3, <1>4 DEF Elements

\* So is the last one.
LEMMA LastInFinds ==
    ASSUME NEW S, NEW s \in Seq(S), NEW T, NEW none
    PROVE  \/ LastIn(s, T, none) = none
           \/ LastIn(s, T, none) \in Elements(s) \cap T
<1> DEFINE hits == {i \in DOMAIN s : s[i] \in T}
<1>1. CASE hits = {}
  BY <1>1 DEF LastIn
<1>2. CASE hits # {}
  <2>1. hits \in SUBSET (1 .. Len(s)) /\ Len(s) \in Nat
    OBVIOUS
  <2>2. \E i \in hits : \A j \in hits : j <= i
    <3> HIDE DEF hits
    <3> QED
      BY <1>2, <2>1, LastPosition
  <2> DEFINE p == CHOOSE i \in hits : \A j \in hits : j <= i
  <2>3. p \in hits
    BY <2>2
  <2>4. LastIn(s, T, none) = s[p]
    BY <1>2 DEF LastIn
  <2> QED
    BY <2>3, <2>4 DEF Elements
<1> QED
  BY <1>1, <1>2

\* Vec::remove shortens a list by the position that goes.
LEMMA DroppedElements ==
    ASSUME NEW S, NEW s \in Seq(S), NEW p \in 1 .. Len(s)
    PROVE  /\ Dropped(s, p) \in Seq(S)
           /\ Len(Dropped(s, p)) = Len(s) - 1
           /\ \A i \in 1 .. (Len(s) - 1) :
                 Dropped(s, p)[i] = IF i < p THEN s[i] ELSE s[i + 1]
<1> DEFINE d == [i \in 1 .. (Len(s) - 1) |-> IF i < p THEN s[i] ELSE s[i + 1]]
<1>1. Dropped(s, p) = d
  BY DEF Dropped
<1>2. Len(s) - 1 \in Nat
  OBVIOUS
<1>3. \A i \in 1 .. (Len(s) - 1) : (IF i < p THEN s[i] ELSE s[i + 1]) \in S
  OBVIOUS
<1>4. d \in [1 .. (Len(s) - 1) -> S]
  BY <1>3
<1>5. d \in Seq(S) /\ Len(d) = Len(s) - 1
  BY <1>2, <1>4
<1> QED
  BY <1>1, <1>5

\* On a list without duplicates, retain is the removal of the one position of e.
LEMMA WithoutIsDropped ==
    ASSUME NEW S, NEW s \in Seq(S), NEW e, e \in Elements(s)
    PROVE  \E p \in 1 .. Len(s) : s[p] = e /\ Without(s, e) = Dropped(s, p)
<1> DEFINE p == CHOOSE i \in DOMAIN s : s[i] = e
<1>1. p \in DOMAIN s /\ s[p] = e
  BY DEF Elements
<1>2. Without(s, e) = Dropped(s, p)
  BY DEF Without, Dropped
<1>3. DOMAIN s = 1 .. Len(s)
  OBVIOUS
<1> HIDE DEF p
<1> QED
  BY <1>1, <1>2, <1>3, Zenon

LEMMA WithoutElements ==
    ASSUME NEW S, NEW s \in Seq(S), NEW e, Distinct(s)
    PROVE  /\ Without(s, e) \in Seq(S)
           /\ Len(Without(s, e)) <= Len(s)
           /\ Elements(Without(s, e)) = Elements(s) \ {e}
           /\ Distinct(Without(s, e))
<1>1. CASE e \notin Elements(s)
  <2>1. Without(s, e) = s
    BY <1>1 DEF Without
  <2>2. Elements(s) = Elements(s) \ {e}
    BY <1>1
  <2> QED
    BY <2>1, <2>2
<1>2. CASE e \in Elements(s)
  <2>1. PICK p \in 1 .. Len(s) : s[p] = e /\ Without(s, e) = Dropped(s, p)
    BY <1>2, WithoutIsDropped
  <2> DEFINE d == Dropped(s, p)
  <2>2. /\ d \in Seq(S) /\ Len(d) = Len(s) - 1
        /\ \A i \in 1 .. (Len(s) - 1) : d[i] = IF i < p THEN s[i] ELSE s[i + 1]
    BY DroppedElements
  <2> HIDE DEF d
  <2>3. \A i, j \in 1 .. Len(s) : s[i] = s[j] => i = j
    BY DEF Distinct
  <2>4. Distinct(d)
    <3> SUFFICES ASSUME NEW i \in 1 .. (Len(s) - 1), NEW j \in 1 .. (Len(s) - 1), d[i] = d[j]
                 PROVE  i = j
      BY <2>2 DEF Distinct
    <3> DEFINE at(n) == IF n < p THEN n ELSE n + 1
    <3>1. at(i) \in 1 .. Len(s) /\ at(j) \in 1 .. Len(s)
      OBVIOUS
    <3>2. d[i] = s[at(i)] /\ d[j] = s[at(j)]
      BY <2>2
    <3>3. at(i) = at(j)
      <4> HIDE DEF at
      <4> QED
        BY <2>3, <3>1, <3>2
    <3> QED
      BY <3>3
  <2>5. Elements(d) \subseteq Elements(s) \ {e}
    <3> SUFFICES ASSUME NEW i \in 1 .. (Len(s) - 1)
                 PROVE  d[i] \in Elements(s) \ {e}
      BY <2>2 DEF Elements
    <3>1. CASE i < p
      BY <2>1, <2>2, <2>3, <3>1 DEF Elements
    <3>2. CASE ~(i < p)
      BY <2>1, <2>2, <2>3, <3>2 DEF Elements
    <3> QED
      BY <3>1, <3>2
  <2>6. Elements(s) \ {e} \subseteq Elements(d)
    <3> SUFFICES ASSUME NEW i \in 1 .. Len(s), s[i] # e
                 PROVE  \E j \in 1 .. (Len(s) - 1) : d[j] = s[i]
      BY <2>2 DEF Elements
    <3>1. CASE i < p
      BY <2>2, <3>1
    <3>2. CASE i > p
      <4>1. i - 1 \in 1 .. (Len(s) - 1) /\ d[i - 1] = s[i]
        BY <2>2, <3>2
      <4> QED
        BY <4>1
    <3> QED
      BY <2>1, <3>1, <3>2
  <2> QED
    BY <2>1, <2>2, <2>4, <2>5, <2>6 DEF d
<1> QED
  BY <1>1, <1>2

\* Raising a window puts it on top, once.
LEMMA RaiseElements ==
    ASSUME NEW S, NEW s \in Seq(S), NEW e \in S, Distinct(s)
    PROVE  /\ Raise(s, e) \in Seq(S)
           /\ Elements(Raise(s, e)) = Elements(s) \cup {e}
           /\ Distinct(Raise(s, e))
<1> DEFINE r == Without(s, e)
           t == <<e>> \o r
<1>1. /\ r \in Seq(S) /\ Distinct(r)
      /\ Elements(r) = Elements(s) \ {e}
  BY WithoutElements
<1> HIDE DEF r
<1>2. <<e>> \in Seq(S) /\ Len(<<e>>) = 1 /\ <<e>>[1] = e
  OBVIOUS
<1>3. /\ t \in Seq(S) /\ Len(t) = Len(r) + 1
      /\ t[1] = e /\ \A i \in 2 .. Len(t) : t[i] = r[i - 1]
  BY <1>1, <1>2, ConcatProperties
<1> HIDE DEF t
<1>4. \A i \in 2 .. Len(t) : t[i] \in Elements(r)
  BY <1>1, <1>3 DEF Elements
<1>5. Distinct(t)
  <2> SUFFICES ASSUME NEW i \in 1 .. Len(t), NEW j \in 1 .. Len(t), t[i] = t[j], i < j
               PROVE  FALSE
    BY <1>3 DEF Distinct
  <2>1. CASE i = 1
    BY <1>1, <1>3, <1>4, <2>1
  <2>2. CASE i # 1
    BY <1>1, <1>3, <2>2 DEF Distinct
  <2> QED
    BY <2>1, <2>2
<1>6. Elements(t) = Elements(s) \cup {e}
  <2>1. Elements(t) \subseteq Elements(r) \cup {e}
    <3> SUFFICES ASSUME NEW i \in 1 .. Len(t) PROVE t[i] \in Elements(r) \cup {e}
      BY <1>3 DEF Elements
    <3> QED
      BY <1>3, <1>4
  <2>2. e \in Elements(t)
    BY <1>3 DEF Elements
  <2>3. Elements(r) \subseteq Elements(t)
    <3> SUFFICES ASSUME NEW i \in 1 .. Len(r) PROVE r[i] \in Elements(t)
      BY <1>1 DEF Elements
    <3>1. i + 1 \in 1 .. Len(t) /\ t[i + 1] = r[i]
      BY <1>1, <1>3
    <3>2. DOMAIN t = 1 .. Len(t)
      BY <1>3
    <3> QED
      BY <3>1, <3>2, Zenon DEF Elements
  <2>4. Elements(s) \subseteq Elements(r) \cup {e}
    BY <1>1
  <2> QED
    BY <1>1, <2>1, <2>2, <2>3, <2>4
<1> QED
  BY <1>3, <1>5, <1>6 DEF Raise, t, r

-----------------------------------------------------------------------------
(* Loops: the code repeats a step for each member of a list.               *)

\* Induction up to the length of a list.
LEMMA UpTo ==
    ASSUME NEW n \in Nat, NEW T, 0 \in T, \A i \in 1 .. n : i - 1 \in T => i \in T
    PROVE  0 .. n \subseteq T
<1> DEFINE missing == {i \in 0 .. n : i \notin T}
<1> SUFFICES ASSUME missing # {} PROVE FALSE
  OBVIOUS
<1>1. missing \in SUBSET Nat
  OBVIOUS
<1>2. PICK p \in missing : \A q \in missing : p <= q
  <2> HIDE DEF missing
  <2> QED
    BY <1>1, FirstPosition
<1>3. p \in 1 .. n /\ p - 1 \in 0 .. n /\ ~(p <= p - 1)
  OBVIOUS
<1>4. p - 1 \in T
  BY <1>2, <1>3
<1> QED
  BY <1>3, <1>4

Iterates(f, n, base, step) == f[0] = base /\ \A i \in 1 .. n : f[i] = step[i][f[i - 1]]

Branches(f, n, S, next) ==
  f = [i \in 0 .. n |-> IF i = 0 THEN S ELSE UNION {next[i][u] : u \in f[i - 1]}]

\* Steps on a set Y, one after the other, have results.
LEMMA LoopExists ==
    ASSUME NEW n \in Nat, NEW Y, NEW base \in Y, NEW step \in [1 .. n -> [Y -> Y]]
    PROVE  \E f \in [0 .. n -> Y] : Iterates(f, n, base, step)
<1> DEFINE Run(f, m) == f[0] = base /\ \A i \in 1 .. m : f[i] = step[i][f[i - 1]]
           T == {m \in 0 .. n : \E f \in [0 .. m -> Y] : Run(f, m)}
<1>1. 0 \in T
  <2> DEFINE g == [i \in 0 .. 0 |-> base]
  <2>1. g \in [0 .. 0 -> Y] /\ g[0] = base
    OBVIOUS
  <2>2. Run(g, 0)
    BY <2>1
  <2> HIDE DEF g, Run
  <2> QED
    BY <2>1, <2>2
<1>2. ASSUME NEW m \in 1 .. n, m - 1 \in T
      PROVE  m \in T
  <2>1. PICK f \in [0 .. m - 1 -> Y] : Run(f, m - 1)
    BY <1>2
  <2> DEFINE g == [i \in 0 .. m |-> IF i = m THEN step[m][f[m - 1]] ELSE f[i]]
  <2>2. f[m - 1] \in Y /\ step[m] \in [Y -> Y]
    OBVIOUS
  <2>3. g \in [0 .. m -> Y]
    BY <2>2
  <2>4. g[0] = base
    BY <2>1
  <2>5. ASSUME NEW i \in 1 .. m
        PROVE  g[i] = step[i][g[i - 1]]
    <3>1. CASE i = m
      <4>1. m - 1 \in 0 .. m /\ m - 1 # m /\ m \in 0 .. m
        OBVIOUS
      <4> QED
        BY <3>1, <4>1
    <3>2. CASE i # m
      <4>1. i \in 1 .. m - 1 /\ g[i] = f[i] /\ g[i - 1] = f[i - 1]
        BY <3>2
      <4> QED
        BY <4>1, <2>1
    <3> QED
      BY <3>1, <3>2
  <2>6. Run(g, m)
    BY <2>4, <2>5
  <2>7. m \in 0 .. n
    OBVIOUS
  <2> HIDE DEF g, Run
  <2> QED
    BY <2>3, <2>6, <2>7
<1>3. n \in T
  <2> HIDE DEF T
  <2>1. 0 .. n \subseteq T
    BY <1>1, <1>2, UpTo
  <2> QED
    BY <2>1
<1> QED
  BY <1>3 DEF Iterates

\* ... also when each step has several outcomes.
LEMMA LoopOfSets ==
    ASSUME NEW n \in Nat, NEW Y, NEW S \in SUBSET Y, NEW next \in [1 .. n -> [Y -> SUBSET Y]]
    PROVE  \E f \in [0 .. n -> SUBSET Y] : Branches(f, n, S, next)
<1> DEFINE step == [i \in 1 .. n |-> [T \in SUBSET Y |-> UNION {next[i][u] : u \in T}]]
<1>1. step \in [1 .. n -> [SUBSET Y -> SUBSET Y]]
  OBVIOUS
<1>2. \A i \in 1 .. n : \A T \in SUBSET Y : step[i][T] = UNION {next[i][u] : u \in T}
  OBVIOUS
<1> HIDE DEF step
<1>3. PICK f \in [0 .. n -> SUBSET Y] : Iterates(f, n, S, step)
  <2> DEFINE Z == SUBSET Y
  <2>1. n \in Nat /\ S \in Z /\ step \in [1 .. n -> [Z -> Z]]
    BY <1>1
  <2> HIDE DEF Z
  <2>2. \E f \in [0 .. n -> Z] : Iterates(f, n, S, step)
    BY <2>1, LoopExists
  <2> QED
    BY <2>2 DEF Z
<1>4. ASSUME NEW i \in 1 .. n
      PROVE  f[i] = UNION {next[i][u] : u \in f[i - 1]}
  <2>1. i - 1 \in 0 .. n
    OBVIOUS
  <2>2. f[i - 1] \in SUBSET Y
    BY <2>1
  <2> QED
    BY <1>2, <1>3, <2>2 DEF Iterates
<1>5. \A i \in 0 .. n : i # 0 => i \in 1 .. n
  OBVIOUS
<1>6. f = [i \in 0 .. n |-> IF i = 0 THEN S ELSE UNION {next[i][u] : u \in f[i - 1]}]
  BY <1>3, <1>4, <1>5 DEF Iterates
<1> QED
  BY <1>6 DEF Branches

\* What holds of all states before a loop, and after each of its steps if it
\* held before that step, holds after the loop.
LEMMA LoopKeeps ==
    ASSUME NEW n \in Nat, NEW g, NEW Xs,
           g[0] \subseteq Xs[0],
           \A i \in 1 .. n : g[i - 1] \subseteq Xs[i - 1] => g[i] \subseteq Xs[i]
    PROVE  g[n] \subseteq Xs[n]
<1> DEFINE T == {i \in 0 .. n : g[i] \subseteq Xs[i]}
<1>1. 0 \in T
  OBVIOUS
<1>2. \A i \in 1 .. n : i - 1 \in T => i \in T
  OBVIOUS
<1>3. 0 .. n \subseteq T
  <2> HIDE DEF T
  <2> QED
    BY <1>1, <1>2, UpTo
<1> QED
  BY <1>3
=============================================================================

------------------------------- MODULE Stacks -------------------------------
(***************************************************************************)
(* The list operations the compositor performs on its Vec<Window> and      *)
(* VecDeque<u32> values.  They are written with positions, not with        *)
(* recursion over the list, so that StacksLemmas can state what they do    *)
(* for sequences of every length.                                          *)
(***************************************************************************)
EXTENDS Naturals, Sequences

\* The elements of a list.
Elements(s) == {s[i] : i \in DOMAIN s}

\* No element occurs twice.
Distinct(s) == \A i, j \in DOMAIN s : s[i] = s[j] => i = j

\* Vec::retain(|x| x != e) on a list without duplicates.
Without(s, e) ==
    IF e \in Elements(s)
    THEN LET p == CHOOSE i \in DOMAIN s : s[i] = e
         IN  [i \in 1 .. (Len(s) - 1) |-> IF i < p THEN s[i] ELSE s[i + 1]]
    ELSE s

\* rotate_right(1) on the prefix that ends at e, or insert(0, e) when e is new.
Raise(s, e) == <<e>> \o Without(s, e)

\* iter().find(|x| x is in S): the first member of S on the list.
FirstIn(s, S, none) ==
    LET hits == {i \in DOMAIN s : s[i] \in S}
    IN  IF hits = {} THEN none
        ELSE s[CHOOSE i \in hits : \A j \in hits : i <= j]

\* iter().rev().find(...): the last member of S on the list.
LastIn(s, S, none) ==
    LET hits == {i \in DOMAIN s : s[i] \in S}
    IN  IF hits = {} THEN none
        ELSE s[CHOOSE i \in hits : \A j \in hits : j <= i]

\* first(): the head of the list, if there is one.
Top(s, none) == IF s = <<>> THEN none ELSE Head(s)

\* Vec::remove(i): the list with position i taken out.
Dropped(s, i) ==
    [j \in 1 .. (Len(s) - 1) |-> IF j < i THEN s[j] ELSE s[j + 1]]
=============================================================================

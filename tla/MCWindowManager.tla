-------------------------- MODULE MCWindowManager --------------------------
(***************************************************************************)
(* Small instances of WindowManager for TLC.  Each .cfg picks the bindings *)
(* and the events of one concern; the rules and the process ancestry are   *)
(* chosen among the definitions below.                                     *)
(***************************************************************************)
EXTENDS WindowManager, TLC

CONSTANTS w1, w2, w3

Rule(tags, floating, scratch, monitor, switchToTag) ==
    [tags |-> tags, floating |-> floating, scratch |-> scratch,
     monitor |-> monitor, switchToTag |-> switchToTag]

Plain == Rule({}, FALSE, FALSE, 0, FALSE)

PlainRules == {Plain}
TagRules == {Plain, Rule({2}, FALSE, FALSE, 0, TRUE), Rule({TagCount + 1}, FALSE, FALSE, 0, TRUE)}
FloatRules == {Plain, Rule({}, TRUE, FALSE, 0, FALSE)}
SecondMonitorRules == {Plain, Rule({}, FALSE, FALSE, 2, FALSE)}
ScratchRules == {Plain, Rule({}, TRUE, TRUE, 0, FALSE)}

\* No window was started from a terminal.
NoLineage == [w \in Window |-> <<>>]
\* w3 was started from the terminal w1; the rest are terminals or unrelated.
OneChild == [w \in Window |-> IF w = w3 THEN <<w1>> ELSE <<>>]
OneTagMasks == {{t} : t \in Tags}
\* A binding may name a tag past tag_count.
WideMasks == {{1, TagCount + 1}} \cup {{t} : t \in 2 .. TagCount}
SecondTag == {{2}}
\* Toggling both tags moves a window from one to the other.
BothTags == {{1, 2}}

WindowSymmetry == Permutations(Window)
OutputSymmetry == Permutations(Output)
FreeSymmetry == WindowSymmetry \cup OutputSymmetry
=============================================================================

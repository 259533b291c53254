------------------------------ MODULE Monitors ------------------------------
(***************************************************************************)
(* One monitor's view of the tags: the two tag slots of struct Monitor     *)
(* (src/monitor.rs), of which one is selected, and the per-monitor history *)
(* of tag masks.  A u32 bitmask is the set of the tags whose bit is set,   *)
(* bit t-1 standing for tag t; masks that reach the program from a binding *)
(* or a command may name tags beyond tag_count.                            *)
(***************************************************************************)
EXTENDS Integers, Stacks

CONSTANTS
    TagCount,      \* Config::tag_count
    HistoryCap     \* the literal 16 of update_tag_history

ASSUME TagCountAssumption == TagCount \in Nat \ {0}
ASSUME HistoryCapAssumption == HistoryCap \in Nat \ {0}

\* config::tag_mask(): every configured tag.
Tags == 1 .. TagCount
TagSets == SUBSET Tags

\* Monitor::new: both slots show tag 1.
NewMonitor(output) ==
    [output |-> output, tagset |-> [s \in {0, 1} |-> {1}], selTags |-> 0]

MonitorRecords(outputs) ==
    [output : outputs, tagset : [{0, 1} -> TagSets], selTags : {0, 1}]

TagsOf(m) == m.tagset[m.selTags]
PreviousTagsOf(m) == m.tagset[1 - m.selTags]

\* Symmetric difference, the `^` of two masks.
Xor(a, b) == (a \ b) \cup (b \ a)

\* The other slot becomes the selected one and shows `tags`.
Flipped(m, shown) ==
    [m EXCEPT !.selTags = 1 - m.selTags,
              !.tagset = [m.tagset EXCEPT ![1 - m.selTags] = shown]]

\* Monitor::view
ViewOf(m, mask) ==
    LET shown == mask \cap Tags
    IN  IF shown = {} \/ shown = TagsOf(m) THEN m ELSE Flipped(m, shown)

\* Monitor::toggle_view
ToggleViewOf(m, mask) ==
    LET shown == Xor(TagsOf(m), mask) \cap Tags
    IN  IF shown = {} THEN m ELSE Flipped(m, shown)

\* Monitor::view_prev
ViewPrevOf(m) == [m EXCEPT !.selTags = 1 - m.selTags]

\* The direct slot assignment of auto_back_empty_tag::on_window_closed.
Reassigned(m, shown) ==
    [m EXCEPT !.tagset = [m.tagset EXCEPT ![m.selTags] = shown]]

\* Monitor::next_occupied_tag: the first occupied tag met when walking from the
\* highest shown tag in direction dir, around all the tags; {} when there is none.
NextOccupiedTag(m, occupied, dir) ==
    LET pos == CHOOSE t \in TagsOf(m) : \A u \in TagsOf(m) : u <= t
        at(step) == ((pos - 1 + dir * step) % TagCount) + 1
        steps == {n \in Tags : at(n) \in occupied}
    IN  IF TagsOf(m) = {} \/ steps = {} THEN {}
        ELSE {at(CHOOSE n \in steps : \A k \in steps : n <= k)}

\* MUTANT of Recorded: an earlier entry for the same mask stays in the deque.
RecordedTwice(history, left, target) ==
    IF left = target THEN history
    ELSE LET grown == Append(history, left)
         IN  IF Len(grown) > HistoryCap THEN Tail(grown) ELSE grown

\* update_tag_history on one monitor's deque: the mask being left goes to the
\* back, once, and the oldest entry falls off a full deque.
Recorded(history, left, target) ==
    IF left = target THEN history
    ELSE LET grown == Append(Without(history, left), left)
         IN  IF Len(grown) > HistoryCap THEN Tail(grown) ELSE grown
=============================================================================

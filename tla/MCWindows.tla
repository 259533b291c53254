----------------------------- MODULE MCWindows -----------------------------
(***************************************************************************)
(* The concerns of WindowManager, several to a run.  Which one an initial  *)
(* state is about is kept in `concern`; each has its own windows, outputs, *)
(* bindings, events and rules, and takes the steps of its own instance.    *)
(* "tags" is the instance that the cfg itself describes.                   *)
(***************************************************************************)
EXTENDS MCWindowManager

CONSTANTS
    o1, o2, o3,
    Concerns    \* the concerns of the run

VARIABLE concern

\* Scratchpads, dialogs and floating windows, centred by their first buffer.
Scratch == INSTANCE WindowManager WITH
    Window <- {w1, w2}, Output <- {o1}, Follow <- TRUE, MouseFocus <- FALSE,
    Rules <- ScratchRules, FixedSize <- {w2}, ScratchApps <- {w1}, Masks <- SecondTag,
    Bindings <- {"ToggleView", "ViewPrev", "ToggleFloating", "ToggleScratch",
                 "FocusOrToggleScratch", "FocusOrToggleMatchingScratch"},
    Events <- {"dialog", "ipc"}

\* Three outputs that come and go.
Hotplug == INSTANCE WindowManager WITH
    Window <- {w1, w2}, Output <- {o1, o2, o3}, Follow <- FALSE, MouseFocus <- FALSE,
    Rules <- SecondMonitorRules, FixedSize <- {}, ScratchApps <- {}, Masks <- SecondTag,
    Bindings <- {"View", "FocusMon", "TagMon"}, Events <- {"hotplug", "headless"}

\* Focus between two outputs: pointer, clicks, activation, fullscreen windows.
Pointer == INSTANCE WindowManager WITH
    Window <- {w1, w2}, Output <- {o1, o2}, Follow <- TRUE, MouseFocus <- TRUE,
    Rules <- SecondMonitorRules, FixedSize <- {}, ScratchApps <- {}, Masks <- BothTags,
    Bindings <- {"FocusMon", "TagMon", "ToggleTag", "FocusStack", "Zoom", "ToggleFullscreen"},
    Events <- {"pointer", "click", "activate", "fullscreen"}

\* Windows that get a parent late, and are ruled again.
Parents == INSTANCE WindowManager WITH
    Window <- {w1, w2}, Output <- {o1, o2}, Follow <- TRUE, MouseFocus <- TRUE,
    Rules <- SecondMonitorRules, FixedSize <- {}, ScratchApps <- {}, Masks <- BothTags,
    Bindings <- {"FocusMon", "TagMon", "FocusStack", "Zoom"},
    Events <- {"pointer", "activate", "parent", "fullscreen"}

\* A terminal with two children.
TerminalWindows == {w1, w2, w3}
Terminals == INSTANCE WindowManager WITH
    Window <- TerminalWindows, Output <- {o1}, HistoryCap <- 2, Follow <- TRUE,
    MouseFocus <- FALSE, Rules <- PlainRules,
    Lineage <- [w \in TerminalWindows |-> IF w = w1 THEN <<>> ELSE <<w1>>],
    FixedSize <- {}, ScratchApps <- {}, Masks <- SecondTag,
    Bindings <- {"ViewPrev", "Tag"}, Events <- {}

ConcernInit ==
    /\ concern \in Concerns
    /\ \/ concern = "tags" /\ Init
       \/ concern = "scratch" /\ Scratch!Init
       \/ concern = "hotplug" /\ Hotplug!Init
       \/ concern = "pointer" /\ Pointer!Init
       \/ concern = "parents" /\ Parents!Init
       \/ concern = "swallow" /\ Terminals!Init

ConcernNext ==
    /\ \/ concern = "tags" /\ Next
       \/ concern = "scratch" /\ Scratch!Next
       \/ concern = "hotplug" /\ Hotplug!Next
       \/ concern = "pointer" /\ Pointer!Next
       \/ concern = "parents" /\ Parents!Next
       \/ concern = "swallow" /\ Terminals!Next
    /\ UNCHANGED concern

ConcernSpec == ConcernInit /\ [][ConcernNext]_<<vars, concern>>
=============================================================================

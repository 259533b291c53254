----------------------------- MODULE MCClients -----------------------------
(***************************************************************************)
(* The life of a client's window between its first request and the frame  *)
(* it is drawn in, in one run: the configures it is sent (Configures, in   *)
(* four instances that differ in what clients and bindings do), the        *)
(* commits of its surface tree (SurfaceCommits, for a chain and for a fork *)
(* of subsurfaces), and its slides between tags (Slides, on one monitor    *)
(* and on two).  `part` is the instance a behaviour is about; the          *)
(* variables of the others stay as they are initially.                     *)
(***************************************************************************)
EXTENDS Configures

CONSTANTS w1, w2, r, c, d

VARIABLES
    part,
    alive, parent, sync, pending, cache, current, txid, tx, queue, fences, attached,
    committed,
    sliding, space, monitors, selMon, was_active, wakeup

surfaceVars == <<alive, parent, sync, pending, cache, current, txid, tx, queue, fences,
                 attached, committed>>
slideVars == <<sliding, space, monitors, selMon, was_active, wakeup>>
allVars == <<vars, part, surfaceVars, slideVars>>

Floats == INSTANCE Configures WITH Events <- {"tags", "floating", "resize"}, FixedSize <- {w2}
Fullscreens == INSTANCE Configures WITH Events <- {"fullscreen", "tags"}, FixedSize <- {}
Unmaps == INSTANCE Configures WITH Events <- {"tags", "unmap"}, FixedSize <- {w1}

Chain == INSTANCE SurfaceCommits WITH
    Surface <- {r, c, d}, Family <- {<<c, r>>, <<d, c>>}, MaxVersion <- 1, MaxCommits <- 3,
    Fenced <- {r, d}, Whole <- TRUE, Mortal <- {}
Fork == INSTANCE SurfaceCommits WITH
    Surface <- {r, c, d}, Family <- {<<c, r>>, <<d, r>>}, MaxVersion <- 1, MaxCommits <- 3,
    Fenced <- {r, d}, Whole <- TRUE, Mortal <- {}
Pair == INSTANCE SurfaceCommits WITH
    Surface <- {r, c, d}, Family <- {<<c, r>>}, MaxVersion <- 1, MaxCommits <- 3,
    Fenced <- {r, c}, Whole <- TRUE, Mortal <- {r, c}

OneScreen == INSTANCE Slides WITH
    win <- sliding, Terminal <- {w1}, TagCount <- 2, HistoryCap <- 1, Screens <- 1,
    Masks <- {{1}, {2}}, Wakeup <- 2, Events <- {"toggle", "tag", "swallow", "autoback"}
TwoScreens == INSTANCE Slides WITH
    win <- sliding, Terminal <- {}, TagCount <- 2, HistoryCap <- 1, Screens <- 2,
    Masks <- {{1}, {2}}, Wakeup <- 1, Events <- {"ipc"}

ASSUME SlidesAssumption == OneScreen!ConstantsSound /\ TwoScreens!ConstantsSound

\* The parts and their steps.
SurfaceStep ==
    \/ part = "chain" /\ Chain!Next
    \/ part = "fork" /\ Fork!Next
    \/ part = "pair" /\ Pair!Next

SlideStep ==
    \/ part = "slides" /\ OneScreen!Next
    \/ part = "screens" /\ TwoScreens!Next

ConfigureStep ==
    \/ part = "decorations" /\ Next
    \/ part = "floats" /\ Floats!Next
    \/ part = "fullscreens" /\ Fullscreens!Next
    \/ part = "unmaps" /\ Unmaps!Next

ConfigureParts == {"decorations", "floats", "fullscreens", "unmaps"}

ClientsInit ==
    /\ part \in ConfigureParts \cup {"chain", "fork", "pair", "slides", "screens"}
    /\ Init /\ (part \in ConfigureParts \/ view = CHOOSE t \in Tag : TRUE)
    /\ Chain!Init
    /\ IF part = "screens" THEN TwoScreens!Init ELSE OneScreen!Init

ClientsNext ==
    /\ \/ ConfigureStep /\ UNCHANGED <<surfaceVars, slideVars>>
       \/ SurfaceStep /\ UNCHANGED <<vars, slideVars>>
       \/ SlideStep /\ UNCHANGED <<vars, surfaceVars>>
    /\ UNCHANGED part

\* The fences' fairness asks nothing of the other parts, which have none.
ClientsSpec ==
    /\ ClientsInit /\ [][ClientsNext]_allVars
    /\ Chain!Fairness

-----------------------------------------------------------------------------
\* The properties of the parts, in the words of their modules.
FencesHonoured == Chain!FencesHonoured
SubtreesTogether == Chain!SubtreesTogether
QueueDrains == Chain!QueueDrains
OutOfPlaceIsSliding == OneScreen!OutOfPlaceIsSliding
VisibleStaysMapped == OneScreen!VisibleStaysMapped
=============================================================================

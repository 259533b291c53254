----------------------------- MODULE MCScreens -----------------------------
(***************************************************************************)
(* The udev backend from two sides, in one run: when an output is drawn    *)
(* (Frames, two outputs, once with every disturbance, once with a longer   *)
(* countdown and none) and what is then on it (ScanOut, one output with    *)
(* two elements over two regions: many changes of the scene with renders   *)
(* that fail, and few of them with sessions that are resumed as well).     *)
(* `part` is the instance a behaviour is about; Frames stays as it is      *)
(* initially while ScanOut runs, and the variables of ScanOut are None     *)
(* while Frames does.                                                      *)
(***************************************************************************)
EXTENDS MCFrames

CONSTANTS p1, p2, e1, e2

VARIABLES part, scene, changes, swapchain, compositor, damage, flip_pending, is_empty

scanOutVars == <<scene, changes, swapchain, compositor, damage, flip_pending, is_empty>>
allVars == <<vars, part, scanOutVars>>

\* e1 fills the output and is opaque; e2 is translucent and moves over it.
ElementPlaces == e1 :> {{p1, p2}} @@ e2 :> {{p1}, {p2}}

Changing == INSTANCE ScanOut WITH
  Pixel <- {p1, p2}, Element <- {e1, e2}, Opaque <- {e1}, Places <- ElementPlaces,
  MaxChanges <- 3, Events <- {"render", "vrr"}
Resuming == INSTANCE ScanOut WITH
  Pixel <- {p1, p2}, Element <- {e1, e2}, Opaque <- {e1}, Places <- ElementPlaces,
  MaxChanges <- 1, Events <- {"resume", "render", "vrr"}

ASSUME ScanOutAssumption == Changing!ConstantsSound /\ Resuming!ConstantsSound

NoScanOut ==
  /\ scene = None /\ changes = None /\ swapchain = None /\ compositor = None /\ damage = None
  /\ flip_pending = None /\ is_empty = None

\* After the frame of the last slide come frames that show nothing new: only
\* the countdown itself brings the next one.
Countdown == INSTANCE Frames WITH
  Wakeup <- 4, Resizes <- {"none"}, Removable <- {}, Flaky <- {}, Discarding <- {}

OnFrames == part \in {"frames", "countdown"}

ScreensInit ==
  /\ part \in {"frames", "countdown", "changing", "resuming"}
  /\ Init /\ (part # "frames" => plugged = Connector)
  /\ IF OnFrames THEN NoScanOut ELSE Changing!Init

ScreensNext ==
  /\ \/ part = "frames" /\ Next /\ UNCHANGED scanOutVars
     \/ part = "countdown" /\ Countdown!Next /\ UNCHANGED scanOutVars
     \/ part = "changing" /\ Changing!Next /\ UNCHANGED vars
     \/ part = "resuming" /\ Resuming!Next /\ UNCHANGED vars
  /\ UNCHANGED part

ScreensSpec == ScreensInit /\ [][ScreensNext]_allVars

-----------------------------------------------------------------------------
\* The properties of ScanOut, in its words.
FramesShowTheirScene == ~OnFrames => Changing!FramesShowTheirScene
NothingLeftBehind == ~OnFrames => Changing!NothingLeftBehind
=============================================================================

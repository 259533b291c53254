----------------------------- MODULE MCProgress -----------------------------
(***************************************************************************)
(* What must end, in one run: a password check and the flash of a refused  *)
(* one (ScreenLock, with two external clients), the wait of an output for  *)
(* its windows (Frames, one output) and the slides between tags (Slides,   *)
(* on one monitor).  `part` is the instance a behaviour is about; the      *)
(* variables of the others stay as they are initially, where no action     *)
(* with a fairness condition is enabled.                                   *)
(***************************************************************************)
EXTENDS MCScreenLock, TLC

CONSTANTS gpu, crtc1, edp, w1, w2

VARIABLES part, backend, present, plugged, win, space, monitors, selMon, was_active, wakeup

frameVars == <<backend, present, plugged>>
slideVars == <<win, space, monitors, selMon, was_active, wakeup>>
allVars == <<vars, part, frameVars, slideVars>>

\* One output that fails, loses its flips and is captured, and whose
\* monitor comes and goes.
FrameLoop == INSTANCE Frames WITH
    Device <- {gpu}, Crtc <- {crtc1}, Connector <- {edp},
    Owner <- crtc1 :> gpu @@ edp :> gpu, Compatible <- edp :> <<crtc1>>, Listed <- gpu :> <<edp>>,
    Wakeup <- 2, MaxDeferred <- 1, Removable <- {edp}, Flaky <- {crtc1}, Discarding <- {crtc1},
    Captured <- {crtc1}, Tiled <- {crtc1}, Resizes <- {"none", "existing", "new"}

Sliding == INSTANCE Slides WITH
    Window <- {w1, w2}, Terminal <- {w1}, TagCount <- 2, HistoryCap <- 1, Screens <- 1,
    Masks <- {{1}, {2}}, Wakeup <- 1, Events <- {"swallow"}

ProgressInit ==
    /\ part \in {"lockers", "frames", "slides"}
    /\ Init
    /\ FrameLoop!Init /\ (part # "frames" => plugged = {edp})
    /\ Sliding!Init

ProgressNext ==
    /\ \/ part = "lockers" /\ Next /\ UNCHANGED <<frameVars, slideVars>>
       \/ part = "frames" /\ FrameLoop!Next /\ UNCHANGED <<vars, slideVars>>
       \/ part = "slides" /\ Sliding!Next /\ UNCHANGED <<vars, frameVars>>
    /\ UNCHANGED part

ProgressSpec ==
    /\ ProgressInit /\ [][ProgressNext]_allVars
    /\ Fairness /\ FrameLoop!Fairness /\ FrameLoop!ClientsAnswer /\ Sliding!Fairness

-----------------------------------------------------------------------------
\* The properties of Frames and Slides, in their words.
Shown == FrameLoop!Shown
ResizesEnd == FrameLoop!ResizesEnd
HiddenLeavesTheSpace == Sliding!HiddenLeavesTheSpace
=============================================================================

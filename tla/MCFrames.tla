------------------------------ MODULE MCFrames ------------------------------
(* Instances of Frames: one GPU with two CRTCs and two connectors.         *)
EXTENDS Frames

CONSTANTS gpu, crtc1, crtc2, edp, dp

OneDevice == {gpu}
OneCrtc == {crtc1}
TwoCrtcs == {crtc1, crtc2}
OneConnector == {edp}
NoConnector == {}
NoCrtc == {}
FirstCrtc == {crtc1}
ExternalMonitor == {dp}
TwoConnectors == {edp, dp}

OwnedByGpu == [x \in Crtc \union Connector |-> gpu]

\* Every encoder reaches every CRTC, as on most hardware.
AnyCrtc == [k \in Connector |-> SetToSeq(Crtc)]

\* The connector of a monitor that comes and goes is listed first.
ExternalFirst == [d \in Device |-> SetToSeq(Connector \intersect {dp}) \o SetToSeq(Connector \ {dp})]
=============================================================================

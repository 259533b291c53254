SPECIFICATION ScreensSpec
CONSTANTS
  gpu = gpu
  crtc1 = crtc1
  crtc2 = crtc2
  edp = edp
  dp = dp
  None = None
  p1 = p1
  p2 = p2
  e1 = e1
  e2 = e2
  Device <- OneDevice
  Crtc <- TwoCrtcs
  Connector <- TwoConnectors
  Owner <- OwnedByGpu
  Compatible <- AnyCrtc
  Listed <- ExternalFirst
  Wakeup = 2
  MaxDeferred = 1
  Removable <- ExternalMonitor
  Flaky <- FirstCrtc
  Discarding <- FirstCrtc
  Captured <- NoCrtc
  Tiled <- FirstCrtc
  Resizes = {"none", "existing"}
INVARIANTS WakeupKept LoopKept FramesShowTheirScene NothingLeftBehind
PROPERTY OutputsKept

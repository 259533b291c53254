SPECIFICATION FairSpec
CONSTANTS
  gpu = gpu
  crtc1 = crtc1
  crtc2 = crtc2
  edp = edp
  dp = dp
  None = None
  Device <- OneDevice
  Crtc <- OneCrtc
  Connector <- OneConnector
  Owner <- OwnedByGpu
  Compatible <- AnyCrtc
  Listed <- ExternalFirst
  Wakeup = 1
  MaxDeferred = 1
  Removable <- NoConnector
  Flaky <- NoCrtc
  Discarding <- NoCrtc
  Captured <- NoCrtc
  Tiled <- OneCrtc
  Resizes = {"existing"}
PROPERTY GateExpires

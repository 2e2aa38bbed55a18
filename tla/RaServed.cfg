\* Two applications on the endorsed device, nothing fails.
SPECIFICATION FairSpec
CONSTANTS
  c1 = c1
  c2 = c2
  imx = imx
  other = other
  None = None
  Endorsed = imx
  Clients = {c1, c2}
  Devices = {imx, other}
  DeviceOf <- SameDevice
  SecretSize = 256
  DataSizes = {256, 257}
  Pins = {0}
  Faults = {}
  MaxKeys = 4
  MaxRuns = 2
  MaxSends = 2
  MaxQuotes = 2
INVARIANT OneSessionPerSecret
PROPERTY SecretDelivered
\* Every application ends and the verifier may be stopped for good.
CHECK_DEADLOCK FALSE

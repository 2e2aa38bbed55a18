\* Applications that make any WASI-RA call at any time, on two devices.
SPECIFICATION Spec
CONSTANTS
  c1 = c1
  c2 = c2
  imx = imx
  other = other
  None = None
  Endorsed = imx
  Clients = {c1, c2}
  Devices = {imx, other}
  DeviceOf <- TwoDevices
  SecretSize = 256
  DataSizes = {256}
  Pins = {0}
  Faults = {"any_order"}
  MaxKeys = 4
  MaxRuns = 2
  MaxSends = 1
  MaxQuotes = 2
INVARIANTS TypeOK ReleasedOnlyToAttested HandshakeAgreement
\* Every application may end and the verifier may be stopped for good.
CHECK_DEADLOCK FALSE

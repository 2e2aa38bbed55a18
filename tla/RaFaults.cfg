\* Applications that follow the samples; API calls fail, reads are short,
\* connections are reset, TAs panic and processes are killed; scheduling is fair.
SPECIFICATION FairSpec
CONSTANTS
  c1 = c1
  c2 = c2
  imx = imx
  other = other
  None = None
  Endorsed = imx
  Clients = {c1, c2}
  Devices = {imx, other}
  DeviceOf <- TwoDevices
  SecretSize = 256
  DataSizes = {255, 256, 257}
  Pins = {0, 2}
  Faults = {"api", "short_read", "reset", "crash"}
  MaxKeys = 4
  MaxRuns = 2
  MaxSends = 2
  MaxQuotes = 2
INVARIANTS DeliveredWasReleased
PROPERTIES ReleaseRefinement HandshakeReturns ReceiveReturns VerifierEnds
\* Every application may end and the verifier may be stopped for good.
CHECK_DEADLOCK FALSE

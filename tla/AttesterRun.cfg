CONSTANTS
  Modules = {m1, m2}
  Torn = Torn
  DataSections = {d1, d2}
  None = None
  Size = 3
  MaxWrite = 3
  MaxWrites = 3
  End = End
  Stale = Stale
SPECIFICATION SystemSpec
INVARIANTS AttestedIsExecuted NothingLeftBehind PrintsWhatWasCaptured

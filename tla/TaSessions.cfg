CONSTANTS
  Threads = {t1, t2, t3}
  Sessions = {s1, s2}
  Contexts = {c1, c2, c3}
  None = None
  Kinds <- FourKinds
SPECIFICATION Spec
INVARIANTS NoAssertionFails SessionsConsistent NothingLeftBehind OneSessionPerContext SomebodyRuns
SYMMETRY Interchangeable

\* One application in any order of calls, every call to the outside may fail.
SPECIFICATION Spec
CONSTANTS
  MaxConns = 3
  MaxBufs = 3
INVARIANTS PanicsOnlyAfterDispose ContextConnected NothingLeaks
PROPERTY SessionsAsViewed
\* An application whose TA panicked makes no more calls.
CHECK_DEADLOCK FALSE

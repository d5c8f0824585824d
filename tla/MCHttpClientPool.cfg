SPECIFICATION Spec
CONSTANTS
  Fds = {f1, f2}
  Keys = {k1}
  Callers = {a, b}
  NHeads = 1
  Styles = {"length", "connectionclose"}
  Usage = {"send", "swap"}
  NumStacks = 1
  MaxCtx = 2
  MaxReqs = 2
INVARIANTS
  OneChain ReportedOnce NoLostEdge EventsReachClient
SYMMETRY Symmetry
CHECK_DEADLOCK FALSE

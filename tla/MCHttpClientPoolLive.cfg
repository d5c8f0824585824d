SPECIFICATION Spec
CONSTANTS
  Fds = {f1}
  Keys = {k1, k2}
  Callers = {a, b}
  NHeads = 1
  Styles = {"length", "connectionclose", "untilclose", "malformed"}
  Usage = {"send", "swap"}
  NumStacks = 1
  MaxCtx = 2
  MaxReqs = 2
INVARIANTS
  TypeOK PoolExact
PROPERTIES
  RequestsReturn
CHECK_DEADLOCK FALSE

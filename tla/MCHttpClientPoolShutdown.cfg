SPECIFICATION Spec
CONSTANTS
  Fds = {f1, f2}
  Keys = {k1}
  Callers = {a}
  NHeads = 1
  Styles = {"length"}
  Usage = {"send"}
  NumStacks = 1
  MaxCtx = 2
  MaxReqs = 2
INVARIANTS
  NotAlreadyShutdown
CHECK_DEADLOCK FALSE

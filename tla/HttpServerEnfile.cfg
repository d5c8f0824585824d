SPECIFICATION Spec
CONSTANTS
  Fds = {f1, f2}
  Kinds = {"get"}
  Replies = {"respond"}
  MaxFiles = 2
  NumStacks = 1
  MaxCtx = 2
  TxCap = 1
  MaxConns = 3
  MaxReqs = 1
  MaxEnfile = 1
INVARIANTS
  AbleToRefuse
CHECK_DEADLOCK FALSE

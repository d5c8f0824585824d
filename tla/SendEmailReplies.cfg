CONSTANTS
    Recipients = 2
    CmdLen = 2
    DataLen = 2
    DotLen = 2
    MaxPieces = 1
SPECIFICATION Spec
INVARIANT RepliesWhole

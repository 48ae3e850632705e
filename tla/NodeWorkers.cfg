SPECIFICATION Spec
CONSTANTS
    Envs = {e1, e2}
    NoTarget = NoTarget
    MaxStack = 4
INVARIANT ReturnsToOwnRoot
CHECK_DEADLOCK FALSE

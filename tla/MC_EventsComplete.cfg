CONSTANTS
    Names = {e1}
    Callbacks = {c1, c2, k1}
    Core = {k1}
    MaxHandlers = 2
    MaxDepth = 0
SPECIFICATION Spec
INVARIANT Complete

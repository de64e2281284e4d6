CONSTANTS
    Names = {e1, e2}
    Callbacks = {c1, c2, k1}
    Core = {k1}
    MaxHandlers = 4
    MaxDepth = 2
SPECIFICATION Spec
INVARIANTS DispatchOrder CompleteInOrder
PROPERTY Delivered
SYMMETRY Symmetry

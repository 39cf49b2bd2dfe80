SPECIFICATION LiveSpec
CONSTANTS
    Request = {r1, r2, r3}
    Limit = 2
    Window = 3
    None = None
INVARIANTS SlidingBound
PROPERTIES CounterResets

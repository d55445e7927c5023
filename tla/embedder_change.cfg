SPECIFICATION Spec
CONSTANTS
    Memory = {x, y}
    Chunk = {k}
    Model = {a, b, c}
    OtherDim = {c}
    NoModel = NoModel
INVARIANTS OneVectorSpace ConfigHasRows MigratedIsSearchable Opens

SPECIFICATION Spec
CONSTANTS
    Doc = {d1, d2}
    Content = {x, y}
    Principal = {p, q}
    ChunkNo = {1, 2}
    BadChunkNo = {2}
    NoContent = NoContent
    NoOne = NoOne
    NoDoc = NoDoc
    Missing = Missing
SYMMETRY Interchangeable
INVARIANTS ChunkCoverage ForgottenChunksHidden OneDocumentPerContent SearchableOnceServed
PROPERTIES ErasureScope NothingReturns

SPECIFICATION AssetSpec
CONSTANTS
    NoRow = NoRow
    NoBlob = NoBlob
    MaxNonce = 4
    MaxFailures = 3
INVARIANTS KeptIsReadable ForgottenBytesGone ErasedWhenUncut

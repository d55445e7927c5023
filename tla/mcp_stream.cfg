SPECIFICATION Spec
CONSTANTS
    Bridge = bridge
    Reporter = {call}
    Cap = 2
    LastId = 4
INVARIANTS NoSilentGap CaughtUp BridgeServesStream
PROPERTY InOrder
CHECK_DEADLOCK FALSE

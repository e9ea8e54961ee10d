CONSTANTS
    Half <- MCHalf
    Characters <- MCCharacters
    Needs <- MCNeeds
    Calls <- MCCalls
    NUL = NUL
SPECIFICATION PrintfSpec
INVARIANTS
    PrintsFormat
    StaysInBounds
CHECK_DEADLOCK FALSE

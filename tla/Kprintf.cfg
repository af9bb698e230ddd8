CONSTANTS
    Size = 8
    Calls <- MCCalls
    Letters <- MCLetters
    Keys = {"k"}
SPECIFICATION KprintfSpec
INVARIANTS
    FormatsString
    StaysInBuffer
PROPERTY CallReturns

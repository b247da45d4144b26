\* Two frames of real length, cut at every byte.
SPECIFICATION Spec
\* parse returns.
CHECK_DEADLOCK FALSE
CONSTANTS
  MaxFrames = 2
  SymbolLengths = {4, 8}
  LengthErrors <- MCLengthErrors
  CallbackSets <- MCCallbackSets
INVARIANTS
  ParserTypeOK
  CallsMatchFrames
  CountsMessages
PROPERTY ParseReturns

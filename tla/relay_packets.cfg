CONSTANTS
  Requests <- MCRequests
  Responses <- MCResponses
  RelayFaults = {"cut", "connect", "silence"}
SPECIFICATION RelaySpec
INVARIANT WholeMessages
INVARIANT RecognisedAtOnce
CHECK_DEADLOCK FALSE

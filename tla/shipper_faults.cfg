CONSTANTS
  Flights = {f1, f2, f3}
  NoFlight = NoFlight
  BatchSize = 2
  Cap = 2
  MaxEntries = 4
  Faults = {"refuse", "doubt", "load", "kill"}
SPECIFICATION LiveSpec
CHECK_DEADLOCK FALSE
INVARIANT InLogOrder
PROPERTY ImplementsAuditLog
PROPERTY EntriesSettle

CONSTANTS
  Exchanges = {c1, c2}
  Services = {s1}
  NoService = NoService
  Unset = Unset
  NoEntry = NoEntry
  MaxChanges = 1
  Faults = {"client", "lookup", "upstream", "kill"}
SPECIFICATION LiveSpec
INVARIANT EntriesAreTrue
INVARIANT EntryNamesClient
 
PROPERTY TunnelEnds
PROPERTY ShutdownEnds
CHECK_DEADLOCK FALSE

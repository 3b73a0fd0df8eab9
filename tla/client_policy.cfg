CONSTANTS
  Width = 3
  OtherAddresses = {v6}
  Rules <- MCRules
  FirstTable <- MCFirstTable
  Polls = {l1, l2}
  FirstPoll = l1
  MaxChanges = 2
  Pods = {p1, p2}
  NoPod = NoPod
  PodAddresses = {2}
  NoAddress = NoAddress
  MaxEvents = 1
  MaxEdits = 0
  MaxBreaks = 0
  p1 = p1
  p2 = p2
  v6 = v6
SPECIFICATION PolicySpec
INVARIANT SettledVerdict
PROPERTY RulesNeverBack
PROPERTY TableEnforced
CHECK_DEADLOCK FALSE

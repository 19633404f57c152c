CONSTANTS
  NumInstances = 1
  Aliases = {a}
  MaxStarts = 1
  MaxChanges = 0
SPECIFICATION NamesSpec
INVARIANTS
  NamesMirrorUnit
CHECK_DEADLOCK FALSE

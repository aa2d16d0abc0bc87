CONSTANTS
  Op = {alpha}
  Version = {v1}
  NoCsv = NoCsv
  Owner = {alpha}
  Exempt = {}
  MaxChanges = 1

SPECIFICATION GovSpec

INVARIANT IdleOnlyIfUnused

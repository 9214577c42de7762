SPECIFICATION Spec
CONSTANTS
  WORDSIZE = 2
  CHARS = 4
  HASHES = 2
  SLStrings <- MCSLStrings
  HSStrings <- MCHSStrings
  Shortages = {0, 1, 2, 3}
  Plenty = 99
  MaxShortages = 2
INVARIANT DeadEndsPassed

\* One request at a time.
CONSTANTS
  Slot = {s1}
  MaxReloads = 1

SPECIFICATION QSpec

INVARIANT DoneMeansDone

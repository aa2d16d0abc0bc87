\* One fetch at a time.
CONSTANTS
  Fetch = {f1}
  MaxSnapshots = 2
  MaxInventory = 2
  Track = 4
  WithNodes = {1, 2}
  WithoutNodes = {}

SPECIFICATION Spec

PROPERTY ClearShowsCurrent

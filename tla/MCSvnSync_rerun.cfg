\* The docstring's promise for versioned files.
CONSTANTS
  Files = {f1, f2}
  Unversioned = {}
  MaxEdits = 1
  Offshore = Offshore
  Merged = Merged
  Torn = Torn
  None = None
  Other = Other
SPECIFICATION Spec
INVARIANTS
  ChangesAreCommitted

\* Two versioned files and one that is new onsite.
CONSTANTS
  Files = {f1, f2, f3}
  Unversioned = {f3}
  MaxEdits = 1
  Offshore = Offshore
  Merged = Merged
  Torn = Torn
  None = None
  Other = Other
SPECIFICATION Spec
INVARIANTS
  WalkMirrorsOnsite
  PublishedUnlessCutOff

\* Two series, two sizes, one animated resize at a time.
CONSTANTS
  Series = {s1, s2}
  Data <- MCData
  Windows <- MCWindows
  Sizes = {small, large}
  Changing = {s1, s2}
  MaxResizing = 1
  MaxOwed = 1
  None = None
SPECIFICATION Spec
SYMMETRY Perms
INVARIANTS
  RedrawnIsCurrent
  MarksSuffice
  PointsAreLive
  SizeFollows

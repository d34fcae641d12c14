\* One series with stickyTracking, the library's default, and one without.
CONSTANTS
  Series = {s1, s2}
  Columns = {1, 2}
  Sticky = {s1}
  Changing = {s1}
  Glide = 1
  None = None
SPECIFICATION Spec
INVARIANTS
  HoverIsShown
  TooltipOwned
  RestsWhereAsked
  HighlightsMatch
  QuietAfterDestroy
PROPERTIES
  EnterShows
  LeavingHides
\* A destroyed chart does nothing more.
CHECK_DEADLOCK FALSE

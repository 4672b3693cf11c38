\* Three threads with any parents, a page of two, archiving and restarts.
SPECIFICATION NSpec
CONSTANTS
  None = None
  Threads = {a, b, c}
  PageSize = 2
SYMMETRY Symmetry
INVARIANTS HiddenIsUnwatched HiddenIsRight

\* Two changes, two openings of the dialog, which may be left while it saves, and
\* one restart, at any point.
SPECIFICATION FairSpec
CONSTANTS
  p1 = p1
  p2 = p2
  Pool <- MCPool
  DefaultPool = p1
  Missing = Missing
  Mixed = Mixed
  Edits = 2
  Dialogs = 2
  Restarts = 1
INVARIANTS SavesFinishBeforeExit TailSaveExact ChoicesSaved
PROPERTIES RestartKeepsSaved ShutdownCompletes
CHECK_DEADLOCK FALSE

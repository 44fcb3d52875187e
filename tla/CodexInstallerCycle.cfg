SPECIFICATION Spec
CONSTANTS
  v1 = v1
  v2 = v2
  v3 = v3
  None = None
  Torn = Torn
  Versions = {v1, v2, v3}
  MaxEdits = 2
  MaxTears = 1
INVARIANT IInv
INVARIANT Resumable
INVARIANT JournalKept
INVARIANT ControlsGuardPlugin
INVARIANT CompleteIsCurrent
PROPERTY UninstallLeavesNothing
PROPERTY EditsKept
SYMMETRY VersionSymmetry
CHECK_DEADLOCK FALSE

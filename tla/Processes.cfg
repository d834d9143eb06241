SPECIFICATION ProcessSpec
CONSTANTS
  Pids = {p1, p2, p3}
  Loops = {old, new}
  MaxEntries = 2
  NoPid = NoPid
INVARIANTS
  ProcessTypeOK
  StartedOnce
  StopHitsOurs
PROPERTY
  ExitIsNoticed

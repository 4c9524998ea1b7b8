\* Two processes run the generator over outputs in a directory of their own or
\* beside the interfaces, while sources are edited, writes fail and a process crashes.
SPECIFICATION FairSpec
CONSTANTS
  r1 = r1
  r2 = r2
  Runs = {r1, r2}
  KeyOrder <- MCKeyOrder
  DirOf <- MCDirOf
  OutputOf <- MCOutputOf
  Layouts <- MCLayouts
  MaxEdits = 1
  MaxFaults = 1
  MaxRuns = 2
INVARIANTS
  TypeOK
  FailsForAReason
  ErrorsKeepFiles
  OverlappingRunsAgree
PROPERTIES
  SuccessIsComplete
  RunsEnd
CHECK_DEADLOCK FALSE

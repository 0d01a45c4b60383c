CONSTANTS
  MaxWord = 127
  MaxAddress = 100
  Page = 2
  EntryBytes = 1
  Alignment = 4
  Memories <- MCMemories
  Tables <- MCTables
  Updates <- MCUpdates
  Images <- MCImages
  Misplaced = {0, 3, 12}
  LeaseSize = 2
  VmmBytes = 4
  MaxOthers = 2
  Modes = {0, 1, 2, 3}
  MayIgnore = {"mec", "ingress", "active", "dequeue", "rptr", "wptr", "eop"}
  MaxCalls = 2
  MaxMishaps = 1
  CpSurgery = TRUE
CHECK_DEADLOCK FALSE
SPECIFICATION QueueMemorySpec
INVARIANTS
  LayoutTypeOK TailKept RangesApart UpdatesWhole
  TypeOK ReadyMeansQuiet OutcomesSound BorrowedGivenBack

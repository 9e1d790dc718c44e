SPECIFICATION MCSpec
CONSTANTS
  Byte = 256
  NThreads = 3
  NSlots = 2
  MaxColSteps = 5
  MaxChain = 3
  Programs <- MCPrograms
  Registry <- MCRegistry
  Files <- MCFiles
  MaxExecutions = 2
  Layouts <- MCLayouts
  MinMailboxBytes = 6
  Lengths = {2, 7}
  Offsets = {0, 2, 3, 8}
  MaxFrameWrites = 3
  SlotCounts = {1, 2, 3}
  Messages = {1, 2}
  MaxSent = 7
INVARIANTS VMTypeOK  DirtyCoversWrites 
PROPERTIES HaltedThreadsFrozen NoSilentTruncation ExecutionEnds MailboxIsFifo
CHECK_DEADLOCK FALSE

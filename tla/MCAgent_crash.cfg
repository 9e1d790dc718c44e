CONSTANTS
  Interval = 2
  MaxCalls = 5
  MaxOthers = 0
  MaxFaults = 1
  Actions <- MCActions
  Policies <- MCPolicies
  Registered = {"mail", "clock"}
  Covers <- MCCovers
  NoResource = ""
  External = TRUE
  MaxGeneration = 1
  MaxRequests = 3
  MaxGatewayCrashes = 2
  Namespaces = {"working", "facts"}
  MemPolicy <- MCMemPolicy
  Keys <- MCKeys
  Sizes = {1, 3}
  Capacity = 7
  Fixed = 2
  MaxSequence = 6
SPECIFICATION MCSpecAnyCrash
INVARIANT CrashKeepsFrame
CHECK_DEADLOCK FALSE

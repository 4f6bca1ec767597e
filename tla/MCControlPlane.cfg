SPECIFICATION FairSpec
CONSTANTS
  s1 = s1
  s2 = s2
  Service <- MCService
  Ctl = ctl
  Addr <- MCAddr
  Lease <- MCLease
  Torn = torn
  Bad = bad
  Edits = 2
INVARIANTS StopReadNeverBlocks DescriptorsOutliveThreads ConfigApplied
PROPERTIES StopReturns ConfigEventuallyApplied
CHECK_DEADLOCK FALSE

\* Three-bit addresses, failing ioctls.
SPECIFICATION OneInterfaceSpec
CONSTANTS
  Width = 3
  RouterIp = 2
  Apply = TRUE
  Pools <- MCPools
  Boots <- MCBoots
  Default <- MCDefault
  Garbled <- MCGarbled
  Foreign <- MCForeign
  WanAddr <- MCWanAddr
  Loopback = 7
  IoctlFails = TRUE
  SaveFails = TRUE
  Edits = 2
  Changes = 1
  WanChanges = 2
  Restarts = 1
INVARIANTS SubnetCoversPool PublishedInPool ServedIsSaved NatAddressUsable
PROPERTIES GatewayFollowsKernel WanFollowsKernel
CHECK_DEADLOCK FALSE

SPECIFICATION RoutingSpec
CONSTANTS
  Node = {"node1", "node2", "node-1", "node-2"}
  Key = {1, 4}
  Addr = {a1}
  NoNode = NoNode
  Size = 5
  VNodes = {0}
  Placements <- AllPlacements
  Hash <- HashKey
  ReAdd = FALSE
  MaxCopies = 1
  PeerLists <- AllPeerLists
  AddrOf <- OneAddr
  ApiHosts <- ComposeHosts
  ApiId <- ComposeId
  MaxDrift = 1
  MaxOwners = 2
INVARIANTS
  DebugNamesTheOwner

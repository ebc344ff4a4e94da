SPECIFICATION RoutingSpec
CONSTANTS
  Node = {n1, n2, n3}
  Key = {1, 3}
  Addr = {a1}
  NoNode = NoNode
  Size = 4
  VNodes = {0, 1}
  Placements <- CollidingPlacements
  Hash <- HashKey
  ReAdd = FALSE
  MaxCopies = 3
  PeerLists <- AllPeerLists
  AddrOf <- OneAddr
  ApiHosts <- NoHosts
  ApiId <- SameId
  MaxDrift = 1
  MaxOwners = 2
INVARIANTS
  MismatchMeansStale
SYMMETRY Symmetry

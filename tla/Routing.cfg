SPECIFICATION RoutingSpec
CONSTANTS
  Node = {n1, n2, n3}
  Key = {1, 5}
  Addr = {a1}
  NoNode = NoNode
  Size = 6
  VNodes = {0, 1}
  Placements <- AllPlacements
  Hash <- HashKey
  ReAdd = FALSE
  MaxCopies = 1
  PeerLists <- AllPeerLists
  AddrOf <- OneAddr
  ApiHosts <- NoHosts
  ApiId <- SameId
  MaxDrift = 1
  MaxOwners = 2
INVARIANTS
  ListMatchesMap
  OwnerIsNearest
  NeverRerouted
  MismatchMeansStale
PROPERTIES
  MinimalRemapping
SYMMETRY Symmetry

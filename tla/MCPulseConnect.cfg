SPECIFICATION Spec
CONSTANTS
  Shared = Shared
  None = None
  Failed = Failed
  Makes <- MCMakes
  Pins = {"k1", "k2", "short"}
  Digests = {"k1", "k2"}
  Pools <- MCPools
  Lists <- MCLists
  Addrs = {"pulse", "::1", "no port"}
  HostPorts = {"pulse", "::1"}
  LoopbackIPs = {"::1"}
  Peers <- MCPeers
  SystemRoots = {"public"}
  MaxOptions = 2
  MaxConnects = 2
  MaxMessages = 2
INVARIANTS TokenToVerifiedPeer DialledOnlyIfValid MessageAsBuilt
CHECK_DEADLOCK FALSE

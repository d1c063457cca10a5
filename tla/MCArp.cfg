SPECIFICATION FairSpec
CONSTANTS
  TableSize = 2
  Packets = {p1, p2}
  p1 = p1
  p2 = p2
  Ips <- MCIps
  Macs <- MCMacs
  AnyIp = "any"
  AllOnesIp = "ones"
  ZeroMac = "zero"
  BroadcastMac = "bcast"
  OnLink <- MCOnLink
  Gateway = "gw"
  Dests <- MCDests
  Frames <- MCFrames
  Senders = {"app"}
  None = None
  TtlTicks = 2
  RetryTicks = 1
  MaxRetries = 2
INVARIANTS
  TypeOK
  PoolConserved
  OneEntryPerIp
  HeldOnlyWhilePending
  MappingsClaimed
PROPERTIES
  PoolRecovers

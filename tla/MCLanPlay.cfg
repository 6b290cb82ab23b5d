CONSTANTS
  none = none
  server = server
  broadcast = broadcast
  a = a
  b = b
  internet = internet
  nomac = nomac
  bmac = bmac
  hostA = hostA
  hostB = hostB
  twin = twin
  if1 = if1
  if2 = if2
  if3 = if3
  mac1 = mac1
  mac2 = mac2
  mac3 = mac3
  IP <- MCIP
  MAC <- MCMAC
  NONE_IP = none
  NONE_MAC = nomac
  BROADCAST_MAC = bmac
  ServerIp = server
  BroadcastIp = broadcast
  Subnet <- MCSubnet
  Prefix <- MCPrefix
  IfMac <- MCIfMac
  NoIf = NoIf
  Interface <- MCInterface
  Segment <- MCSegment
  Frame <- MCFrame
  ARP_CACHE_LEN = 2
  arp_ttl = 2
  MaxNow = 4
SPECIFICATION Spec
INVARIANTS
  LookupCorrect
  RelayedOnlyIfUnknown
  UnicastToHeardMac
PROPERTIES
  BroadcastReachesAll

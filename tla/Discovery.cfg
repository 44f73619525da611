\* Two addresses, ports and hardware addresses; any call unanswered.
CONSTANTS
  IpAddrs = {ip1, ip2}
  Ports = {port80, port8080}
  Macs = {mac1, mac2}
  Loopback = Loopback
  Port80 = port80
  ZeroMac = ZeroMac
  NoMatch = NoMatch
SPECIFICATION FairSpec
INVARIANTS
  TypeOK
  MatchIsOfThisProbe
PROPERTY EveryProbeMatched

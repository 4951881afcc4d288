CONSTANTS
  f1 = f1
  f2 = f2
  f3 = f3
  i1 = i1
  i2 = i2
  i3 = i3
  i4 = i4
  e0 = e0
  e1 = e1
  e2 = e2
  m1 = m1
  m2 = m2
  None = None
  Fqdn <- Fqdns
  Ip <- Ips
  Iface <- Ifaces
  Mac <- Macs
  Change <- Changes
SPECIFICATION Spec
INVARIANTS NeverRefused DsdbMatchesOutcome DoubtIsLocal
CHECK_DEADLOCK FALSE

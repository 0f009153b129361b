SPECIFICATION Spec
CONSTANTS
  Nodes <- MCNodes
  Hosts <- MCHosts
  Addrs <- MCAddrs
  Networks <- Mutual
  Copies = 2
  ShownPort <- SwappedPort
  LocalPorts = {5000}
  Sticky = 2
INVARIANTS
  EntriesMatchLinks
CHECK_DEADLOCK FALSE

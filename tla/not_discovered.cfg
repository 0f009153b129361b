SPECIFICATION TickSpec
CONSTANTS
  Nodes <- MCNodes
  Hosts <- MCHosts
  Addrs <- MCAddrs
  Networks <- LateHub
  Copies = 2
  ShownPort <- MCShownPort
  LocalPorts = {5000}
  Sticky = 2
PROPERTIES
  TransitiveDiscovery
CHECK_DEADLOCK FALSE

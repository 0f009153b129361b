SPECIFICATION FairSpec
CONSTANTS
  Nodes <- MCNodes
  Hosts <- MCHosts
  Addrs <- MCAddrs
  Networks <- MCNetworks
  Copies = 2
  ShownPort <- MCShownPort
  LocalPorts = {5000}
  Sticky = 2
INVARIANTS
  TypeOK
  OneDialPerName
  CanonicalIsThePeer
  LearnedIsReached
  AddressesDiffer
  EntriesMatchLinks
  HeardIsDialled
PROPERTIES
  TransitiveDiscovery
CHECK_DEADLOCK FALSE

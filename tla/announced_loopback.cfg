SPECIFICATION Spec
CONSTANTS
  Nodes <- MCNodes
  Hosts <- MCHosts
  Addrs <- MCAddrs
  Networks <- TwoMachines
  Copies = 2
  ShownPort <- MCShownPort
  LocalPorts = {5000}
  Sticky = 2
INVARIANTS
  LearnedIsReached
CHECK_DEADLOCK FALSE

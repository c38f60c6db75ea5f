SPECIFICATION Spec
CHECK_DEADLOCK FALSE
CONSTANTS
  eth0 = eth0
  vlan1 = vlan1
  can0 = can0
  can1 = can1
  gw = gw
  Eths = {eth0}
  Vlans = {vlan1}
  Cans = {can0, can1}
  Ips <- MCIps
  Gateways = {gw}
  Bitrates = {500}
  Supported <- MCSupported
  MaxActions = 3
  MaxRefusals = 2
INVARIANTS
  KernelInv
  DoneIsInForce
PROPERTIES
  RepeatChangesNothing

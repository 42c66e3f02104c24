CONSTANTS
  br0 = br0
  br1 = br1
  ovs0 = ovs0
  int0 = int0
  p1 = p1
  p2 = p2
  p3 = p3
  p4 = p4
  Unset = Unset
  Detach = Detach
  Ctrls = {br0, br1, ovs0}
  OvsBridges = {ovs0}
  Vrfs = {br1}
  Bonds = {br0}
  Ports = {int0, p1, p2, p3, p4}
  OvsIfaces = {int0}
  Ethernet = {p1, p4}
  Internal <- InternalOfOvs0
  Parent <- Vlans
  Scenarios <- AllScenarios
SPECIFICATION Spec
INVARIANTS TypeOK IgnoredUntouched ListedPortsJoin NamedControllerWins
INVARIANTS NoStaleController OvsInterfaceHasBridge NoOrphans NewPortAfterController

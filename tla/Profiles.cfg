SPECIFICATION Spec
CONSTANTS
  Ctrls = {"br0", "br1"}
  Ports = {"eth1", "dummy1"}
  Ethernet = {"eth1"}
  Unset = Unset
  Detach = Detach
  None = None
  Absent = Absent
  ACTIVATION_RETRY_COUNT = 2
  Scenarios <- MCScenarios
INVARIANTS
  TypeOK
  WantedIsActive
  DownIsDown
  OneProfile

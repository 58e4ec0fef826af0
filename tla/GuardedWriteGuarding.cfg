CONSTANTS
  EthernetPort = {1}
  ManagementPort = 6
  Value = {0, 1}
  Handler = {"forwarding_policy", "forwarding_matrix", "forwarding_mirroring", "port_vlan", "system_configuration", "device_name", "vlans"}
  Client = {c1, c2}
  Boot <- GuardingBoot
  Editable <- GuardingEditable
  Unstored <- GuardingUnstored
  MaxOps = 1
  MaxEdits = 1
SYMMETRY Clients
SPECIFICATION Spec
INVARIANTS LastWriterStands
PROPERTIES RevertsOnlyInWindow JustifiedPost ManagementPathKept
\* A client that has done its operations rests.
CHECK_DEADLOCK FALSE

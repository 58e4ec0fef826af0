CONSTANTS
  EthernetPort = {1}
  ManagementPort = 6
  Value = {0, 1}
  Handler = {"device_name", "rstp_port", "rstp_bridge", "vlans"}
  Client = {c1, c2}
  Boot <- MixedBoot
  Editable <- MixedEditable
  Unstored <- MixedUnstored
  MaxOps = 1
  MaxEdits = 1
SPECIFICATION CarefulSpec
PROPERTIES ActsAtomically
\* A client that has done its operations rests.
CHECK_DEADLOCK FALSE

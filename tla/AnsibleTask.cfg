CONSTANTS
  EthernetPort = {1}
  ManagementPort = 6
  Value = {0, 1}
  SpelledZero = SpelledZero
  Handler = {"device_name", "port_name", "port_configuration", "snmp", "static_hosts", "rstp_port", "rstp_bridge", "forwarding_policy", "forwarding_matrix", "forwarding_mirroring", "port_vlan", "system_configuration", "acl_rules", "vlans"}
  Boot <- SomeBoot
  Editable <- SomeEditable
  Unstored <- SomeUnstored
  MaxRuns = 3
  MaxEdits = 1
SPECIFICATION Spec
INVARIANTS TypeOK TaskIsDone PredictionsComeTrue AcceptedIsAccepted RepeatsAreQuiet
\* A playbook that has been run as often as it will be rests.
CHECK_DEADLOCK FALSE

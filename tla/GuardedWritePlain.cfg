CONSTANTS
  EthernetPort = {1}
  ManagementPort = 6
  Value = {0, 1}
  Handler = {"device_name", "rstp_port", "rstp_bridge", "port_name", "port_configuration", "snmp", "static_hosts", "acl_rules"}
  Client = {c1, c2}
  Boot <- PlainBoot
  Editable <- PlainEditable
  Unstored <- PlainUnstored
  MaxOps = 1
  MaxEdits = 1
SYMMETRY Clients
SPECIFICATION Spec
INVARIANTS TypeOK LastWriterStands HonestReports Inv
PROPERTIES RevertsOnlyInWindow JustifiedPost ActiveLinksKept
\* A client that has done its operations rests.
CHECK_DEADLOCK FALSE

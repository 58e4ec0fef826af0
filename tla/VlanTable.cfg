CONSTANTS
  VlanId = {1, 2, 3, 4}
  Setting = {"member", "six"}
  MaxRows = 3
  Client = {c1, c2}
  Boot <- Boots
  Wanted <- Playbooks
  MaxOps = 1
  MaxEdits = 1
SYMMETRY Clients
SPECIFICATION Spec
INVARIANTS TypeOK ReportsStand UntouchedRowsKeepOrder PortSixStays
\* A client that has done its calls rests.
CHECK_DEADLOCK FALSE

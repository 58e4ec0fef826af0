CONSTANTS
  Rule <- Rules
  SixRule <- PortSixRules
  Identity = {"h1", "h2"}
  Target = {"p1", "drop", "p6"}
  SixTarget = {"p6"}
  MaxRows = 3
  Client = {c1, c2}
  Boot <- Boots
  Wanted <- Playbooks
  MaxTries = 2
  MaxEdits = 1
SYMMETRY Clients
SPECIFICATION Spec
INVARIANTS TypeOK OneRowChanges RepeatedCommandsAddUp
\* A client that has given its command often enough rests.
CHECK_DEADLOCK FALSE

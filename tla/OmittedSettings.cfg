CONSTANTS
  EthernetPort = {1}
  ManagementPort = 6
  Value = {0, 1}
  SpelledZero = SpelledZero
  Handler = {"system_configuration", "device_name"}
  Boot <- SomeBoot
  Editable <- SomeEditable
  Unstored <- SomeUnstored
  MaxRuns = 1
  MaxEdits = 1
SPECIFICATION Spec
INVARIANTS OmittedStaysAsRead
\* A playbook that has been run as often as it will be rests.
CHECK_DEADLOCK FALSE

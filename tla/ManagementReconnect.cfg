CONSTANTS
  a = a
  b = b
  z = z
  l = l
  n = n
  StaticAddr = {a, b, z}
  Unusable = {z}
  Lease = {l}
  Alias = {n}
  Resolves <- Names
  Vlan = {"unset", "v10"}
  Mac = {"unset", "m"}
  Twin = {b}
  TwinConfig <- TwinConfigs
  Boot <- Boots
  Update <- Updates
  Attempts = 2
  MaxOps = 1
  MaxEdits = 1
  MaxMoves = 1
SPECIFICATION Spec
INVARIANTS TypeOK PollsWhereTheSwitchComesUp SameTransportStays UncertaintyIsEarned
PROPERTIES AdoptsOnlyTheSwitch EveryOperationReports
CHECK_DEADLOCK FALSE

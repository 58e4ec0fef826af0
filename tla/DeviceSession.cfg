SPECIFICATION Spec
CONSTANTS
  css106 = css106
  css3 = css3
  fork = fork
  nothing = nothing
  garbled = garbled
  Plugin <- MCPlugin
  Name <- MCName
  Fold <- MCFold
  Build <- MCBuild
  Identity <- MCIdentity
  Record <- MCRecord
  Pin <- MCPin
  AnyBuild = "any"
  Automatic = "auto"
  Switch <- MCSwitch
  Family <- MCFamily
  Supports <- MCSupports
  Offers <- MCOffers
  Shows <- MCShows
  Nothing = nothing
  Garbled = garbled
INVARIANTS TypeOK ConfigTasksAreCleared RefusalsPostNothing OverridesAreTold
PROPERTIES GuardedWritesMeetPermittedFirmware

SPECIFICATION Spec
CONSTANTS
  Holders = {"repeater", "link", "queue"}
  HidFails = FALSE
  TimerIds = {0, 1, 2}
  RawConfigs <- RelayOff
  UnloadStates <- UnloadSafe
  RelayEdits = FALSE
  LinkRaces = FALSE
INVARIANT ReceptionIsTimed

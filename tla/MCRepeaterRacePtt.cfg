SPECIFICATION Spec
CONSTANTS
  Holders = {"repeater", "link", "queue"}
  HidFails = FALSE
  TimerIds = {0, 1, 2}
  RawConfigs <- RelayOn
  UnloadStates <- UnloadSafe
  RelayEdits = FALSE
  LinkRaces = TRUE
INVARIANT IdleHoldsNoPtt

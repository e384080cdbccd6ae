SPECIFICATION NodeSpec
CONSTANTS
  Holders = {"repeater", "link"}
  HidFails = FALSE
  TimerIds = {0, 1, 2}
  RawConfigs <- RelayOnly
  UnloadStates = {}
  RelayEdits = FALSE
  LinkRaces = FALSE
  EndSilence = 1
  EndSilenceDtmf = 3
  DtmfGrace = 2
PROPERTY EndNeedsQuiet

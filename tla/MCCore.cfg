SPECIFICATION MCSpec
CONSTANTS
  \* Repeater and Node
  Holders = {"repeater", "link", "queue"}
  HidFails = FALSE
  TimerIds = {0, 1, 2}
  RawConfigs <- AllConfigs
  UnloadStates <- UnloadSafe
  RelayEdits = FALSE
  LinkRaces = FALSE
  EndSilence = 1
  EndSilenceDtmf = 3
  DtmfGrace = 2
  \* Queue
  t1 = t1
  t2 = t2
  Threads = {t1, t2}
  Priorities = {1, 2}
  Sources = {cwid}
  MAX_QUEUE_DEPTH = 2
  MaxFrames = 2
  MaxIds = 3
  NoSource = NoSource
  NoBuf = NoBuf
  NoTag = NoTag
INVARIANTS TypeOK PttFollowsSession SessionIsWhole
           DetectorState
           CountIsDepth NoDanglingBuffer BuffersReclaimed
           FairOrder ItemsAreOwn
PROPERTIES SessionSteps ImplementsTransmitter
           EndIsPatient KeyIsHeard UnkeyEndsSession
           ItemsLeave

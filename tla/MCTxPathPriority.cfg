SPECIFICATION TxSpec
CONSTANTS
  t1 = t1
  Threads = {t1}
  Priorities = {1, 2}
  Sources = {}
  MAX_QUEUE_DEPTH = 2
  MaxFrames = 2
  MaxIds = 3
  NoSource = NoSource
  NoBuf = NoBuf
  NoTag = NoTag
  Holders = {"queue", "repeater"}
  HidFails = FALSE
  TxDelay = 2
  TxTail = 1
  RelayDrain = 1
  RingFrames = 2
  ActionsMax = 4
INVARIANT IdleQueueSorted

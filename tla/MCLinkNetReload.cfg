SPECIFICATION Spec
CONSTANTS
    Conns = {c1, c2}
    NoConn = NoConn
    MaxInFlight = 2
    self = self
    peer = peer
    Self = self
    Peers = {peer}
    Tgs = {1, 2}
    Rosters <- ShrinkingRosters
    MaxSlots = 2
    AuthFailKick = 0
    LOSS_HIST_LEN = 1
    LOSS_HIST_TRIP = 1
    NoRec = NoRec
    TgWanted = {2}
    MaxActs = 2
INVARIANT
    RuntimeIsOwn
CHECK_DEADLOCK FALSE

SPECIFICATION MCSpec
CONSTANTS
    \* JitterBuffer
    JB_SLOTS = 3
    JB_PLC_MAX = 2
    SeqWrap = 16
    FarSeq = 3
    FirstSeq = 13
    TargetFrames = 1
    TailFrames = 2
    MaxLag = 1
    MaxPackets = 4
    \* Access
    Digits = {"1"}
    UserTables <- Tables
    LogoutCode <- Logout
    OtpPattern <- Otp
    MAX_ANI_LEN = 2
    MAX_CMD_LEN = 2
    OTP_MAX_FAILURES = 1
    MAX_OTP_SESSIONS = 1
    MaxInputs = 8
    MaxStep = 2
    \* Records
    RecUsers = {1, 2, 3}
    RRD_MAX_USERS = 2
    MaxCalls = 2
    MaxOther = 2
    \* Announcers
    AnnMaxInputs = 3
    \* Mailbox
    VmUsers = {1, 2}
    VM_MAX = 1
    MailMaxInputs = 8
    \* Autopatch
    MaxFsCalls = 2
    MaxFsInputs = 2
    ESL_MAX_RECONNECT_ATTEMPTS = 2
    \* Gateways
    PocUsers = {u1, u2}
    PocGroups = {g1, g2}
    RfGroup = g1
    NoUser = none
    MaxGwInputs = 5
    \* Speech
    AiCallers = {0, 1}
    AI_REQUEST_QUEUE_SIZE = 2
    AI_MAX_CONVERSATIONS = 1
    MaxToolRounds = 1
    MaxConsecFail = 1
    TTS_QUEUE_SIZE = 1
    MAX_THREADS = 4
    MaxSpeechInputs = 3
    \* Runtime
    RtModules = {"a", "b"}
    RtEvents = {"e"}
    KERCHUNK_MAX_MODULES = 2
    KERCHEVT_MAX_SUBS = 2
    KERCHEVT_MAX_DEPTH = 2
    MAX_TAPS = 2
    MAX_SCHEDULES = 2
    MaxRtInputs = 3
    \* Feeds
    AlertIds = {"a", "b"}
    MAX_ALERTS = 1
    QUEUE_SIZE = 1
    MaxRetries = 1
    MaxFeedInputs = 2
    \* ControlSocket
    SockClients = {"c1", "c2"}
    MAX_CLIENTS = 1
    EVT_RING_SIZE = 3
    MaxRows = 1
    MaxSaid = 4
    MaxSockInputs = 4
    \* Directory
    DirIds = {1, 2}
    Names = {"ann", "bob"}
    MaxDirInputs = 2
    MaxDirFaults = 1
    \* Web
    WebConns = {"w1", "w2"}
    WS_RING_SLOTS = 2
    MaxWebInputs = 3
    MaxPipe = 2
    \* TxPath
    t1 = t1
    Threads = {t1}
    Priorities = {1}
    Sources = {}
    MAX_QUEUE_DEPTH = 2
    MaxFrames = 2
    MaxIds = 2
    NoSource = NoSource
    NoBuf = NoBuf
    NoTag = NoTag
    Holders = {"queue", "repeater"}
    HidFails = FALSE
    TxDelay = 2
    TxTail = 1
    RelayDrain = 1
    RingFrames = 2
    ActionsMax = 4
INVARIANTS
    JbLossIsReal
    ElevationIsEarned
    RecordsAreTrue
    NothingIsForgotten
    
    CallIsWhole
    TalkersHoldTheirPtt
    AnswersDoNotPile
    
    NewsIsToldOnce
    LinesAreWhole
    StreamsAreServed
    TransmitterIsKeyed
PROPERTIES
    JbInOrder
    JbPttEnds
    CommandsWait
    MainLoopReturns
    UsersSettle
    QueueIsServed
    QueueImplementsTransmitter
\* Inputs are bounded, and every part may come to rest.
CHECK_DEADLOCK FALSE

SPECIFICATION PeripherySpec
CONSTANTS
    NetTask = "u"
    NetPorts = 4
    NetSeqSpace = 16
    NetIsn = 13
    NetStream <- Greeting
    TCP_RX_WINDOW = 2
    TCP_OUT_OF_ORDER_MAX = 1
    TCP_MSS = 2
    TCP_MAX_RETRIES = 2
    MAX_SOCKETS_PER_TASK = 1
    MAX_SOCKETS_TOTAL = 2
    NetCalls = 4
    NetFaults = 1
    DgHosts = {"a", "example.com"}
    DgLocal = {"a"}
    DNS_CACHE_MAX = 1
    DNS_CACHE_TTL_TICKS = 1
    DgTicks = 2
    DgCalls = 3
    DgFaults = 1
    WebHosts = {"g", "h", "bad"}
    WebAddrs = 2
    WebRoots <- Roots
    HTTP_MAX_REDIRECTS = 1
    TLS_ROOT_CACHE_MAX = 1
    WebRequests = 2
    WebFaults = 1
    WbBytes = {"0", "cr", "lf"}
    WbLen = 2
    WbChunks = 2
    VnQueue = 2
    RX_BUFFERS = 2
    VnIndex = 4
    VnFrames = {"f", "g"}
    VnSends = 2
    VnReceives = 4
    MaxTasks = 3
    MAX_FDS = 5
    MaxObjects = 2
    PIPE_SIZE = 1
    ChildFds = {0}
    Ops = {"open", "dup", "thread", "close", "write", "spawn", "exit", "kill"}
    FatClusters = 7
    FatSlots = 3
    FatDirs = {"D"}
    FatShort = {"S"}
    FatLong = {"L", "K"}
    FatContents <- FatTwoClusters
    FatSetup <- FatDisk
    FatCalls = 2
    FatFaults = 1
    XhPorts <- XhTwoPorts
    XhUsb3 = {2}
    XhSlots = 2
    MSC_MAX_DEVICES = 2
    XhAttached = {1}
    XhKinds = {"kbd", "disk", "plain"}
    XhHappens = 3
    XhCalls = 1
    XhFaults = 1
    UdSize = 2
    UdValues = {"a", "b"}
    BULK_RING_TRBS = 4
    UdCalls = 3
    UdFaults = 1
CHECK_DEADLOCK FALSE
INVARIANTS PeripheryTypeOK 
PROPERTIES PeripherySteps

SPECIFICATION StorageSpec
CONSTANTS
    CfsInodes <- Inodes
    CfsBlocks = {1, 2, 3}
    CfsNames = {"a", "b"}
    CfsPaths <- Paths
    CfsMainWrites <- TaskZeroPaths
    CfsData = {"x"}
    UpTargets = {"f", "g"}
    UpContent <- Contents
    UpPlans <- Plans
    UpVersions = {1, 2}
    UpKeys = {"expired", "revoked"}
    UpFails = 1
    PkPaths = {"A", "B"}
    PkVariants <- Archives
    PkTargets = {"t", "u"}
    PkApps = {"p", "q"}
    PkBuiltin = {"b"}
    PkKeys = {"pkg-a", "revoked"}
    PkFails = 1
    InsMachines <- Machines
    InsEntries = 1
    InsAlign = 2
    InsPrefix = 1
    InsFaults = 1
    InsWrites = 1
    FmTree <- SmallTree
    FmNames <- TypedNames
    FmProtected = {}
    FmTrash <- TrashFolder
    FmNumbers = 1
    FmBudget = 3
    FmOthers = 1
    QUEUE_ENTRIES = 3
    NvNamespaces <- NvFour
    NvValues = {"a", "b"}
    NvCalls = 3
    NvFaults = 1
    AhPorts = {0, 8}
    AhLast = 7
    AhSignatures = {"ata", "atapi"}
    AhSectors = 2
    AhValues = {"a", "b"}
    AhCalls = 2
    AhFaults = 2
    AtPresents = {{"master", "slave"}, {"slave"}, {}}
    AtSectors = 2
    AtValues = {"a", "b"}
    ATA_RETRIES = 3
    AtCalls = 3
    AtFaults = 2
CHECK_DEADLOCK FALSE
INVARIANTS StorageTypeOK   DesktopSound
 

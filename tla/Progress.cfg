SPECIFICATION ProgressSpec
CONSTANTS
    GuiTask = {1, 2}
    GuiHandles = 2
    MAX_EVENTS = 1
    GuiInputs = 1
    Service = {"event-bus", "device-registry", "network-stack", "writeback"}
    ServiceDeps <- Deps
    ServicePolicy <- Policies
    MAX_QUEUE = 2
    MAX_PENDING = 2
    DrainItems = 1
    MaxItems = 2
    MaxFaults = 2
CHECK_DEADLOCK FALSE
INVARIANTS GuiPollerIsWoken GuiNoOrphans NoStoppedDependency
PROPERTIES DeferredIsKept GuiCloses 

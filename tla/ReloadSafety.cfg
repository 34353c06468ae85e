CONSTANTS
    Requests = {r1}
    Kinds = {"ok", "unloadable", "unbuildable"}
    Signals = {"SIGUSR1", "SIGUSR2"}
    Payloads = {"reload config"}
    CanFail = TRUE
    ChannelEnabled = TRUE
    MaxBackoff = 2
    MaxDdl = 2
    MaxEdits = 1
    MaxSignals = 2
    MaxNotifies = 1
    MaxDrops = 0
SPECIFICATION Spec
INVARIANTS ServedIsCurrent OnlyBuildableServed LockAndVersions FunctionsNotOlder
PROPERTY ServedSchemaMonotone

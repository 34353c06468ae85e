CONSTANTS
    Requests = {r1}
    Kinds = {"ok"}
    Signals = {"SIGUSR1", "SIGUSR2"}
    Payloads = {}
    CanFail = FALSE
    ChannelEnabled = FALSE
    MaxBackoff = 2
    MaxDdl = 0
    MaxEdits = 1
    MaxSignals = 3
    MaxNotifies = 0
    MaxDrops = 0
SPECIFICATION FairSpec
PROPERTY SignalledConfigServed

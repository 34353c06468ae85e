CONSTANTS
    Requests = {r1}
    Kinds = {}
    Signals = {"SIGUSR1"}
    Payloads = {"other"}
    CanFail = TRUE
    ChannelEnabled = TRUE
    MaxBackoff = 2
    MaxDdl = 1
    MaxEdits = 0
    MaxSignals = 2
    MaxNotifies = 0
    MaxDrops = 1
SPECIFICATION FairSpec
PROPERTIES NotifiedDdlServed ReconnectRefreshes ListenerComesBack SignalledSchemaServed RequestsFinish
CHECK_DEADLOCK FALSE

SPECIFICATION Spec
CONSTANTS
    Confs <- MCConfs
    Requests <- MCRequests
    MaxTotal = 3
    None = None
INVARIANTS
    GatesKept
    AnswerDescribesResult
    FailuresReported
    NegotiatedBest

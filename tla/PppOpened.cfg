SPECIFICATION Spec
CONSTANTS
    Opt = {1, 2}
    NoOpt = NoOpt
    Wanted <- MCWanted
    Acceptable <- MCAcceptable
    Hint <- MCHint
    Adopts <- MCAdopts
    Flags <- SilentFlags
    ConfReqs = 2
    MaxConfReqs = 2
    MaxTermReqs = 2
    MaxNakLoops = 1
    EchoFails = 1
    IdSize = 8
    MaxCallouts = 3
    ChanLen = 3
    MaxFaults = 2
    MaxCalls = 1
INVARIANTS OpenedMeansUp
CHECK_DEADLOCK FALSE

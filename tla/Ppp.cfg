SPECIFICATION Spec
CONSTANTS
    Opt = {1, 2}
    NoOpt = NoOpt
    Wanted <- MCWanted
    Acceptable <- MCAcceptable
    Hint <- MCHint
    Adopts <- MCAdopts
    Flags <- RestartFlags
    ConfReqs = 2
    MaxConfReqs = 2
    MaxTermReqs = 2
    MaxNakLoops = 1
    EchoFails = 1
    IdSize = 4
    MaxCallouts = 2
    ChanLen = 3
    MaxFaults = 1
    MaxCalls = 1
INVARIANTS TypeOK OptionsAgree TimerRuns UpOnlyOpened
PROPERTIES IdsFresh Settles HalfOpenEnds
CHECK_DEADLOCK FALSE

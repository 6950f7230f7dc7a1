\* Every input of the sets in MCTools; the operator of the network scripts runs
\* cleanup before setup, with one interface too few, enough, or one more.
CONSTANTS
    Captures <- AllCaptures
    MatchInputs <- AllMatchInputs
    MatchedInputs <- AllMatchedInputs
    FrameInputs <- AllFrameInputs
    ArrivalInputs <- AllArrivalInputs
    Ms = 4
    Wrap = 8
    FrameSize = 3
    Runs <- AllRuns
    Offset = 2
    Durations = {0, 3}
    Shows <- SomeShows
    MaxTime = 3
    Ranges <- SomeRanges
    NoBbr = NoBbr
    NoTime = NoTime
    OldTraces <- AllTraces
    NoNumber = NoNumber
    Algos = {"bbr", "cubic"}
    ParseArgs <- SomeArgs
    MaxRuns = 2
    Sizes = {2, 3, 4}
    Careful = TRUE
    MaxScripts = 6
    NoFile = NoFile
    NotUsed = NotUsed
SPECIFICATION Spec
INVARIANTS
    SeqIdentifiesSegment
    PacketScriptsAgree
    FramesFollowTheStream
    SamplesGoToTheirLink
    SsTablesAgree
    TracesStayWhole
    
    SetupKeepsItsWord
PROPERTY
    MonitoringEnds
CHECK_DEADLOCK FALSE

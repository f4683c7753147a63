CONSTANTS
    me = me
    x = x
    NoState = NoState
    NoTrades = NoTrades
    FeedDown = FeedDown
    Nodes <- MCNodes
    ServiceNodes <- MCServiceNodes
    Attesters <- MCNodes
    Me = me
    HasKeys = TRUE
    UPTIME_PROOF_BUFFER_IN_SECONDS = 1
    UPTIME_PROOF_FREQUENCY_IN_SECONDS = 2
    UPTIME_PROOF_MAX_TIME_IN_SECONDS = 2
    MIN_LIFETIME = 2
    StartTime = 3
    MaxTime = 9
    REORG_SAFETY_BUFFER_IN_BLOCKS = 1
    VOTE_LIFETIME_BY_HEIGHT = 3
    V5Height = 0
    V6Height = 10
    MaxHeight = 7
    Heights <- MCHeights
    QuorumStates <- MCQuorumStates
    U64 = 10
    Means = {1}
    UsdReplies <- MCSteadyFeeds
    NaNCasts = {0}
    Blues <- MCBlues
    ClearHeights = {}
    RibbonSenders <- MCNoSenders
SPECIFICATION Spec
INVARIANT CursorBound

CONSTANTS
    NotJSON = NotJSON
    NotArray = NotArray
    NotDict = NotDict
    Missing = Missing
    IPs = {"pub1", "pub2", "priv1", "priv2"}
    Private = {"priv1", "priv2"}
    BadIp = BadIp
    NoIp = NoIp
    BadNet = BadNet
    PrivateRanges <- MCPrivateRanges
    MetaRoute4 <- MCMetaRoute4
    MetaRoutes6 <- MCMetaRoutes6
SPECIFICATION Spec
INVARIANT VerdictMatchesRule
INVARIANT MainNicPreferred
INVARIANT MaskLengthRoundTrip
INVARIANT WaitCatchesSteadyStatus
INVARIANT HttpCodeRoundTrip
INVARIANT AddedBackendFound
INVARIANT RuleDeleteTruthful
INVARIANT RuleGroupShowsRuleTargets
INVARIANT ElbGroupDeleteStopsAtFirstFailure
 
INVARIANT MacEqualMatchesDigits
INVARIANT TcpProbeTruthful
INVARIANT ApiServerSameLocation
INVARIANT ConnectParamsAuthoritative

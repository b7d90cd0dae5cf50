CONSTANTS
    RequestTypes <- MCRequestTypes
    TIDs <- MCTIDs
    RequestOptionLists <- MCRequestOptionLists
    Configs <- MCConfigs
    MaxRelayDepth = 2
SPECIFICATION Spec
INVARIANT TypeOK
INVARIANT RelayTransparent
INVARIANT ReplyAnswersRequest
INVARIANT IANAReplyWellFormed
INVARIANT ReplyTypeFollowsRFC8415
INVARIANT ErrorsAsSpecified

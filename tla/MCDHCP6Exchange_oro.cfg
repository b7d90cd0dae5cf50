CONSTANTS
    RequestTypes <- MCRequestTypes
    TIDs <- MCTIDs
    RequestOptionLists <- MCRequestOptionListsOddORO
    Configs <- MCConfigs
    MaxRelayDepth = 2
SPECIFICATION Spec
INVARIANT NoPanic

CONSTANTS
    VpcIds = {v1, v2, v3}
    PageSize = 2
    MaxChanges = 2
SPECIFICATION FairSpec
INVARIANT VpcCacheExactWhenStable
PROPERTY FetchEnds

CONSTANTS
    Alerts = {"a1"}
    Matches <- MCMatches
    ResTypes = {"guest", "host"}
    Ids = {"vm1", "h1"}
    ExpireTicks = 1
    MaxTime = 2
    MaxRecords = 3
SPECIFICATION Spec
INVARIANT AlertingViewsAgree

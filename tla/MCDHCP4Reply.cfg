CONSTANTS
    Configs <- MCConfigs
    Requests <- MCRequests
    MSFTVendors <- MCMSFTVendors
    WinOsNames <- MCWinOsNames
SPECIFICATION Spec
INVARIANT TypeOK
INVARIANT ClasslessRoutesDecode

CONSTANTS
    h1 = h1
    h2 = h2
    Procs <- MCProcs
    Ids <- MCIds
    Protocols <- MCProtocols
    SPICE = "spice"
    WS = "websocket"
    KeepWebsocketSession = FALSE
    AccessInterval = 2
    MaxTime = 2
    MaxSessions = 2
SPECIFICATION Spec
SYMMETRY MCSymmetry
INVARIANT LatestSessionRetained

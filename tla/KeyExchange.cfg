\* Two tabs of alice and one of bob.
SPECIFICATION KeySpec
CONSTANTS
    a1 = a1 a2 = a2 b1 = b1
    None = None
    Tabs = {a1, a2, b1}
    UserOf <- MCUserOf
    BrowserOf <- MCBrowserOf
    PeerOf <- MCPeerOf
    MaxLogouts = 1
    MaxCalls = 2
    Faults = {"fetch","upload","push"}
INVARIANTS KeyTypeOK StaleKeyIsNoticed
SYMMETRY Symmetric
CHECK_DEADLOCK FALSE

SPECIFICATION LiveSpec
CONSTANTS
    Request = {"start", "stop", "restart", "quit", "shutdown", "reboot"}
    MaxRequests = 4
    ConfigFails = TRUE
    ConnectFails = TRUE
INVARIANTS
    NoThreadWithoutProject
    WaitsInStep
    NoCommandOverlooked

    
    
CHECK_DEADLOCK FALSE

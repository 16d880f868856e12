SPECIFICATION LiveSpec
CONSTANTS
    Request = {"stop"}
    MaxRequests = 1
    ConfigFails = FALSE
    ConnectFails = FALSE
PROPERTY
    StopObeyed
CHECK_DEADLOCK FALSE

CONSTANTS
    max_contacts = 1
    max_retries = 1
    max_discount_offers = 1
    max_voice_attempts = 1
    npci_max_attempts = 4
    Events <- TwoAndControl
    Customers <- OneCustomer
    CustomerOf <- SameCustomer
    Control = {"k1"}
    AmountOf <- HighValueFirst
    HighValue = {"e1", "k1"}
    CauseOf <- OrdinaryCause
    OptedOut = {}
    Plans <- OneLink
    MaxSteps = 1
    ScanLimit = 1
    TickLimit = 1
    GateEnvs <- ClearAndClosed
    HumanOps = {"pause", "reject"}
    Faults = {}
SPECIFICATION LiveSpec
INVARIANTS ControlUntouched
PROPERTIES EveryEventIsDecided EveryLockIsReleased FateSpec

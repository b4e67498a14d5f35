CONSTANTS
    max_contacts = 1
    max_retries = 1
    max_discount_offers = 1
    max_voice_attempts = 1
    npci_max_attempts = 4
    Events <- OneEvent
    Customers <- OneCustomer
    CustomerOf <- SameCustomer
    Control = {}
    AmountOf <- HighValueFirst
    HighValue = {}
    CauseOf <- OrdinaryCause
    OptedOut = {}
    Plans <- OneMessage
    MaxSteps = 1
    ScanLimit = 1
    TickLimit = 1
    GateEnvs <- ClearOnly
    HumanOps = {}
    Faults = {"fetch_state_raises"}
SPECIFICATION Spec
INVARIANTS PerformedAtMostOnce

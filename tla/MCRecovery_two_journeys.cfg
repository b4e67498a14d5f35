CONSTANTS
    max_contacts = 1
    max_retries = 1
    max_discount_offers = 1
    max_voice_attempts = 1
    npci_max_attempts = 4
    Events <- TwoEvents
    Customers <- OneCustomer
    CustomerOf <- SameCustomer
    Control = {}
    AmountOf <- HighValueFirst
    HighValue = {}
    CauseOf <- OrdinaryCause
    OptedOut = {}
    Plans <- OneMessage
    MaxSteps = 1
    ScanLimit = 2
    TickLimit = 2
    GateEnvs <- ClearOnly
    HumanOps = {}
    Faults = {"lock_expires"}
SPECIFICATION Spec
INVARIANTS OneOpenJourney

SPECIFICATION Spec
CONSTANTS
    None = None
    max_contacts = 2
    max_retries = 2
    max_discount_offers = 1
    max_voice_attempts = 1
    npci_max_attempts = 3
    Events <- TwoEvents
    Amount <- Amounts
    CauseOf <- Causes
    Plans <- SomePlans
    Seeded = {2}
    Notices <- Ages
    ModelRates = {30}
    CohortRates <- Cohorts
    Start = 16
    End = 70
    MaxOverlaps = 1
    MaxRollbacks = 1
    MaxPolls = 0
    MaxOutages = 1
    Outages = {24}
    clock_speedup = 1
    pdn_lead_hours = 24
    quiet_hours_start = 21
    quiet_hours_end = 8
CHECK_DEADLOCK FALSE
INVARIANTS TypeOK EffectsAreCounted  LedgerAgreesWithRows MandateInv
PROPERTIES NoticeLeads  FateSpec

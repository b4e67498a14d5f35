SPECIFICATION Spec
CONSTANTS
    max_contacts = 3
    max_retries = 2
    max_discount_offers = 1
    max_voice_attempts = 1
    npci_max_attempts = 4
    min_confidence = 1200
    min_expected_value_paise = 5000
    Reasoner = TRUE
    Profiles <- AllProfiles
    Signals <- SomeSignals
    Clocks <- SomeClocks
    LearnedRates <- SomeRates
CHECK_DEADLOCK FALSE
INVARIANTS TypeOK PlanSuitsRecovery EscalationFitsContacts 
PROPERTIES FutileRetryNeverRuns

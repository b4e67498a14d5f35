CONSTANTS
    Sessions = {s1, s2}
    Summaries = {"short", "long"}
    Edits = TRUE
    MaxRecords = 4
SYMMETRY Interchangeable
SPECIFICATION Spec
INVARIANTS TypeOK EntriesAreRooted VerdictIsExact AuditInv

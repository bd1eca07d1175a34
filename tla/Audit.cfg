CONSTANT Jobs <- MCJobs
SPECIFICATION AuditSpec
INVARIANTS
    DecodesToRequest
    InStep
    VerdictSound
    ReportExact

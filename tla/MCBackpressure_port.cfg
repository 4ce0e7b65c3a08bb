SPECIFICATION FairSpec
CONSTANTS
    Creds = 6
    DataFlits = 2
    Requests = {"read", "write"}
    Window <- OpenRequests
INVARIANTS TypeOK CreditsConserved NoOverrun InStep
PROPERTIES RequestsAnswered

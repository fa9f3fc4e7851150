SPECIFICATION Spec
CONSTANTS
    Calls = {c1, c2}
    Requests <- MCRequests
    Responses <- MCResponses
    Transports = {"native", "event"}
    AllowedOrigins = {"allowed"}
    MaxConcurrent = 1
    HeadLimit = 2
    BodyLimit = 2
INVARIANTS
    TransfersHavePermits
    AnswersAreTrue
    
PROPERTIES
    EveryCallSettles
CHECK_DEADLOCK FALSE

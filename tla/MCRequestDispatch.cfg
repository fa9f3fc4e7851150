SPECIFICATION Spec
CONSTANTS
    Cases <- MCCases
    StreamEndpoints <- MCStreamEndpoints
    SocketEndpoints <- MCSocketEndpoints
    Rewrites <- MCRewrites
    Statuses = {101, 200, 304}
    ActorKinds = {"user", "service"}
    AllowedOrigins = {"allowed"}
    MaxProtocols = 2
INVARIANTS
    SessionsAreAccounted
    MiddlewareUnwinds
    
    CredentialsAreSound
    ProblemsAreDeclared
PROPERTIES
    EveryRequestEnds
CHECK_DEADLOCK FALSE

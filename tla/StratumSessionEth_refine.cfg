CONSTANTS
    N1 = N1
    N2 = N2
    Nonces <- MCNonces
    CheckShare <- MCCheckShare
    MaxJobs = 2
    MaxLocalJobs = 2
    InvalidWindow = 2
    InvalidLimit = 2
    MaxTime = 1
    MaxSubmits = 2
SPECIFICATION Spec
PROPERTY SessionStatesRefined

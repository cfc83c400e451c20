CONSTANTS
    N1 = N1
    N2 = N2
    Nonces <- MCNonces
    CheckShare <- MCCheckShare
    MaxJobs = 2
    MaxLocalJobs = 2
    InvalidWindow = 2
    InvalidLimit = 2
    MaxTime = 2
    MaxSubmits = 4
SPECIFICATION Spec
INVARIANT TypeOK
INVARIANT InvalidSharesPublishedBelowLimit

CONSTANTS
    S1 = S1
    D1 = D1
    M1 = M1
    NoValue = NoValue
    Nonces <- MCNonces
    MinDiffs <- MCMinDiffs
    Masks <- MCMasks
    MaxJobs = 12
    MaxLocalJobs = 10
    MaxSubmits = 2
SPECIFICATION Spec
INVARIANT TypeOK
INVARIANT ShortJobIdResolves
INVARIANT NoDuplicateAccepted
PROPERTY SessionStatesRefined

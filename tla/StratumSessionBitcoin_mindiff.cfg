\* A mining.configure after authorize, against the suggested-floor rule.
CONSTANTS
    S1 = S1
    D1 = D1
    M1 = M1
    NoValue = NoValue
    Nonces <- MCNonces
    MinDiffs <- MCMinDiffs
    Masks <- MCMasks
    MaxJobs = 2
    MaxLocalJobs = 2
    MaxSubmits = 2
SPECIFICATION Spec
INVARIANT MinDiffHonoured

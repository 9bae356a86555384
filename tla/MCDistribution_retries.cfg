CONSTANTS
    u1 = u1
    u2 = u2
    c1 = c1
    c2 = c2
    ann = ann
    ben = ben
    k1 = k1
    k2 = k2
    s1 = s1
    s2 = s2
    m1 = m1
    m2 = m2
    Uuids <- TwoUuids
    Cosigners <- TwoCosigners
    Claimants <- TwoClaimants
    Councils <- TwoCouncils
    Shards <- TwoShards
    Digests <- TwoDigests
    Requests <- Retries
    Addresses <- TwoAddresses
    StartTimes <- Times
    Supply = 2
    MaxTime = 1
CHECK_DEADLOCK FALSE
SPECIFICATION Spec
INVARIANTS
    TypeOK
    PaidOnce
    ClaimsAreCosigned
    TokensConserved
PROPERTIES
    ImplementsPayouts

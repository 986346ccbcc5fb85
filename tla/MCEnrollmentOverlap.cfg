\* Two requests at a time, two browsers, one token.
SPECIFICATION Spec
CONSTANTS
    Users = {ann}
    Tokens = {t1}
    Browsers = {b1, b2}
    Creds = {c1, c2}
    Workers = {w1, w2}
    Faulty = {w1, w2}
    MaxChallenge = 2
    MaxCount = 1
    TTL = 1
    MaxClock = 1
    NoUser = NoUser
    NoToken = NoToken
    NoBrowser = NoBrowser
    NoCred = NoCred
CHECK_DEADLOCK FALSE
SYMMETRY Symmetry
INVARIANTS
    TypeOK
    SignedInByOwnCredential
    UsedTokenRegistered
    OneShotUnlessContended
    ChallengeUsedOnce
PROPERTY
    CounterNeverBack

SPECIFICATION PartSpec
CONSTANTS
    Kbs = {k1, k2}
    Readers = {r1, r2}
    Writers = {w1, w2}
    MaxIndexes = 1
    Ttl = 1
    MaxWrites = 1
    MaxTime = 2
    Users = {"user1", "user2"}
    Tenants = {"tenant1", "tenant2"}
    Records = {"c1", "c2"}
SYMMETRY ThreadSymmetry
INVARIANTS
    WritesAreSeen
    AnswerWithinTtl
    CacheBounded
    NoForeignRecord
PROPERTIES
    ScriptsComplete

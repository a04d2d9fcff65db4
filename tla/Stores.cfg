SPECIFICATION Spec
CONSTANTS
    Uploads = {u1, u2, u3}
    UploadFaults = {"crash", "write", "delete", "db", "ambiguous", "refresh"}
    Threads = {h1, h2}
    Collections = {"a", "b", "c"}
    MaxCollections = 2
    BackfillRuns = {b1, b2}
    Documents = {"d1", "d2"}
    NoAuthor = "none"
    AccountRequests = {a1, a2, a3}
    Slugs = {"tenant1"}
    Emails = {"e1", "e2"}
    Usernames = {"n1", "n2"}
    Callers = {c1, c2}
    CacheKeys = {"k1", "k2"}
    RouterVersions = {"v1", "v2"}
    Vectors = {"q1", "q2"}
    Near = {{"q1", "q2"}}
    TtlSeconds = 1
    MaxEntries = 2
    MaxClock = 2
    Scopes = {"own", "other"}
    OwnScope = "own"
    Filenames = {"f", "g"}
    Extensions = {"md"}
    Limit = 1
    MaxRows = 2
    MaxDay = 1
    MaxAsked = 2
INVARIANTS
    StoresAgree
    HandlesAreKept
    AccountsAreRight
    HitsAreRight
    ListsAreRight
PROPERTIES
    BackfillIsRight
    OldestGoFirst
\* Requests are answered and scripts end.
CHECK_DEADLOCK FALSE

SPECIFICATION MigrationSpec
CONSTANTS
    Users = {"user1", "user2"}
    Tenants = {"tenant1", "tenant2"}
    Records = {r1, r2}
INVARIANT EveryRecordMoved

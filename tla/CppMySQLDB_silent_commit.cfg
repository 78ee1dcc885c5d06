\* One session with transactions, one database.
CONSTANTS
    Sessions = {s1}
    Working = {s1}
    Databases = {"first", "second"}
    NULL = NULL
    ConnStrings <- SomeConnStrings
    MaxUpdates = 2
    MaxCount = 2
SPECIFICATION Spec
INVARIANT
    CommitKeeps

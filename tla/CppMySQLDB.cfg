\* A session with transactions and one without, two databases.
CONSTANTS
    Sessions = {s1, s2}
    Working = {s1}
    Databases = {"first", "second"}
    NULL = NULL
    ConnStrings <- SomeConnStrings
    MaxUpdates = 2
    MaxCount = 2
SPECIFICATION Spec
INVARIANTS
    NoHiddenTransaction
    TransactionIsReal
    ReopensOnlyWhenAsked
    AsksOwnDatabase

    
    

\* One thread that resolves and one that creates a task; the file is written
\* again once, so that the reload of an old one can meet that of a new one.
SPECIFICATION Spec
CONSTANTS
    Readers = {r1}
    TaskCaller = t
    Texts = {"", " ", "7", " 7", "8"}
    Normal <- Spelling
    Empty = ""
    Inventories <- SomeInventories
    MaxVersion = 2
INVARIANTS
    RowsNotOlder
    FreshAnswers
    LookupRight
    OnlyGoodFilesServe
CHECK_DEADLOCK FALSE

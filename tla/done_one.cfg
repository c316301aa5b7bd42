SPECIFICATION DoneSpec
CONSTANTS
    Agent = {a1}
    ReadOnly = {}
    Flag <- MCFlag
    NoCopy <- MCNoCopy
INVARIANTS
    DoneTypeOK
    CopyIsCurrent
PROPERTIES
    ClassesAreIsolated
    MarksAreKept

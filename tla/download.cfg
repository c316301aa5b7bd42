SPECIFICATION LiveSpec
CONSTANTS
    Agent = {"first"}
    Url = {"go", "gone"}
    Name <- TheName
    Nowhere = Nowhere
    Absent = {"gone"}
    CallsOf <- TheCalls
    Repeated <- Continuing
    MaxFaults = 2
INVARIANTS
    TypeOK
    MarkedIsWhole
    ReturnIsWhole
PROPERTIES
    WholeIsKept
    RaisesForCause
    StoreSpec
    Fetched

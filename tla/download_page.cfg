SPECIFICATION Spec
CONSTANTS
    Agent = {"first"}
    Url = {"go", "gone"}
    Name <- TheName
    Nowhere = Nowhere
    Absent = {"gone"}
    CallsOf <- PageCalls
    Repeated = {}
    MaxFaults = 1
INVARIANT MarkedIsWhole

SPECIFICATION Spec
CONSTANTS
    Agent = {a1, a2}
    ReadOnly = {}
    NoCopy <- MCNoCopy
    NoFact = NoFact
    Apps <- SharedApps
    Method <- MCMethod
    Body <- MCBody
    Flag <- MCFlag
    Fact <- MCFact
    Volatile <- MCVolatile
    Platform <- MCPlatform
    Arg <- MCArg
    OwnReset <- MCOwnReset
    Gained <- MCGained
    Kept <- MCKept
    Losing <- MCLosing
    Promised <- MCPromised
    Remembering <- MCRemembering
    Asked <- MaybeReset
    Playbook <- OneBook
    Insist = {}
    MaxFaults = 1
SYMMETRY Alike
INVARIANTS
    FlagSound
    CallsSound
PROPERTIES
    SuccessInstalls
    LedgerSpec

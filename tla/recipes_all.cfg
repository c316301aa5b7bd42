SPECIFICATION Spec
CONSTANTS
    Agent = {a1}
    ReadOnly = {}
    NoCopy <- MCNoCopy
    NoFact = NoFact
    Apps <- AllApps
    Method <- MCMethod
    Body <- MCBody
    Flag <- MCFlag
    Fact <- MCFact
    Volatile <- MCVolatile
    Platform <- MCPlatform
    Arg <- MCArg
    OwnReset <- MCOwnReset
    Gained <- MCGained
    Promised <- MCPromised
    Remembering <- MCRemembering
    Asked <- AnyArgs
    Playbook <- EachAlone
    Insist = {}
    MaxFaults = 1
INVARIANTS
    TypeOK
    FlagSound
PROPERTIES
    SuccessInstalls
    RemembersWork

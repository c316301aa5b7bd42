SPECIFICATION LiveSpec
CONSTANTS
    Agent = {a1}
    ReadOnly = {}
    NoCopy <- MCNoCopy
    NoFact = NoFact
    Apps <- AllApps
    Method <- MCMethod
    Body <- MCBody
    Flag <- MCFlag
    Fact <- MCFact
    Volatile <- MCVolatile
    Platform <- MCPlatform
    Arg <- MCArg
    OwnReset <- MCOwnReset
    Gained <- MCGained
    Kept <- MCKept
    Losing <- MCLosing
    Promised <- MCPromised
    Remembering <- MCRemembering
    Asked <- MaybeReset
    Playbook <- EachAlive
    Insist = {}
    MaxFaults = 1
PROPERTIES Converges

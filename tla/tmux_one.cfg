CONSTANTS
    Agent = {"first"}
    Session <- TheSession
    Main = "main"
    Name <- TheName
    Cmd <- TheCmd
    Pid = {p1, p2, p3, p4, p5}
    Nothing = Nothing
    MaxTyped = 1
    Chatty = {}
    Reecho = TRUE
    Calls <- OneScript
    Comm <- OwnComm
SPECIFICATION LiveSpec
INVARIANT TypeOK
INVARIANT OneWindow
INVARIANT ErrorIsReal
PROPERTY OnlyOwnWindows
PROPERTY ServicesSpec
PROPERTY CallEnds

CONSTANTS
    Agent = {"first"}
    Session <- TheSession
    Main = "main"
    Name <- TheName
    Cmd <- TheCmd
    Pid = {p1, p2, p3, p4, p5}
    Nothing = Nothing
    MaxTyped = 1
    Chatty = {}
    Reecho = FALSE
    Calls <- SameWindow
    Comm <- OwnComm
SPECIFICATION Spec
INVARIANT SuccessIsReal

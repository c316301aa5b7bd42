CONSTANTS
    Agent = {"first", "second"}
    Session <- TheSession
    Main = "main"
    Name <- TheName
    Cmd <- TheCmd
    Pid = {p1, p2, p3, p4, p5}
    Nothing = Nothing
    MaxTyped = 1
    Chatty = {"crm.py"}
    Reecho = TRUE
    Calls <- TwoScripts
    Comm <- OwnComm
SPECIFICATION Spec
INVARIANT OneWindow
INVARIANT StartsAgain

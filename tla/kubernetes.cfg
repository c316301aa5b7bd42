\* Two masters and two minions, and three things that go wrong.
CONSTANTS
    Masters = 2
    Minions = 2
    MaxFaults = 3
SPECIFICATION LiveSpec
INVARIANTS
    TypeOK
    CleanStart
    DoneIsCluster
PROPERTIES
    RaisesForCause
    OneAttempt
    Heals

CONSTANTS
    Tokens = {"a", "b"}
    Spectator = "spectator"
    Sockets <- MCSockets
    TokenOf <- MCTokenOf
    Workers = {"server"}
    MaxVersion = 3
SPECIFICATION Spec
INVARIANTS
    BehindOnlyIfUntold
    LiveSocketIsKept
PROPERTIES
    ViewsMoveForward
CHECK_DEADLOCK FALSE

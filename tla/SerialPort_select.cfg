CONSTANTS
    Users = {u1, u2}
    Initialisers = {u1}
    Task = Task
    Fds = {3, 4}
    MaxPending = 2
    Builds = {"posix"}
    NULL = NULL
SPECIFICATION FairSpec
PROPERTY CharacterIsEvent

CONSTANTS
    Users = {u1, u2}
    Initialisers = {u1}
    Task = Task
    Fds = {3, 4}
    MaxPending = 2
    Builds = {"posix", "windows"}
    NULL = NULL
SPECIFICATION FairSpec
INVARIANTS IoOnOwnPort NoDescriptorLost
PROPERTIES DestructionEnds WindowsCharacterIsEvent PosixCallsReturn

SPECIFICATION Spec
CONSTANTS
    BlockSize = 3
    Workers = {w1, w2}
    Dependencies <- FanInDeps
    MayFail = {1, 2}
    Restartable = {0, 1}
    UsizeMod = 8
SYMMETRY Symmetry
INVARIANTS
    TypeOK SingleExecutor NumValidatedExact StopConditionSound
    WaitInv NoneForgotten CounterInv BlockedInv NoneOverlooked AllFinishedAtExit
    LastLooksAgain
PROPERTIES StatusMachine ImplementsTaskBoard

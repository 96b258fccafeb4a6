SPECIFICATION ScheduledSpec
CONSTANTS
    BlockSize = 11
    Workers = {1, 2, 3, 4, 5}
    Accounts = {"a", "b", "c", "e", "f", "g", "h", "i", "j", "k", "l", "m"}
    Slots = {"r", "s", "x", "y"}
    Missing = Missing
    NoPriority = Missing
    TerminalDifficulty = 3
    GasLimitMax = 16
    StorageMayFail = FALSE
    NoAddress = "none"
    RpcBlock <- Chained
    SpecId <- MCSpecId
    BaseFee <- MCBaseFee
    Beneficiary <- MCBeneficiary
    Transactions <- MCTransactions
    ChainState <- MCChainState
    Dependencies <- MCDependencies
    MayFail = {}
    Restartable = {}
    UsizeMod = 16
INVARIANT NoneForgotten

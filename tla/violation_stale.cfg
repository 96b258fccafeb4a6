SPECIFICATION PevmSpec
CONSTANTS
    BlockSize = 3
    Workers = {w1, w2}
    Accounts = {"a", "b", "c", "d", "k", "m", "p"}
    Slots = {"s"}
    Missing = Missing
    NoPriority = Missing
    TerminalDifficulty = 3
    GasLimitMax = 16
    StorageMayFail = FALSE
    NoAddress = "none"
    RpcBlock <- Branch
    SpecId <- MCSpecId
    BaseFee <- MCBaseFee
    Beneficiary <- MCBeneficiary
    Transactions <- MCTransactions
    ChainState <- MCChainState
    Dependencies <- MCDependencies
    MayFail = {}
    Restartable = {}
    UsizeMod = 8
SYMMETRY Symmetry
PROPERTY StaleValidationNoEffect

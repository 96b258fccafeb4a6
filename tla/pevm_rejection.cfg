SPECIFICATION FairPevmSpec
CONSTANTS
    BlockSize = 4
    Workers = {w1, w2}
    Accounts = {"a", "b", "c", "e", "k", "m", "p"}
    Slots = {"s"}
    Missing = Missing
    NoPriority = Missing
    TerminalDifficulty = 3
    GasLimitMax = 16
    StorageMayFail = TRUE
    NoAddress = "none"
    RpcBlock <- Faulty
    SpecId <- MCSpecId
    BaseFee <- MCBaseFee
    Beneficiary <- MCBeneficiary
    Transactions <- MCTransactions
    ChainState <- MCChainState
    Dependencies <- MCDependencies
    MayFail = {}
    Restartable = {}
    UsizeMod = 8
INVARIANT NoFalseAcceptance
PROPERTY LeavesOrSpins

SPECIFICATION PevmSpec
CONSTANTS
    BlockSize = 5
    Workers = {w1, w2}
    Accounts = {"a", "b", "d", "k", "m", "p", "q"}
    Slots = {"s"}
    Missing = Missing
    NoPriority = Missing
    TerminalDifficulty = 3
    GasLimitMax = 16
    StorageMayFail = FALSE
    NoAddress = "none"
    RpcBlock <- Transfers
    SpecId <- MCSpecId
    BaseFee <- MCBaseFee
    Beneficiary <- MCBeneficiary
    Transactions <- MCTransactions
    ChainState <- MCChainState
    Dependencies <- MCDependencies
    MayFail = {}
    Restartable = {}
    UsizeMod = 8
SYMMETRY Symmetry
INVARIANTS NoPanic MinInv EvaluationSafe SerialEquivalence NoFalseRejection

SPECIFICATION Spec
CONSTANTS
    Callers = {c1, c2}
    Addresses = {"contract", "precompile", "new"}
    Indexes = {0}
    Numbers = {1}
    Precompiles = {"precompile"}
    ChainAccounts <- ChainAccountsDef
    ChainHashes <- ChainHashesDef
    Requests <- RequestsDef
    NoCode = NoCode
    NoRequest = NoRequest
    Error = Error
    Nobody = Nobody
INVARIANT SlotsKept
CHECK_DEADLOCK FALSE

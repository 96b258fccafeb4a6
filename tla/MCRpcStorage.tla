---------------------------- MODULE MCRpcStorage -----------------------------
(***************************************************************************)
(* A contract with a slot in use and one that is not, a precompile without *)
(* balance, and an address where the chain has nothing yet.                *)
(***************************************************************************)
EXTENDS RpcStorage, TLC

Account(balance, nonce, code, slot) ==
    [balance |-> balance, nonce |-> nonce, code |-> code,
     storage |-> [i \in Indexes |-> IF i = 0 THEN slot ELSE 0]]

ChainAccountsDef ==
    "contract" :> Account(5, 1, "code", 7)
        @@ "precompile" :> Account(0, 0, NoCode, 0)
        @@ "new" :> Account(0, 0, NoCode, 0)

ChainHashesDef == [n \in Numbers |-> <<"block", n>>]

Request(op, key, index) == [op |-> op, key |-> key, index |-> index]

RequestsDef ==
    {Request("basic", "contract", 0), Request("storage", "contract", 0),
     Request("is_contract", "precompile", 0),
     Request("basic", "new", 0), Request("storage", "new", 0),
     Request("block_hash", 1, 0)}

=============================================================================

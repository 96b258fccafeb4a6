--------------------------- MODULE InMemoryStorage ---------------------------
(***************************************************************************)
(* The storage that keeps the chain in memory                              *)
(* (src/src/storage/in_memory.rs): accounts and hashes are functions,      *)
(* accounts[a] = [basic, storage].                                         *)
(***************************************************************************)
EXTENDS Accounts

\* A hash that is not known is made from the number, as REVM's EmptyDB does.
MadeUpHash(number) == <<"made up", number>>

MemBasic(accounts, a) ==
    IF a \in DOMAIN accounts THEN accounts[a].basic ELSE NoAccount

MemIsContract(accounts, a) ==
    a \in DOMAIN accounts /\ accounts[a].basic.code # NoCode

\* Any account with the hash will do.
MemCodeByHash(accounts, hash) ==
    LET found == {a \in DOMAIN accounts : accounts[a].basic.code_hash = hash}
    IN  IF found = {} THEN NoCode ELSE accounts[CHOOSE a \in found : TRUE].basic.code

MemHasStorage(accounts, a) ==
    a \in DOMAIN accounts /\ DOMAIN accounts[a].storage # {}

MemStorage(accounts, a, i) ==
    IF a \in DOMAIN accounts /\ i \in DOMAIN accounts[a].storage
    THEN accounts[a].storage[i] ELSE 0

MemBlockHash(hashes, number) ==
    IF number \in DOMAIN hashes THEN hashes[number] ELSE MadeUpHash(number)

=============================================================================

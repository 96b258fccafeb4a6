------------------------------ MODULE Accounts -------------------------------
(***************************************************************************)
(* The accounts a storage hands out, and their conversions from and to     *)
(* those of REVM (src/src/storage.rs).  A code is a model value; raw and   *)
(* analysed forms of one code are not told apart.                          *)
(***************************************************************************)
EXTENDS Naturals

CONSTANT NoCode

\* The absent Option, of an account and of a hash.
NoAccount == [none |-> "account"]
NoHash    == <<"no hash">>

Hash(code) == <<"hash", code>>

AccountBasic(balance, nonce, code, code_hash) ==
    [balance |-> balance, nonce |-> nonce, code |-> code, code_hash |-> code_hash]

\* AccountBasic::is_empty.
IsEmpty(basic) == basic.balance = 0 /\ basic.nonce = 0 /\ basic.code = NoCode

\* The default implementation of Storage::is_contract, from what basic returns.
IsContract(account) == account # NoAccount /\ account.code # NoCode

\* An AccountInfo of REVM always has a code hash.  Its code is the empty code
\* when there is none, and may be left out, to be loaded by its hash.
EmptyCode == "empty"
Unloaded  == "unloaded"

\* From<AccountBasic> for AccountInfo.
InfoOf(basic) ==
    LET code == IF basic.code = NoCode THEN EmptyCode ELSE basic.code
    IN  [balance |-> basic.balance, nonce |-> basic.nonce, code |-> code,
         code_hash |-> IF basic.code_hash = NoHash THEN Hash(code)
                                                   ELSE basic.code_hash]

\* From<AccountInfo> for AccountBasic.
BasicOf(info) ==
    LET code == IF info.code \in {EmptyCode, Unloaded} THEN NoCode ELSE info.code
    IN  AccountBasic(info.balance, info.nonce, code,
                     IF code = NoCode THEN NoHash ELSE info.code_hash)

\* An EvmAccount is made of a basic without storage, and goes to a
\* PlainAccount of REVM and back.
EvmAccount(basic)  == [basic |-> basic, storage |-> <<>>]
PlainOf(account)   == [info |-> InfoOf(account.basic), storage |-> account.storage]
AccountOf(plain)   == [basic |-> BasicOf(plain.info), storage |-> plain.storage]

\* What basic returns when the storage is wrapped as a database of REVM
\* (StorageWrapper) and the database is used as a storage again.
Wrapped(account) ==
    IF account = NoAccount THEN NoAccount ELSE BasicOf(InfoOf(account))

=============================================================================

----------------------------- MODULE MCAccounts -----------------------------
(* Instances of Accounts for TLC. *)
EXTENDS Accounts, TLC

\* Requests, ids, addresses and passwords are interchangeable.
Interchangeable == Permutations(Proc) \cup Permutations(Account)
                       \cup Permutations(Password) \cup Permutations(Address)
=============================================================================

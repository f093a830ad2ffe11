----------------------------- MODULE MCAuthAPI -----------------------------
(* Instances of AuthAPI for TLC. *)
EXTENDS AuthAPI, TLC

Interchangeable == Permutations(Token) \cup Permutations(Proc)
                       \cup Permutations(User)
=============================================================================

--------------------------- MODULE MCAuthService ---------------------------
(* Instances of AuthService for TLC. *)
EXTENDS AuthService, TLC

\* Tokens and request slots are interchangeable: no definition of AuthService
\* names one of them or orders them.
TokensAndSlots == Permutations(Token) \cup Permutations(Proc)
=============================================================================

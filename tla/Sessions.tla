------------------------------ MODULE Sessions ------------------------------
(***************************************************************************)
(* What the refresh-token store promises its callers: a session is opened  *)
(* once, with one token; at any time at most one token can be exchanged    *)
(* for its successor; a token is issued once, to one session; and a        *)
(* session that has been closed stays closed.                              *)
(*                                                                         *)
(* holder[s] is the set of tokens that can be exchanged in session s.      *)
(***************************************************************************)
CONSTANT Token

VARIABLES holder, issued

vars == <<holder, issued>>

Init == /\ holder = [s \in Token |-> {}]
        /\ issued = {}

\* A sign-in opens a session named by its first token.
Open(s) == /\ s \notin issued
           /\ issued' = issued \cup {s}
           /\ holder' = [holder EXCEPT ![s] = {s}]

\* A refresh exchanges the session's token for one never issued before.
Rotate(s, t, n) == /\ n \notin issued
                   /\ issued' = issued \cup {n}
                   /\ holder[s] = {t}
                   /\ holder' = [holder EXCEPT ![s] = {n}]

\* A logout, a revocation or a detected replay.
Close(s) == /\ holder[s] # {}
            /\ UNCHANGED issued
            /\ holder' = [holder EXCEPT ![s] = {}]

Next == \E s \in Token : \/ Open(s)
                         \/ \E n \in Token, t \in holder[s] : Rotate(s, t, n)
                         \/ Close(s)

Spec == Init /\ [][Next]_vars
=============================================================================

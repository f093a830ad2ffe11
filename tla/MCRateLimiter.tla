--------------------------- MODULE MCRateLimiter ---------------------------
(* Instances of RateLimiter for TLC. *)
EXTENDS RateLimiter, TLC

CONSTANTS p1, p2, c1, c2

\* Each slot serves one client: a client's requests come one after the other.
OneSlotPerClient == p1 :> {c1} @@ p2 :> {c2}

\* Both slots may serve the same client at once.
AnySlot == [p \in Proc |-> Key]
=============================================================================

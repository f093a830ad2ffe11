---------------------------- MODULE RateLimiter ----------------------------
(***************************************************************************)
(* The fixed-window rate limiter in front of sign-in, sign-up and refresh. *)
(*                                                                         *)
(* The map of visitors is guarded by a mutex, so visitorFor is one step.   *)
(* allow works on the visitor it was handed without the mutex: every       *)
(* access to windowStarted and to requests is a step of its own, and other *)
(* requests of the same client, or the eviction of the visitor, may come   *)
(* in between.  Time may pass anywhere.                                    *)
(***************************************************************************)
EXTENDS Integers, Sequences, FiniteSets

CONSTANTS Key,        \* clients: values of r.RemoteAddr
          Proc,       \* requests being served at the same time
          KeysOf,     \* KeysOf[p]: the clients whose requests p may be
          Visitor,    \* addresses of visitor structs
          Requests, Window, Burst,   \* RateLimitConfig
          MaxTime,    \* bound on the clock
          NoVisitor, NoKey

ASSUME ConfigAssumption == /\ Requests \in Int
                           /\ Burst \in Int
                           /\ Window \in Nat \ {0}
                           /\ MaxTime \in Nat
                           /\ KeysOf \in [Proc -> SUBSET Key]
                           /\ NoVisitor \notin Visitor
                           /\ NoKey \notin Key
                           /\ IsFiniteSet(Key) /\ IsFiniteSet(Proc) /\ IsFiniteSet(Visitor)
                           /\ Cardinality(Visitor) >= Cardinality(Key) + Cardinality(Proc)

VARIABLES visitors,   \* visitors[k]: the entry of l.visitors for k
          heap,       \* heap[v]: the visitor struct at v
          clock,      \* time.Now()
          pc, key, ptr, now, seen,   \* locals of the request p
          admitted,   \* history: the "now" of each request of k let through, in order
          refused     \* history: the last refusal, its client and its "now"

vars == <<visitors, heap, clock, pc, key, ptr, now, seen, admitted, refused>>

\* NewRateLimiter fills in what the configuration leaves out; allow takes the
\* larger of the two numbers.
Limit == LET requests == IF Requests =< 0 THEN 5 ELSE Requests
             burst    == IF Burst =< 0 THEN requests ELSE Burst
         IN  IF burst > requests THEN burst ELSE requests

Time == 0..MaxTime

NoRefusal == [key |-> NoKey, at |-> 0]

\* Increments that cross a new window may take the count past any limit.
TypeOK == /\ visitors \in [Key -> Visitor \cup {NoVisitor}]
          /\ heap \in [Visitor -> [started : Time, lastSeen : Time, requests : Nat]]
          /\ clock \in Time
          /\ pc \in [Proc -> {"idle", "now", "window", "start", "zero", "limit",
                              "load", "store"}]
          /\ key \in [Proc -> Key \cup {NoKey}]
          /\ ptr \in [Proc -> Visitor \cup {NoVisitor}]
          /\ now \in [Proc -> Time]
          /\ seen \in [Proc -> Nat]
          /\ admitted \in [Key -> Seq(Time)]
          /\ refused \in [key : Key \cup {NoKey}, at : Time]

Init == /\ visitors = [k \in Key |-> NoVisitor]
        /\ heap = [v \in Visitor |-> [started |-> 0, lastSeen |-> 0, requests |-> 0]]
        /\ clock = 0
        /\ pc = [p \in Proc |-> "idle"]
        /\ key = [p \in Proc |-> NoKey]
        /\ ptr = [p \in Proc |-> NoVisitor]
        /\ now = [p \in Proc |-> 0]
        /\ seen = [p \in Proc |-> 0]
        /\ admitted = [k \in Key |-> <<>>]
        /\ refused = NoRefusal

-----------------------------------------------------------------------------

Goto(p, label) == pc' = [pc EXCEPT ![p] = label]

Entries == {k \in Key : visitors[k] # NoVisitor}

\* Clients not seen for more than a window lose their entry.
Evicted == {k \in Entries : clock - heap[visitors[k]].lastSeen > Window}

\* Memory neither the map nor a request refers to.
Free == Visitor \ ({visitors[k] : k \in Entries} \cup {ptr[p] : p \in Proc})

Visit(p, k, v, entry) ==
    /\ heap' = [heap EXCEPT ![v] = entry]
    /\ visitors' = [j \in Key |-> IF j = k THEN v
                                  ELSE IF j \in Evicted THEN NoVisitor
                                  ELSE visitors[j]]
    /\ key' = [key EXCEPT ![p] = k]
    /\ ptr' = [ptr EXCEPT ![p] = v]
    /\ Goto(p, "now")
    /\ UNCHANGED <<clock, now, seen, admitted, refused>>

\* An entry whose lastSeen is never renewed.
visitorForUnseen(p, k) ==
    /\ pc[p] = "idle"
    /\ \/ /\ k \in Entries \ Evicted
          /\ Visit(p, k, visitors[k], heap[visitors[k]])
       \/ /\ k \notin Entries \ Evicted
          /\ Visit(p, k, CHOOSE v \in Free : TRUE,
                   [started |-> clock, lastSeen |-> clock, requests |-> 0])

visitorFor(p, k) ==
    /\ pc[p] = "idle"
    /\ \/ /\ k \in Entries \ Evicted
          /\ Visit(p, k, visitors[k], [heap[visitors[k]] EXCEPT !.lastSeen = clock])
       \/ /\ k \notin Entries \ Evicted
          /\ Visit(p, k, CHOOSE v \in Free : TRUE,
                   [started |-> clock, lastSeen |-> clock, requests |-> 0])

-----------------------------------------------------------------------------
(***************************************************************************)
(* allow, one access at a time.                                            *)
(***************************************************************************)

ReadClock(p) == /\ pc[p] = "now"
                /\ now' = [now EXCEPT ![p] = clock]
                /\ Goto(p, "window")
                /\ UNCHANGED <<visitors, heap, clock, key, ptr, seen, admitted, refused>>

CheckWindow(p) ==
    /\ pc[p] = "window"
    /\ Goto(p, IF now[p] - heap[ptr[p]].started >= Window THEN "start" ELSE "limit")
    /\ UNCHANGED <<visitors, heap, clock, key, ptr, now, seen, admitted, refused>>

\* The end of the window in place of its start.
StartWindowAtEnd(p) ==
    /\ pc[p] = "start"
    /\ heap' = [heap EXCEPT ![ptr[p]].started = now[p] + Window]
    /\ Goto(p, "zero")
    /\ UNCHANGED <<visitors, clock, key, ptr, now, seen, admitted, refused>>

StartWindow(p) ==
    /\ pc[p] = "start"
    /\ heap' = [heap EXCEPT ![ptr[p]].started = now[p]]
    /\ Goto(p, "zero")
    /\ UNCHANGED <<visitors, clock, key, ptr, now, seen, admitted, refused>>

\* A new window that keeps the old count.
KeepCount(p) ==
    /\ pc[p] = "zero"
    /\ Goto(p, "limit")
    /\ UNCHANGED <<visitors, heap, clock, key, ptr, now, seen, admitted, refused>>

ZeroCount(p) ==
    /\ pc[p] = "zero"
    /\ heap' = [heap EXCEPT ![ptr[p]].requests = 0]
    /\ Goto(p, "limit")
    /\ UNCHANGED <<visitors, clock, key, ptr, now, seen, admitted, refused>>

Leave(p) == /\ Goto(p, "idle")
            /\ key' = [key EXCEPT ![p] = NoKey]
            /\ ptr' = [ptr EXCEPT ![p] = NoVisitor]
            /\ now' = [now EXCEPT ![p] = 0]
            /\ seen' = [seen EXCEPT ![p] = 0]

Refuse(p) ==
    /\ pc[p] = "limit"
    /\ heap[ptr[p]].requests >= Limit
    /\ refused' = [key |-> key[p], at |-> now[p]]
    /\ Leave(p)
    /\ UNCHANGED <<visitors, heap, clock, admitted>>

\* No limit at all.
NeverFull(p) ==
    /\ pc[p] = "limit"
    /\ seen' = [seen EXCEPT ![p] = heap[ptr[p]].requests]
    /\ Goto(p, "load")
    /\ UNCHANGED <<visitors, heap, clock, key, ptr, now, admitted, refused>>

NotFull(p) ==
    /\ pc[p] = "limit"
    /\ heap[ptr[p]].requests < Limit
    /\ seen' = [seen EXCEPT ![p] = heap[ptr[p]].requests]
    /\ Goto(p, "load")
    /\ UNCHANGED <<visitors, heap, clock, key, ptr, now, admitted, refused>>

\* v.requests++ may use the value just compared or read the field again.
LoadCount(p) ==
    /\ pc[p] = "load"
    /\ \/ UNCHANGED seen
       \/ seen' = [seen EXCEPT ![p] = heap[ptr[p]].requests]
    /\ Goto(p, "store")
    /\ UNCHANGED <<visitors, heap, clock, key, ptr, now, admitted, refused>>

StoreCount(p) ==
    /\ pc[p] = "store"
    /\ heap' = [heap EXCEPT ![ptr[p]].requests = seen[p] + 1]
    /\ admitted' = [admitted EXCEPT ![key[p]] = Append(@, now[p])]
    /\ Leave(p)
    /\ UNCHANGED <<visitors, clock, refused>>

Tick == /\ clock < MaxTime
        /\ clock' = clock + 1
        /\ UNCHANGED <<visitors, heap, pc, key, ptr, now, seen, admitted, refused>>

allow(p) == \/ ReadClock(p)
            \/ CheckWindow(p)
            \/ StartWindow(p)
            \/ ZeroCount(p)
            \/ Refuse(p)
            \/ NotFull(p)
            \/ LoadCount(p)
            \/ StoreCount(p)

Next == \/ \E p \in Proc : allow(p) \/ \E k \in KeysOf[p] : visitorFor(p, k)
        \/ Tick

Spec == Init /\ [][Next]_vars

-----------------------------------------------------------------------------
(***************************************************************************)
(* Properties.                                                             *)
(***************************************************************************)

\* Clients whose requests are served one after the other; others may race.
OneAtATime(k) == \A p, q \in Proc : k \in KeysOf[p] \cap KeysOf[q] => p = q

\* Requests of k let through in the interval of length Window that ends at t.
AdmittedUpTo(k, t) ==
    Cardinality({i \in DOMAIN admitted[k] : /\ admitted[k][i] > t - Window
                                            /\ admitted[k][i] =< t})

\* A client whose requests are served one at a time gets at most twice the
\* limit through in any interval as long as a window, wherever the windows
\* begin, whatever entries are evicted meanwhile and however other clients race.
BurstBound ==
    \A k \in Key, t \in Time : OneAtATime(k) => AdmittedUpTo(k, t) =< 2 * Limit

\* Such a client is refused only when it has used up the limit within the last
\* window: neither an old window nor a refusal counts against it.
RefusedOnlyWhenFull ==
    refused.key # NoKey /\ OneAtATime(refused.key) =>
        AdmittedUpTo(refused.key, refused.at) >= Limit

\* rate_limit_test.go: the request after the limit is answered with 429.  All
\* requests of a client that arrive within one window.
AtMostLimit == clock < Window => \A k \in Key : AdmittedUpTo(k, clock) =< Limit

-----------------------------------------------------------------------------
(***************************************************************************)
(* The inductive invariant behind BurstBound and RefusedOnlyWhenFull.      *)
(***************************************************************************)

\* A visitor struct belongs to one client, in the map and in every request.
OwnInv ==
    /\ \A p \in Proc : /\ key[p] \in KeysOf[p] \cup {NoKey}
                       /\ pc[p] = "idle" <=> key[p] = NoKey
                       /\ pc[p] = "idle" <=> ptr[p] = NoVisitor
    /\ \A p, q \in Proc : ptr[p] = ptr[q] => key[p] = key[q]
    /\ \A p \in Proc : \A k \in Entries : visitors[k] = ptr[p] => key[p] = k
    /\ \A j, k \in Entries : visitors[j] = visitors[k] => j = k

\* All but the last n entries of the log are dated t or earlier.
AllBut(log, n, t) == \A i \in DOMAIN log : i =< Len(log) - n => log[i] =< t

\* The last r entries are those of the window that began at s; of the entries
\* before it no more than Limit are within a window of s.
Counted(log, s, r) ==
    /\ r =< Limit
    /\ r =< Len(log)
    /\ \A i \in DOMAIN log : i > Len(log) - r => log[i] >= s
    /\ AllBut(log, r, s)
    /\ AllBut(log, r + Limit, s - Window)

\* Entries that are 2 * Limit apart are a window apart.
Spaced(log) ==
    \A i, j \in DOMAIN log : j >= i + 2 * Limit => log[i] + Window =< log[j]

\* Limit entries within a window that ends at t: a refusal at t is justified.
Full(log, t) ==
    \E a \in DOMAIN log : /\ a + Limit =< Len(log) + 1
                          /\ \A i \in a..(a + Limit - 1) : /\ log[i] > t - Window
                                                           /\ log[i] =< t

\* Between two requests of k.  Its last request may be dated later than its entry
\* was last seen, and the entry be evicted all the same.
Rested(k) ==
    IF visitors[k] = NoVisitor
      THEN AllBut(admitted[k], Limit, clock - Window)
      ELSE LET v == heap[visitors[k]] IN
           /\ v.started =< clock
           /\ Counted(admitted[k], v.started, v.requests)
           /\ AllBut(admitted[k], 1, v.lastSeen)

\* While p serves k.  A new window that has yet to be counted from 0 counts as 0.
Served(k, p) ==
    LET v == heap[ptr[p]] IN
    /\ v.started =< clock
    /\ Counted(admitted[k], v.started, IF pc[p] = "zero" THEN 0 ELSE v.requests)
    /\ AllBut(admitted[k], 0, v.lastSeen)
    /\ visitors[k] \in {ptr[p], NoVisitor}
    /\ visitors[k] = NoVisitor => AllBut(admitted[k], 0, clock - Window)
    /\ pc[p] # "now" => /\ v.started =< now[p] /\ now[p] =< clock
                        /\ AllBut(admitted[k], 0, now[p])
    /\ pc[p] = "start" => now[p] - v.started >= Window
    /\ pc[p] \in {"zero", "limit", "load", "store"} => now[p] - v.started < Window
    /\ pc[p] \in {"load", "store"} => seen[p] = v.requests /\ seen[p] < Limit

ClientInv(k) ==
    /\ AllBut(admitted[k], 0, clock)
    /\ Spaced(admitted[k])
    /\ refused.key = k => Full(admitted[k], refused.at)
    /\ (\A p \in Proc : key[p] # k) => Rested(k)
    /\ \A p \in Proc : key[p] = k => Served(k, p)

\* Clients served one at a time are counted right, at every step of a request.
LimiterInv == /\ TypeOK
              /\ OwnInv
              /\ \A k \in Key : OneAtATime(k) => ClientInv(k)
=============================================================================

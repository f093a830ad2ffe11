------------------------- MODULE RateLimiterProofs -------------------------
(***************************************************************************)
(* Proofs about RateLimiter: what a client served one request at a time    *)
(* may count on, whatever the other clients do.                            *)
(***************************************************************************)
EXTENDS RateLimiter, FiniteSetTheorems, TLAPS

LEMMA LimitPositive == Limit \in Nat \ {0}
  BY ConfigAssumption DEF Limit

LEMMA WindowPositive == Window \in Nat \ {0}
  BY ConfigAssumption

LEMMA TimeNat == /\ Time \subseteq Nat
                 /\ 0 \in Time
                 /\ \A t \in Time : t < MaxTime => t + 1 \in Time
  BY ConfigAssumption DEF Time

-----------------------------------------------------------------------------
(***************************************************************************)
(* Types.                                                                  *)
(***************************************************************************)

LEMMA StateTypes ==
    ASSUME TypeOK
    PROVE  /\ clock \in Nat
           /\ \A k \in Key : admitted[k] \in Seq(Time)
           /\ \A v \in Visitor : /\ heap[v].started \in Time /\ heap[v].started \in Nat
                                 /\ heap[v].lastSeen \in Time /\ heap[v].lastSeen \in Nat
                                 /\ heap[v].requests \in Nat
           /\ \A p \in Proc : now[p] \in Time /\ now[p] \in Nat /\ seen[p] \in Nat
           /\ \A k \in Key : visitors[k] \in Visitor \cup {NoVisitor}
<1>1. /\ clock \in Time
      /\ \A p \in Proc : now[p] \in Time /\ seen[p] \in Nat
      /\ \A k \in Key : admitted[k] \in Seq(Time)
      /\ \A k \in Key : visitors[k] \in Visitor \cup {NoVisitor}
  BY DEF TypeOK
<1>2. \A v \in Visitor : heap[v] \in [started : Time, lastSeen : Time, requests : Nat]
  BY DEF TypeOK
<1>3. \A v \in Visitor : /\ heap[v].started \in Time /\ heap[v].lastSeen \in Time
                         /\ heap[v].requests \in Nat
  BY <1>2
<1> QED
  BY <1>1, <1>3, TimeNat

\* The heap always has room for another visitor: an idle request refers to none.
LEMMA FreeVisitor ==
    ASSUME TypeOK, OwnInv, NEW p \in Proc, pc[p] = "idle"
    PROVE  \E v \in Visitor : v \in Free
<1> DEFINE Mapped == {visitors[k] : k \in Entries}
           Held   == {ptr[q] : q \in Proc}
<1>1. IsFiniteSet(Entries) /\ Cardinality(Entries) =< Cardinality(Key)
  BY ConfigAssumption, FS_Subset DEF Entries
<1>2. IsFiniteSet(Mapped) /\ Cardinality(Mapped) =< Cardinality(Entries)
  <2>1. [k \in Entries |-> visitors[k]] \in Surjection(Entries, Mapped)
    BY DEF Surjection
  <2> QED
    BY <1>1, <2>1, FS_Surjection
<1>3. IsFiniteSet(Held) /\ Cardinality(Held) =< Cardinality(Proc)
  <2>1. [q \in Proc |-> ptr[q]] \in Surjection(Proc, Held)
    BY DEF Surjection
  <2> QED
    BY ConfigAssumption, <2>1, FS_Surjection
<1>4. NoVisitor \in Held
  BY DEF OwnInv
<1> HIDE DEF Mapped, Held
<1>5. /\ IsFiniteSet(Held \ {NoVisitor})
      /\ Cardinality(Held \ {NoVisitor}) = Cardinality(Held) - 1
  BY <1>3, <1>4, FS_RemoveElement
<1> DEFINE Used == Mapped \cup (Held \ {NoVisitor})
<1>6. IsFiniteSet(Used) /\ Cardinality(Used) < Cardinality(Key) + Cardinality(Proc)
  <2>1. /\ Cardinality(Key) \in Nat /\ Cardinality(Proc) \in Nat
        /\ Cardinality(Entries) \in Nat
        /\ Cardinality(Mapped) \in Nat /\ Cardinality(Held) \in Nat
    BY ConfigAssumption, <1>1, <1>2, <1>3, FS_CardinalityType
  <2>2. /\ IsFiniteSet(Mapped \cap (Held \ {NoVisitor}))
        /\ Cardinality(Mapped \cap (Held \ {NoVisitor})) \in Nat
    BY <1>2, FS_Intersection, FS_CardinalityType
  <2>3. /\ IsFiniteSet(Used)
        /\ Cardinality(Used) = Cardinality(Mapped) + Cardinality(Held \ {NoVisitor})
                                 - Cardinality(Mapped \cap (Held \ {NoVisitor}))
    BY <1>2, <1>5, FS_Union
  <2> QED
    BY <1>1, <1>2, <1>3, <1>5, <2>1, <2>2, <2>3
<1>7. ~(Visitor \subseteq Used)
  <2> SUFFICES ASSUME Visitor \subseteq Used PROVE FALSE
    OBVIOUS
  <2>1. Cardinality(Visitor) =< Cardinality(Used)
    BY <1>6, FS_Subset
  <2>2. /\ Cardinality(Key) \in Nat /\ Cardinality(Proc) \in Nat
        /\ Cardinality(Used) \in Nat /\ Cardinality(Visitor) \in Nat
    BY ConfigAssumption, <1>6, FS_CardinalityType
  <2> QED
    BY ConfigAssumption, <1>6, <2>1, <2>2
<1> QED
  BY <1>7, ConfigAssumption DEF Free, Mapped, Held, Used

\* The visitor visitorFor hands out: the entry of k, or a struct nobody refers to.
LEMMA VisitorFor ==
    ASSUME TypeOK, OwnInv, NEW p \in Proc, NEW k \in KeysOf[p], visitorFor(p, k)
    PROVE  /\ pc[p] = "idle"
           /\ k \in Key
           /\ \E v \in Visitor, e \in [started : Time, lastSeen : Time, requests : Nat] :
                /\ Visit(p, k, v, e)
                /\ e.lastSeen = clock
                /\ \/ /\ k \in Entries \ Evicted
                      /\ v = visitors[k]
                      /\ e.started = heap[v].started
                      /\ e.requests = heap[v].requests
                   \/ /\ k \notin Entries \ Evicted
                      /\ v \in Free
                      /\ e.started = clock
                      /\ e.requests = 0
<1>1. pc[p] = "idle" /\ k \in Key
  BY ConfigAssumption DEF visitorFor
<1>2. CASE /\ k \in Entries \ Evicted
           /\ Visit(p, k, visitors[k], [heap[visitors[k]] EXCEPT !.lastSeen = clock])
  <2> DEFINE e == [heap[visitors[k]] EXCEPT !.lastSeen = clock]
  <2>1. visitors[k] \in Visitor
    BY <1>1, <1>2 DEF Entries, TypeOK
  <2>2. /\ e \in [started : Time, lastSeen : Time, requests : Nat]
        /\ e.lastSeen = clock
        /\ e.started = heap[visitors[k]].started
        /\ e.requests = heap[visitors[k]].requests
    BY <2>1 DEF TypeOK
  <2> QED
    BY <1>1, <1>2, <2>1, <2>2
<1>3. CASE /\ k \notin Entries \ Evicted
           /\ Visit(p, k, CHOOSE v \in Free : TRUE,
                    [started |-> clock, lastSeen |-> clock, requests |-> 0])
  <2>1. (CHOOSE v \in Free : TRUE) \in Free
    BY <1>1, FreeVisitor
  <2>2. [started |-> clock, lastSeen |-> clock, requests |-> 0]
            \in [started : Time, lastSeen : Time, requests : Nat]
    BY DEF TypeOK
  <2> QED
    BY <1>1, <1>3, <2>1, <2>2 DEF Free
<1> QED
  BY <1>1, <1>2, <1>3 DEF visitorFor

\* A request being served has a client and a visitor of its own.
LEMMA Busy ==
    ASSUME TypeOK, OwnInv, NEW p \in Proc, pc[p] # "idle"
    PROVE  /\ key[p] \in KeysOf[p] /\ key[p] \in Key
           /\ ptr[p] \in Visitor
           /\ heap[ptr[p]] \in [started : Time, lastSeen : Time, requests : Nat]
  BY ConfigAssumption DEF TypeOK, OwnInv

\* What a step of allow leaves alone.
LEMMA AllowFrame ==
    ASSUME TypeOK, OwnInv, NEW p \in Proc, allow(p)
    PROVE  /\ pc[p] # "idle"
           /\ visitors' = visitors /\ clock' = clock
           /\ \A v \in Visitor : /\ v # ptr[p] => heap'[v] = heap[v]
                                 /\ heap'[v].lastSeen = heap[v].lastSeen
           /\ \A q \in Proc : q # p => /\ pc'[q] = pc[q] /\ key'[q] = key[q]
                                       /\ ptr'[q] = ptr[q] /\ now'[q] = now[q]
                                       /\ seen'[q] = seen[q]
           /\ \A k \in Key : k # key[p] => admitted'[k] = admitted[k]
           /\ refused' = refused \/ refused'.key = key[p]
           /\ \/ pc'[p] # "idle" /\ key'[p] = key[p] /\ ptr'[p] = ptr[p]
              \/ pc'[p] = "idle" /\ key'[p] = NoKey /\ ptr'[p] = NoVisitor
<1>1. CASE ReadClock(p) \/ CheckWindow(p) \/ NotFull(p) \/ LoadCount(p)
  BY <1>1 DEF TypeOK, ReadClock, CheckWindow, NotFull, LoadCount, Goto
<1>2. CASE StartWindow(p)
  BY <1>2, Busy DEF TypeOK, StartWindow, Goto
<1>3. CASE ZeroCount(p)
  BY <1>3, Busy DEF TypeOK, ZeroCount, Goto
<1>4. CASE Refuse(p)
  BY <1>4 DEF TypeOK, Refuse, Leave, Goto
<1>5. CASE StoreCount(p)
  BY <1>5, Busy DEF TypeOK, StoreCount, Leave, Goto
<1> QED
  BY <1>1, <1>2, <1>3, <1>4, <1>5 DEF allow

LEMMA AllowTypes ==
    ASSUME TypeOK, OwnInv, NEW p \in Proc, allow(p)
    PROVE  TypeOK'
<1>0. /\ pc[p] # "idle" /\ key[p] \in Key /\ ptr[p] \in Visitor
      /\ heap[ptr[p]] \in [started : Time, lastSeen : Time, requests : Nat]
      /\ now[p] \in Time /\ seen[p] \in Nat
  BY AllowFrame, Busy DEF TypeOK
<1>1. CASE ReadClock(p)
  BY <1>1 DEF TypeOK, ReadClock, Goto
<1>2. CASE CheckWindow(p)
  BY <1>2 DEF TypeOK, CheckWindow, Goto
<1>3. CASE StartWindow(p)
  BY <1>0, <1>3 DEF TypeOK, StartWindow, Goto
<1>4. CASE ZeroCount(p)
  BY <1>0, <1>4 DEF TypeOK, ZeroCount, Goto
<1>5. CASE Refuse(p)
  BY <1>0, <1>5, TimeNat DEF TypeOK, Refuse, Leave, Goto
<1>6. CASE NotFull(p)
  BY <1>0, <1>6 DEF TypeOK, NotFull, Goto
<1>7. CASE LoadCount(p)
  BY <1>0, <1>7 DEF TypeOK, LoadCount, Goto
<1>8. CASE StoreCount(p)
  <2>1. [heap[ptr[p]] EXCEPT !.requests = seen[p] + 1]
            \in [started : Time, lastSeen : Time, requests : Nat]
    BY <1>0
  <2>2. heap' \in [Visitor -> [started : Time, lastSeen : Time, requests : Nat]]
    BY <1>0, <1>8, <2>1 DEF TypeOK, StoreCount
  <2>3. Append(admitted[key[p]], now[p]) \in Seq(Time)
    BY <1>0 DEF TypeOK
  <2>4. admitted' \in [Key -> Seq(Time)]
    BY <1>0, <1>8, <2>3 DEF TypeOK, StoreCount
  <2> QED
    BY <1>8, <2>2, <2>4, TimeNat DEF TypeOK, StoreCount, Leave, Goto
<1> QED
  BY <1>1, <1>2, <1>3, <1>4, <1>5, <1>6, <1>7, <1>8 DEF allow

LEMMA VisitTypes ==
    ASSUME TypeOK, OwnInv, NEW p \in Proc, NEW k \in KeysOf[p], visitorFor(p, k)
    PROVE  TypeOK'
<1>1. PICK v \in Visitor, e \in [started : Time, lastSeen : Time, requests : Nat] :
          k \in Key /\ Visit(p, k, v, e)
  BY VisitorFor
<1>2. visitors' \in [Key -> Visitor \cup {NoVisitor}]
  BY <1>1 DEF TypeOK, Visit
<1> QED
  BY <1>1, <1>2 DEF TypeOK, Visit, Goto

-----------------------------------------------------------------------------
(***************************************************************************)
(* Ownership.                                                              *)
(***************************************************************************)

LEMMA AllowOwn ==
    ASSUME TypeOK, OwnInv, NEW p \in Proc, allow(p)
    PROVE  OwnInv'
<1>1. Entries' = Entries /\ visitors' = visitors
  BY AllowFrame DEF Entries
<1>2. \A q \in Proc : \/ pc'[q] = pc[q] /\ key'[q] = key[q] /\ ptr'[q] = ptr[q]
                      \/ /\ pc[q] # "idle" /\ pc'[q] # "idle"
                         /\ key'[q] = key[q] /\ ptr'[q] = ptr[q]
                      \/ /\ pc'[q] = "idle"
                         /\ key'[q] = NoKey /\ ptr'[q] = NoVisitor
  BY AllowFrame
<1>3. \A q \in Proc : /\ key'[q] \in KeysOf[q] \cup {NoKey}
                      /\ pc'[q] = "idle" <=> key'[q] = NoKey
                      /\ pc'[q] = "idle" <=> ptr'[q] = NoVisitor
  BY <1>2 DEF OwnInv
<1>4. \A q, r \in Proc : ptr'[q] = ptr'[r] => key'[q] = key'[r]
  BY <1>2, <1>3 DEF OwnInv
<1>5. \A q \in Proc : \A j \in Entries : visitors[j] = ptr'[q] => key'[q] = j
  BY <1>2, <1>3 DEF OwnInv, Entries
<1> QED
  BY <1>1, <1>3, <1>4, <1>5 DEF OwnInv

LEMMA VisitOwn ==
    ASSUME TypeOK, OwnInv, NEW p \in Proc, NEW k \in KeysOf[p], visitorFor(p, k)
    PROVE  OwnInv'
<1>1. PICK v \in Visitor, e \in [started : Time, lastSeen : Time, requests : Nat] :
          /\ pc[p] = "idle" /\ k \in Key /\ Visit(p, k, v, e)
          /\ \/ k \in Entries \ Evicted /\ v = visitors[k]
             \/ k \notin Entries \ Evicted /\ v \in Free
  BY VisitorFor
<1>2. /\ v # NoVisitor /\ k # NoKey
      /\ \A q \in Proc : ptr[q] = v => key[q] = k
      /\ \A j \in Entries : visitors[j] = v => j = k
  BY <1>1, ConfigAssumption DEF OwnInv, Free
<1>3. /\ pc'[p] = "now" /\ key'[p] = k /\ ptr'[p] = v
      /\ \A q \in Proc : q # p => /\ pc'[q] = pc[q] /\ key'[q] = key[q]
                                  /\ ptr'[q] = ptr[q]
  BY <1>1 DEF Visit, Goto, TypeOK
<1>4. /\ visitors'[k] = v
      /\ \A j \in Entries' : j \in Key /\ (j # k => j \in Entries /\ visitors'[j] = visitors[j])
  BY <1>1 DEF Visit, Entries
<1>5. \A q \in Proc : /\ key'[q] \in KeysOf[q] \cup {NoKey}
                      /\ pc'[q] = "idle" <=> key'[q] = NoKey
                      /\ pc'[q] = "idle" <=> ptr'[q] = NoVisitor
  BY <1>2, <1>3 DEF OwnInv
<1>6. \A q, r \in Proc : ptr'[q] = ptr'[r] => key'[q] = key'[r]
  BY <1>2, <1>3 DEF OwnInv
<1>7. \A q \in Proc : \A j \in Entries' : visitors'[j] = ptr'[q] => key'[q] = j
  BY <1>2, <1>3, <1>4 DEF OwnInv
<1>8. \A i, j \in Entries' : visitors'[i] = visitors'[j] => i = j
  BY <1>2, <1>4 DEF OwnInv
<1> QED
  BY <1>5, <1>6, <1>7, <1>8 DEF OwnInv

-----------------------------------------------------------------------------
(***************************************************************************)
(* The log of a client's admissions.                                       *)
(***************************************************************************)

LEMMA LogTypes ==
    ASSUME NEW log \in Seq(Time)
    PROVE  /\ Len(log) \in Nat
           /\ DOMAIN log = 1..Len(log)
           /\ \A i \in DOMAIN log : log[i] \in Nat
<1>1. /\ Len(log) \in Nat
      /\ DOMAIN log = 1..Len(log)
      /\ \A i \in DOMAIN log : log[i] \in Time
  OBVIOUS
<1> QED
  BY <1>1, TimeNat

LEMMA Appended ==
    ASSUME NEW log \in Seq(Time), NEW t \in Time
    PROVE  /\ Len(Append(log, t)) = Len(log) + 1
           /\ DOMAIN Append(log, t) = 1..(Len(log) + 1)
           /\ \A i \in 1..Len(log) : Append(log, t)[i] = log[i]
           /\ Append(log, t)[Len(log) + 1] = t
  OBVIOUS

\* What is known of all but the last n entries is known of all but the last m.
LEMMA AllButMono ==
    ASSUME NEW log \in Seq(Time), NEW n \in Nat, NEW m \in Nat, n =< m,
           NEW t \in Int, NEW u \in Int, t =< u, AllBut(log, n, t)
    PROVE  AllBut(log, m, u)
  BY LogTypes DEF AllBut

LEMMA AllButMore ==
    ASSUME NEW log \in Seq(Time), NEW n \in Nat, NEW m \in Nat, n =< m, NEW t,
           AllBut(log, n, t)
    PROVE  AllBut(log, m, t)
  BY LogTypes DEF AllBut

LEMMA AllButAppend ==
    ASSUME NEW log \in Seq(Time), NEW n \in Nat, NEW t \in Int, NEW u \in Time,
           AllBut(log, n, t)
    PROVE  /\ AllBut(Append(log, u), n + 1, t)
           /\ n = 0 /\ u =< t => AllBut(Append(log, u), 0, t)
<1>1. /\ Len(log) \in Nat /\ u \in Nat
      /\ DOMAIN log = 1..Len(log)
  BY LogTypes, TimeNat
<1>2. ASSUME NEW i \in DOMAIN Append(log, u), i =< (Len(log) + 1) - (n + 1)
      PROVE  Append(log, u)[i] =< t
  <2>1. i \in DOMAIN log /\ i =< Len(log) - n
    BY <1>1, <1>2, Appended
  <2> QED
    BY <1>1, <2>1, Appended DEF AllBut
<1>3. ASSUME n = 0, u =< t, NEW i \in DOMAIN Append(log, u)
      PROVE  Append(log, u)[i] =< t
  <2>1. i = Len(log) + 1 \/ (i \in DOMAIN log /\ i =< Len(log) - n)
    BY <1>1, <1>3, Appended
  <2> QED
    BY <1>1, <1>3, <2>1, Appended DEF AllBut
<1> QED
  BY <1>1, <1>2, <1>3, Appended DEF AllBut

\* The same when the whole log is dated t or earlier.
LEMMA AllBefore ==
    ASSUME NEW log \in Seq(Time), NEW t \in Int, AllBut(log, 0, t)
    PROVE  /\ \A n \in Nat : AllBut(log, n, t)
           /\ \A u \in Time : /\ AllBut(Append(log, u), 1, t)
                              /\ u =< t => AllBut(Append(log, u), 0, t)
<1>1. ASSUME NEW n \in Nat PROVE AllBut(log, n, t)
  <2>1. 0 \in Nat /\ 0 =< n
    OBVIOUS
  <2> QED
    BY <2>1, AllButMore
<1>2. ASSUME NEW u \in Time
      PROVE  /\ AllBut(Append(log, u), 1, t)
             /\ u =< t => AllBut(Append(log, u), 0, t)
  <2>1. 0 \in Nat /\ 0 + 1 = 1
    OBVIOUS
  <2>2. /\ AllBut(Append(log, u), 0 + 1, t)
        /\ 0 = 0 /\ u =< t => AllBut(Append(log, u), 0, t)
    BY <2>1, AllButAppend
  <2> QED
    BY <2>1, <2>2
<1> QED
  BY <1>1, <1>2

\* A window that begins now starts with a count of 0.
LEMMA CountedFresh ==
    ASSUME NEW log \in Seq(Time), NEW s \in Time,
           AllBut(log, 0, s), AllBut(log, Limit, s - Window)
    PROVE  Counted(log, s, 0)
  BY LimitPositive, LogTypes DEF Counted

\* When a window has lasted for Window the next one may begin.
LEMMA CountedAged ==
    ASSUME NEW log \in Seq(Time), NEW s \in Time, NEW r \in Nat, Counted(log, s, r),
           NEW t \in Time, t - s >= Window
    PROVE  AllBut(log, Limit, t - Window)
<1>1. /\ s \in Int /\ t - Window \in Int /\ s =< t - Window
      /\ Limit \in Nat /\ r =< Limit
  BY ConfigAssumption, LimitPositive, TimeNat DEF Counted
<1> QED
  BY <1>1, AllButMono DEF Counted

\* One more request let through in a window that has room for it.
LEMMA CountedAppend ==
    ASSUME NEW log \in Seq(Time), NEW s \in Time, NEW r \in Nat, Counted(log, s, r),
           r < Limit, NEW t \in Time, s =< t
    PROVE  Counted(Append(log, t), s, r + 1)
<1> DEFINE n == Len(log)
<1>1. /\ n \in Nat /\ Limit \in Nat /\ s \in Nat /\ t \in Nat /\ Window \in Nat
      /\ DOMAIN log = 1..n
      /\ Len(Append(log, t)) = n + 1
      /\ DOMAIN Append(log, t) = 1..(n + 1)
      /\ \A i \in 1..n : Append(log, t)[i] = log[i]
      /\ Append(log, t)[n + 1] = t
  BY LogTypes, Appended, LimitPositive, TimeNat, ConfigAssumption
<1>2. ASSUME NEW i \in 1..(n + 1), i > (n + 1) - (r + 1) PROVE Append(log, t)[i] >= s
  <2>1. CASE i = n + 1
    BY <1>1, <2>1
  <2>2. CASE i \in 1..n
    <3>1. i > n - r
      BY <1>1, <1>2, <2>2
    <3> QED
      BY <1>1, <2>2, <3>1 DEF Counted
  <2> QED
    BY <1>1, <2>1, <2>2
<1>3. /\ AllBut(Append(log, t), r + 1, s)
      /\ AllBut(Append(log, t), (r + Limit) + 1, s - Window)
  BY <1>1, AllButAppend DEF Counted
<1>4. (r + Limit) + 1 = (r + 1) + Limit
  BY <1>1
<1> QED
  BY <1>1, <1>2, <1>3, <1>4 DEF Counted

LEMMA SpacedAppend ==
    ASSUME NEW log \in Seq(Time), NEW s \in Time, NEW r \in Nat, Counted(log, s, r),
           r < Limit, NEW t \in Time, s =< t, Spaced(log)
    PROVE  Spaced(Append(log, t))
<1> DEFINE n == Len(log)
<1>1. /\ n \in Nat /\ Limit \in Nat \ {0} /\ s \in Nat /\ t \in Nat /\ Window \in Nat
      /\ DOMAIN log = 1..n
      /\ \A i \in 1..n : log[i] \in Nat
      /\ DOMAIN Append(log, t) = 1..(n + 1)
      /\ \A i \in 1..n : Append(log, t)[i] = log[i]
      /\ Append(log, t)[n + 1] = t
  BY LogTypes, Appended, LimitPositive, TimeNat, ConfigAssumption
<1>2. ASSUME NEW i \in 1..n, i + 2 * Limit =< n + 1
      PROVE  log[i] + Window =< t
  <2>1. i =< n - (r + Limit)
    BY <1>1, <1>2
  <2>2. log[i] =< s - Window /\ log[i] \in Nat
    BY <1>1, <2>1 DEF Counted, AllBut
  <2> QED
    BY <1>1, <2>2
<1>3. SUFFICES ASSUME NEW i \in 1..(n + 1), NEW j \in 1..(n + 1), j >= i + 2 * Limit
               PROVE  Append(log, t)[i] + Window =< Append(log, t)[j]
  BY <1>1 DEF Spaced
<1>4. i \in 1..n
  BY <1>1, <1>3
<1>5. CASE j = n + 1
  BY <1>1, <1>2, <1>3, <1>4, <1>5
<1>6. CASE j \in 1..n
  BY <1>1, <1>3, <1>4, <1>6 DEF Spaced
<1> QED
  BY <1>1, <1>5, <1>6

\* A window counted up to the limit justifies a refusal.
LEMMA CountedFull ==
    ASSUME NEW log \in Seq(Time), NEW s \in Time, NEW r \in Nat, Counted(log, s, r),
           r >= Limit, NEW t \in Time, t - s < Window, AllBut(log, 0, t)
    PROVE  Full(log, t)
<1> DEFINE n == Len(log)
           a == n - Limit + 1
<1>1. /\ n \in Nat /\ Limit \in Nat \ {0} /\ s \in Nat /\ t \in Nat /\ Window \in Nat
      /\ DOMAIN log = 1..n
      /\ \A i \in 1..n : log[i] \in Nat
      /\ r = Limit /\ r =< n
  BY LogTypes, LimitPositive, TimeNat, ConfigAssumption DEF Counted
<1>2. a \in DOMAIN log /\ a + Limit =< n + 1
  BY <1>1
<1>3. ASSUME NEW i \in a..(a + Limit - 1)
      PROVE  log[i] > t - Window /\ log[i] =< t
  <2>1. i \in 1..n /\ i > n - r /\ i =< n - 0
    BY <1>1
  <2>2. log[i] >= s /\ log[i] =< t /\ log[i] \in Nat
    BY <1>1, <2>1 DEF Counted, AllBut
  <2> QED
    BY <1>1, <2>2
<1> QED
  BY <1>2, <1>3 DEF Full

\* What justifies a refusal is never taken back.
LEMMA FullAppend ==
    ASSUME NEW log \in Seq(Time), NEW u, NEW t \in Time, Full(log, u)
    PROVE  Full(Append(log, t), u)
<1>1. PICK a \in DOMAIN log :
          /\ a + Limit =< Len(log) + 1
          /\ \A i \in a..(a + Limit - 1) : log[i] > u - Window /\ log[i] =< u
  BY DEF Full
<1>2. /\ Len(log) \in Nat /\ Limit \in Nat \ {0}
      /\ DOMAIN log = 1..Len(log)
  BY LogTypes, LimitPositive
<1>3. \A i \in a..(a + Limit - 1) : Append(log, t)[i] = log[i]
  BY <1>1, <1>2, Appended
<1>4. a \in DOMAIN Append(log, t) /\ a + Limit =< Len(Append(log, t)) + 1
  BY <1>1, <1>2, Appended
<1> QED
  BY <1>1, <1>3, <1>4 DEF Full

-----------------------------------------------------------------------------
(***************************************************************************)
(* A step that does not serve the client: time passes, others are served,  *)
(* its entry may be evicted.                                               *)
(***************************************************************************)

\* What the invariant says of client k is about its log, its entry and the
\* request that serves it; of an entry that goes, only its age is used.
LEMMA Undisturbed ==
    ASSUME TypeOK, TypeOK', OwnInv, NEW k \in Key, ClientInv(k),
           admitted'[k] = admitted[k],
           refused' = refused \/ refused'.key # k,
           clock =< clock',
           \/ /\ visitors'[k] = visitors[k]
              /\ visitors[k] # NoVisitor => heap'[visitors[k]] = heap[visitors[k]]
           \/ /\ visitors[k] # NoVisitor
              /\ visitors'[k] = NoVisitor
              /\ clock - heap[visitors[k]].lastSeen > Window,
           \A q \in Proc : key'[q] = k <=> key[q] = k,
           \A q \in Proc : key[q] = k => /\ pc'[q] = pc[q] /\ ptr'[q] = ptr[q]
                                         /\ now'[q] = now[q] /\ seen'[q] = seen[q]
                                         /\ heap'[ptr[q]] = heap[ptr[q]]
    PROVE  ClientInv(k)'
<1> DEFINE log == admitted[k]
<1>0. /\ Limit \in Nat \ {0} /\ Window \in Nat \ {0} /\ clock \in Nat /\ clock' \in Nat
      /\ clock' - Window \in Int /\ clock - Window \in Int
      /\ clock - Window =< clock' - Window
      /\ log \in Seq(Time)
      /\ k # NoKey
  <2>1. clock \in Nat /\ log \in Seq(Time)
    BY StateTypes
  <2>2. clock' \in Nat
    BY TimeNat DEF TypeOK
  <2>3. k # NoKey
    BY ConfigAssumption
  <2>4. /\ clock' - Window \in Int /\ clock - Window \in Int
        /\ clock - Window =< clock' - Window
    BY <2>1, <2>2, WindowPositive
  <2> QED
    BY <2>1, <2>2, <2>3, <2>4, LimitPositive, WindowPositive
<1>1. AllBut(log, 0, clock')
  BY <1>0, AllButMono DEF ClientInv
<1>2. \A n \in Nat : AllBut(log, n, clock - Window) => AllBut(log, n, clock' - Window)
  BY <1>0, AllButMono
<1>3. ASSUME \A q \in Proc : key'[q] # k PROVE Rested(k)'
  <2>0. Rested(k)
    BY <1>3 DEF ClientInv
  <2>1. CASE visitors[k] = NoVisitor
    BY <1>0, <1>2, <2>0, <2>1 DEF Rested
  <2>2. CASE /\ visitors[k] # NoVisitor
             /\ visitors'[k] = NoVisitor
             /\ clock - heap[visitors[k]].lastSeen > Window
    <3> DEFINE seenAt == heap[visitors[k]].lastSeen
    <3>1. seenAt \in Nat
      BY <2>2, StateTypes
    <3>2. AllBut(log, 1, seenAt)
      BY <2>0, <2>2 DEF Rested
    <3>3. AllBut(log, Limit, clock - Window)
      BY <1>0, <2>2, <3>1, <3>2, AllButMono
    <3> QED
      BY <1>0, <1>2, <2>2, <3>3 DEF Rested
  <2>3. CASE /\ visitors[k] # NoVisitor
             /\ visitors'[k] = visitors[k]
             /\ heap'[visitors[k]] = heap[visitors[k]]
    <3>1. heap[visitors[k]].started \in Nat
      BY <2>3, StateTypes
    <3>2. heap[visitors[k]].started =< clock'
      BY <1>0, <2>0, <2>3, <3>1 DEF Rested
    <3> QED
      BY <2>0, <2>3, <3>2 DEF Rested
  <2> QED
    BY <2>1, <2>2, <2>3
<1>4. ASSUME NEW q \in Proc, key'[q] = k PROVE Served(k, q)'
  <2> DEFINE v == heap[ptr[q]]
  <2>0. /\ key[q] = k /\ Served(k, q) /\ pc[q] # "idle"
        /\ v.started \in Nat /\ v.lastSeen \in Nat /\ now[q] \in Nat
    BY <1>0, <1>4, Busy, StateTypes DEF ClientInv, OwnInv
  <2>1. /\ pc'[q] = pc[q] /\ ptr'[q] = ptr[q] /\ now'[q] = now[q]
        /\ seen'[q] = seen[q] /\ heap'[ptr'[q]] = v
    BY <2>0
  <2>2. v.started =< clock' /\ (pc[q] # "now" => now[q] =< clock')
    BY <1>0, <2>0 DEF Served
  <2>3. visitors'[k] \in {ptr[q], NoVisitor}
    BY <2>0 DEF Served
  <2>4. visitors'[k] = NoVisitor => AllBut(log, 0, clock' - Window)
    <3>1. CASE visitors[k] = NoVisitor
      BY <1>2, <2>0, <3>1 DEF Served
    <3>2. CASE visitors[k] # NoVisitor /\ visitors'[k] = NoVisitor
      <4>1. visitors[k] = ptr[q] /\ AllBut(log, 0, v.lastSeen)
        BY <2>0, <3>2 DEF Served
      <4>2. v.lastSeen =< clock - Window
        BY <1>0, <2>0, <3>2, <4>1
      <4>3. AllBut(log, 0, clock - Window)
        BY <1>0, <2>0, <4>1, <4>2, AllButMono
      <4> QED
        BY <1>2, <4>3
    <3> QED
      BY <3>1, <3>2
  <2> QED
    BY <2>0, <2>1, <2>2, <2>3, <2>4 DEF Served
<1>5. refused'.key = k => Full(log, refused'.at)
  BY DEF ClientInv
<1>6. Spaced(log)
  BY DEF ClientInv
<1> QED
  BY <1>1, <1>3, <1>4, <1>5, <1>6 DEF ClientInv

-----------------------------------------------------------------------------
(***************************************************************************)
(* The steps of the request that serves the client.                        *)
(***************************************************************************)

\* visitorFor hands out the entry of a client, or a new one that the client's log
\* agrees with: an entry goes only when all but its last request are old.
LEMMA VisitServed ==
    ASSUME TypeOK, OwnInv, NEW p \in Proc, NEW k \in KeysOf[p], visitorFor(p, k),
           OneAtATime(k), ClientInv(k)
    PROVE  ClientInv(k)'
<1> DEFINE log == admitted[k]
<1>1. PICK v \in Visitor, e \in [started : Time, lastSeen : Time, requests : Nat] :
          /\ pc[p] = "idle" /\ k \in Key /\ Visit(p, k, v, e)
          /\ e.lastSeen = clock
          /\ \/ /\ k \in Entries \ Evicted
                /\ v = visitors[k]
                /\ e.started = heap[v].started
                /\ e.requests = heap[v].requests
             \/ /\ k \notin Entries \ Evicted
                /\ v \in Free
                /\ e.started = clock
                /\ e.requests = 0
  BY VisitorFor
<1>2. /\ log \in Seq(Time) /\ admitted'[k] = log
      /\ clock \in Time /\ clock \in Nat /\ clock' = clock /\ refused' = refused
      /\ pc'[p] = "now" /\ key'[p] = k /\ ptr'[p] = v /\ heap'[v] = e
      /\ visitors'[k] = v /\ v # NoVisitor
      /\ Limit \in Nat \ {0} /\ Window \in Nat \ {0} /\ clock - Window \in Int
  <2>1. v # NoVisitor
    BY ConfigAssumption
  <2>2. clock \in Nat /\ clock - Window \in Int
    BY StateTypes, WindowPositive
  <2> QED
    BY <1>1, <2>1, <2>2, StateTypes, LimitPositive, WindowPositive DEF Visit, Goto, TypeOK
<1>3. \A q \in Proc : key'[q] = k => q = p
  <2>1. \A q \in Proc : key'[q] \in KeysOf[q] \cup {NoKey}
    BY VisitOwn DEF OwnInv
  <2>2. k # NoKey
    BY <1>1, ConfigAssumption
  <2> QED
    BY <2>1, <2>2 DEF OneAtATime
<1>4. \A q \in Proc : key[q] # k
  <2>1. \A q \in Proc : q # p => key'[q] = key[q]
    BY <1>1 DEF Visit, TypeOK
  <2>2. key[p] = NoKey /\ k # NoKey
    BY <1>1, ConfigAssumption DEF OwnInv
  <2> QED
    BY <1>3, <2>1, <2>2
<1>5. Rested(k) /\ AllBut(log, 0, clock) /\ Spaced(log)
      /\ (refused.key = k => Full(log, refused.at))
  BY <1>4 DEF ClientInv
<1>6. e.started =< clock /\ Counted(log, e.started, e.requests)
  <2>1. CASE k \in Entries \ Evicted
    BY <1>1, <1>5, <2>1 DEF Rested, Entries
  <2>2. CASE k \notin Entries
    <3>1. AllBut(log, Limit, clock - Window)
      BY <1>1, <1>5, <2>2 DEF Rested, Entries
    <3>2. Counted(log, clock, 0)
      BY <1>2, <1>5, <3>1, CountedFresh
    <3> QED
      BY <1>1, <1>2, <2>2, <3>2
  <2>3. CASE k \in Evicted
    <3> DEFINE seenAt == heap[visitors[k]].lastSeen
    <3>1. visitors[k] # NoVisitor /\ clock - seenAt > Window
      BY <2>3 DEF Evicted, Entries
    <3>2. seenAt \in Nat
      BY <1>1, <3>1, StateTypes
    <3>3. AllBut(log, 1, seenAt)
      BY <1>5, <3>1 DEF Rested
    <3>4. AllBut(log, Limit, clock - Window)
      BY <1>2, <3>1, <3>2, <3>3, AllButMono
    <3>5. Counted(log, clock, 0)
      BY <1>2, <1>5, <3>4, CountedFresh
    <3> QED
      BY <1>1, <1>2, <2>3, <3>5
  <2> QED
    BY <2>1, <2>2, <2>3
<1>7. Served(k, p)'
  BY <1>1, <1>2, <1>5, <1>6 DEF Served
<1> QED
  BY <1>2, <1>3, <1>5, <1>7 DEF ClientInv

\* While a request is served, its steps keep what the invariant says of its client.
LEMMA AllowServed ==
    ASSUME TypeOK, OwnInv, NEW p \in Proc, NEW k \in Key, key[p] = k, allow(p),
           OneAtATime(k), ClientInv(k)
    PROVE  ClientInv(k)'
<1> DEFINE log == admitted[k]
           v   == heap[ptr[p]]
<1>1. /\ pc[p] # "idle" /\ ptr[p] \in Visitor
      /\ log \in Seq(Time)
      /\ v.started \in Time /\ v.started \in Nat /\ v.lastSeen \in Nat
      /\ v.requests \in Nat /\ seen[p] \in Nat
      /\ now[p] \in Time /\ now[p] \in Nat
      /\ clock \in Time /\ clock \in Nat /\ clock' = clock
      /\ visitors' = visitors /\ heap'[ptr[p]].lastSeen = v.lastSeen
      /\ Limit \in Nat \ {0}
  <2>1. clock \in Time
    BY DEF TypeOK
  <2> QED
    BY <2>1, AllowFrame, Busy, StateTypes, LimitPositive
<1>2. Window \in Nat \ {0} /\ clock - Window \in Int /\ k # NoKey
  BY <1>1, ConfigAssumption
<1>3. \A q \in Proc : key[q] = k \/ key'[q] = k => q = p
  <2>1. \A q \in Proc : /\ key[q] \in KeysOf[q] \cup {NoKey}
                        /\ key'[q] \in KeysOf[q] \cup {NoKey}
    BY AllowOwn DEF OwnInv
  <2> QED
    BY <1>2, <2>1 DEF OneAtATime
<1>4. /\ Served(k, p) /\ AllBut(log, 0, clock) /\ Spaced(log)
      /\ (refused.key = k => Full(log, refused.at))
  BY DEF ClientInv
\* The request goes on: nothing is let through or refused.
<1>5. ASSUME admitted' = admitted, refused' = refused, key' = key, Served(k, p)'
      PROVE  ClientInv(k)'
  BY <1>1, <1>3, <1>4, <1>5 DEF ClientInv
<1>6. CASE ReadClock(p)
  <2>1. /\ pc[p] = "now" /\ pc'[p] = "window" /\ now'[p] = clock
        /\ UNCHANGED <<heap, key, ptr, admitted, refused, seen>>
    BY <1>6 DEF ReadClock, Goto, TypeOK
  <2>2. Served(k, p)'
    BY <1>1, <1>4, <2>1 DEF Served
  <2> QED
    BY <1>5, <2>1, <2>2
<1>7. CASE CheckWindow(p)
  <2>1. /\ pc[p] = "window"
        /\ pc'[p] = (IF now[p] - v.started >= Window THEN "start" ELSE "limit")
        /\ UNCHANGED <<heap, key, ptr, now, admitted, refused, seen>>
    BY <1>7 DEF CheckWindow, Goto, TypeOK
  <2>2. Served(k, p)'
    BY <1>1, <1>2, <1>4, <2>1 DEF Served
  <2> QED
    BY <1>5, <2>1, <2>2
<1>8. CASE StartWindow(p)
  <2>1. /\ pc[p] = "start" /\ pc'[p] = "zero"
        /\ heap'[ptr[p]] = [v EXCEPT !.started = now[p]]
        /\ UNCHANGED <<key, ptr, now, admitted, refused, seen>>
    BY <1>1, <1>8 DEF StartWindow, Goto, TypeOK
  <2>2. heap'[ptr[p]].started = now[p]
    BY <1>1, <2>1, AllowTypes, Busy DEF TypeOK
  <2>3. AllBut(log, Limit, now[p] - Window)
    BY <1>1, <1>4, <2>1, CountedAged DEF Served
  <2>4. Counted(log, now[p], 0)
    BY <1>1, <1>4, <2>1, <2>3, CountedFresh DEF Served
  <2>5. /\ now[p] =< clock /\ AllBut(log, 0, now[p])
        /\ now[p] =< now[p] /\ now[p] - now[p] < Window
    <3>1. now[p] =< clock /\ AllBut(log, 0, now[p])
      BY <1>4, <2>1 DEF Served
    <3> QED
      BY <1>1, <1>2, <3>1
  <2>6. Served(k, p)'
    <3> DEFINE w == heap'[ptr'[p]]
    <3>1. /\ w.started = now[p] /\ w.lastSeen = v.lastSeen
          /\ ptr'[p] = ptr[p] /\ now'[p] = now[p] /\ pc'[p] = "zero"
          /\ clock' = clock /\ admitted'[k] = log /\ visitors'[k] = visitors[k]
      BY <1>1, <2>1, <2>2
    <3>2. Counted(admitted'[k], w.started, IF pc'[p] = "zero" THEN 0 ELSE w.requests)
      BY <2>4, <3>1
    <3> HIDE DEF w
    <3>3. /\ AllBut(log, 0, v.lastSeen) /\ visitors[k] \in {ptr[p], NoVisitor}
          /\ visitors[k] = NoVisitor => AllBut(log, 0, clock - Window)
      BY <1>4 DEF Served
    <3> QED
      BY <2>5, <3>1, <3>2, <3>3 DEF Served, w
  <2> QED
    BY <1>5, <2>1, <2>6
<1>9. CASE ZeroCount(p)
  <2>1. /\ pc[p] = "zero" /\ pc'[p] = "limit"
        /\ heap'[ptr[p]] = [v EXCEPT !.requests = 0]
        /\ UNCHANGED <<key, ptr, now, admitted, refused, seen>>
    BY <1>1, <1>9 DEF ZeroCount, Goto, TypeOK
  <2>2. heap'[ptr[p]].requests = 0 /\ heap'[ptr[p]].started = v.started
    BY <1>1, <2>1, Busy
  <2>3. Served(k, p)'
    BY <1>1, <1>2, <1>4, <2>1, <2>2 DEF Served
  <2> QED
    BY <1>5, <2>1, <2>3
<1>10. CASE NotFull(p)
  <2>1. /\ pc[p] = "limit" /\ pc'[p] = "load"
        /\ v.requests < Limit /\ seen'[p] = v.requests
        /\ UNCHANGED <<heap, key, ptr, now, admitted, refused>>
    BY <1>10 DEF NotFull, Goto, TypeOK
  <2>2. Served(k, p)'
    BY <1>1, <1>2, <1>4, <2>1 DEF Served
  <2> QED
    BY <1>5, <2>1, <2>2
<1>11. CASE LoadCount(p)
  <2>1. /\ pc[p] = "load" /\ pc'[p] = "store"
        /\ seen'[p] = seen[p] \/ seen'[p] = v.requests
        /\ UNCHANGED <<heap, key, ptr, now, admitted, refused>>
    BY <1>11 DEF LoadCount, Goto, TypeOK
  <2>2. Served(k, p)'
    BY <1>1, <1>2, <1>4, <2>1 DEF Served
  <2> QED
    BY <1>5, <2>1, <2>2
\* The request is over.
<1>12. ASSUME NEW new \in Seq(Time), admitted'[k] = new,
              Spaced(new), AllBut(new, 0, clock), key'[p] = NoKey,
              refused'.key = k => Full(new, refused'.at),
              visitors[k] = NoVisitor => AllBut(new, Limit, clock - Window),
              visitors[k] # NoVisitor => AllBut(new, 1, v.lastSeen),
              heap'[ptr[p]].started = v.started,
              Counted(new, v.started, heap'[ptr[p]].requests)
       PROVE  ClientInv(k)'
  <2>1. \A q \in Proc : key'[q] # k
    BY <1>2, <1>3, <1>12
  <2>2. Rested(k)'
    BY <1>1, <1>4, <1>12 DEF Rested, Served
  <2> QED
    BY <1>1, <1>12, <2>1, <2>2 DEF ClientInv
<1>13. CASE Refuse(p)
  <2>1. /\ pc[p] = "limit" /\ v.requests >= Limit
        /\ refused' = [key |-> k, at |-> now[p]]
        /\ key'[p] = NoKey /\ heap' = heap /\ admitted' = admitted
    BY <1>13 DEF Refuse, Leave, TypeOK
  <2>2. Counted(log, v.started, v.requests) /\ AllBut(log, 0, now[p])
        /\ now[p] - v.started < Window
    BY <1>4, <2>1 DEF Served
  <2>3. Full(log, now[p])
    BY <1>1, <2>1, <2>2, CountedFull
  <2>4. visitors[k] = NoVisitor => AllBut(log, Limit, clock - Window)
    <3>1. ASSUME AllBut(log, 0, clock - Window)
          PROVE  AllBut(log, Limit, clock - Window)
      <4> HIDE DEF log, v
      <4> QED
        BY <1>1, <1>2, <3>1, AllBefore
    <3> QED
      BY <1>4, <3>1 DEF Served
  <2>5. AllBut(log, 1, v.lastSeen)
    <3>1. AllBut(log, 0, v.lastSeen)
      BY <1>4 DEF Served
    <3> HIDE DEF log, v
    <3>2. v.lastSeen \in Int /\ 1 \in Nat
      BY <1>1
    <3> QED
      BY <1>1, <3>1, <3>2, AllBefore
  <2> QED
    BY <1>1, <1>4, <1>12, <2>1, <2>2, <2>3, <2>4, <2>5
<1>14. CASE StoreCount(p)
  <2> DEFINE new == Append(log, now[p])
  <2>1. /\ pc[p] = "store" /\ key'[p] = NoKey /\ refused' = refused
        /\ admitted'[k] = new /\ new \in Seq(Time)
        /\ heap'[ptr[p]] = [v EXCEPT !.requests = seen[p] + 1]
    BY <1>1, <1>14 DEF StoreCount, Leave, TypeOK
  <2>2. heap'[ptr[p]].requests = seen[p] + 1 /\ heap'[ptr[p]].started = v.started
    BY <1>1, <2>1, Busy
  <2>3. /\ Counted(log, v.started, seen[p]) /\ seen[p] < Limit
        /\ v.started =< now[p] /\ now[p] =< clock
    BY <1>4, <2>1 DEF Served
  <2>4. Counted(new, v.started, seen[p] + 1) /\ Spaced(new)
    BY <1>1, <1>4, <2>3, CountedAppend, SpacedAppend
  <2>5. AllBut(new, 0, clock)
    <3>1. log \in Seq(Time) /\ clock \in Int /\ now[p] \in Time /\ now[p] =< clock
      BY <1>1, <2>3
    <3>2. AllBut(log, 0, clock)
      BY <1>4
    <3> HIDE DEF log, v
    <3> QED
      BY <3>1, <3>2, AllBefore, Zenon
  <2>6. refused.key = k => Full(new, refused.at)
    BY <1>1, <1>4, FullAppend
  <2>7. visitors[k] = NoVisitor => AllBut(new, Limit, clock - Window)
    <3> SUFFICES ASSUME visitors[k] = NoVisitor
                 PROVE  AllBut(new, Limit, clock - Window)
      OBVIOUS
    <3>1. AllBut(log, 0, clock - Window)
      BY <1>4 DEF Served
    <3>2. AllBut(new, 1, clock - Window)
      <4>1. log \in Seq(Time) /\ clock - Window \in Int /\ now[p] \in Time
        BY <1>1, <1>2
      <4> HIDE DEF log, v
      <4> QED
        BY <3>1, <4>1, AllBefore, Zenon
    <3>3. new \in Seq(Time) /\ Limit \in Nat /\ 1 =< Limit
      BY <1>1, <2>1
    <3> HIDE DEF new
    <3> QED
      BY <3>2, <3>3, AllButMore
  <2>8. AllBut(new, 1, v.lastSeen)
    <3>1. AllBut(log, 0, v.lastSeen)
      BY <1>4 DEF Served
    <3>2. log \in Seq(Time) /\ v.lastSeen \in Int /\ now[p] \in Time
      BY <1>1
    <3> HIDE DEF log, v
    <3> QED
      BY <3>1, <3>2, AllBefore, Zenon
  <2> HIDE DEF new
  <2> QED
    BY <1>12, <2>1, <2>2, <2>4, <2>5, <2>6, <2>7, <2>8
<1> QED
  BY <1>6, <1>7, <1>8, <1>9, <1>10, <1>11, <1>13, <1>14 DEF allow

-----------------------------------------------------------------------------
(***************************************************************************)
(* The invariant.                                                          *)
(***************************************************************************)

\* visitorFor leaves other clients alone, but for the entries it evicts.
LEMMA VisitOthers ==
    ASSUME TypeOK, OwnInv, NEW p \in Proc, NEW j \in KeysOf[p], visitorFor(p, j),
           NEW k \in Key, k # j, ClientInv(k)
    PROVE  ClientInv(k)'
<1>1. PICK v \in Visitor, e \in [started : Time, lastSeen : Time, requests : Nat] :
          /\ pc[p] = "idle" /\ j \in Key /\ Visit(p, j, v, e)
          /\ \/ j \in Entries \ Evicted /\ v = visitors[j]
             \/ j \notin Entries \ Evicted /\ v \in Free
  BY VisitorFor
<1>2. /\ admitted'[k] = admitted[k] /\ refused' = refused /\ clock' = clock
      /\ \A u \in Visitor : u # v => heap'[u] = heap[u]
      /\ \A q \in Proc : q # p => /\ pc'[q] = pc[q] /\ key'[q] = key[q]
                                  /\ ptr'[q] = ptr[q] /\ now'[q] = now[q]
                                  /\ seen'[q] = seen[q]
      /\ key'[p] = j /\ key[p] # k
      /\ visitors'[k] = (IF k \in Evicted THEN NoVisitor ELSE visitors[k])
  <2>1. key[p] = NoKey /\ k # NoKey
    BY <1>1, ConfigAssumption DEF OwnInv
  <2> QED
    BY <1>1, <2>1 DEF Visit, Goto, TypeOK
<1>3. visitors[k] # NoVisitor => visitors[k] \in Visitor /\ visitors[k] # v
  BY <1>1, StateTypes DEF OwnInv, Entries, Free
<1>4. \A q \in Proc : key[q] = k => q # p /\ ptr[q] \in Visitor /\ ptr[q] # v
  <2> SUFFICES ASSUME NEW q \in Proc, key[q] = k
               PROVE  q # p /\ ptr[q] \in Visitor /\ ptr[q] # v
    OBVIOUS
  <2>1. pc[q] # "idle" /\ q # p
    BY <1>2, ConfigAssumption DEF OwnInv
  <2>2. ptr[q] \in Visitor
    BY <2>1, Busy
  <2> QED
    BY <1>1, <2>1, <2>2 DEF OwnInv, Free
<1>5. \/ /\ visitors'[k] = visitors[k]
         /\ visitors[k] # NoVisitor => heap'[visitors[k]] = heap[visitors[k]]
      \/ /\ visitors[k] # NoVisitor
         /\ visitors'[k] = NoVisitor
         /\ clock - heap[visitors[k]].lastSeen > Window
  BY <1>2, <1>3 DEF Evicted, Entries
<1>6. \A q \in Proc : key'[q] = k <=> key[q] = k
  BY <1>2
<1>7. \A q \in Proc : key[q] = k => /\ pc'[q] = pc[q] /\ ptr'[q] = ptr[q]
                                    /\ now'[q] = now[q] /\ seen'[q] = seen[q]
                                    /\ heap'[ptr[q]] = heap[ptr[q]]
  BY <1>2, <1>4
<1>8. clock =< clock'
  BY <1>2, StateTypes
<1> QED
  BY <1>2, <1>5, <1>6, <1>7, <1>8, VisitTypes, Undisturbed

\* No request touches the visitor of another client.
LEMMA AllowOthers ==
    ASSUME TypeOK, OwnInv, NEW p \in Proc, allow(p),
           NEW k \in Key, key[p] # k, ClientInv(k)
    PROVE  ClientInv(k)'
<1>1. pc[p] # "idle" /\ k # NoKey /\ clock =< clock'
  BY AllowFrame, StateTypes, ConfigAssumption
<1>2. visitors[k] # NoVisitor => visitors[k] \in Visitor /\ visitors[k] # ptr[p]
  BY <1>1, StateTypes DEF OwnInv, Entries
<1>3. \A q \in Proc : key[q] = k => q # p /\ ptr[q] \in Visitor /\ ptr[q] # ptr[p]
  BY <1>1, Busy DEF OwnInv
<1>4. \A q \in Proc : key'[q] = k <=> key[q] = k
  BY <1>1, AllowFrame
<1>5. admitted'[k] = admitted[k] /\ (refused' = refused \/ refused'.key # k)
  BY AllowFrame
<1>6. /\ visitors'[k] = visitors[k]
      /\ visitors[k] # NoVisitor => heap'[visitors[k]] = heap[visitors[k]]
  BY <1>2, AllowFrame
<1>7. \A q \in Proc : key[q] = k => /\ pc'[q] = pc[q] /\ ptr'[q] = ptr[q]
                                    /\ now'[q] = now[q] /\ seen'[q] = seen[q]
                                    /\ heap'[ptr[q]] = heap[ptr[q]]
  BY <1>3, AllowFrame
<1> QED
  BY <1>1, <1>4, <1>5, <1>6, <1>7, AllowTypes, Undisturbed

LEMMA TickKeeps ==
    ASSUME TypeOK, OwnInv, Tick \/ UNCHANGED vars
    PROVE  /\ TypeOK'
           /\ OwnInv'
           /\ \A k \in Key : ClientInv(k) => ClientInv(k)'
<1>1. /\ UNCHANGED <<visitors, heap, pc, key, ptr, now, seen, admitted, refused>>
      /\ clock' \in Time /\ clock =< clock'
  <2>1. clock \in Time /\ clock \in Nat
    BY StateTypes DEF TypeOK
  <2> QED
    BY <2>1, TimeNat DEF Tick, vars
<1>2. TypeOK'
  BY <1>1 DEF TypeOK
<1>3. OwnInv'
  BY <1>1 DEF OwnInv, Entries
<1>4. ASSUME NEW k \in Key, ClientInv(k) PROVE ClientInv(k)'
  BY <1>1, <1>2, <1>4, Undisturbed
<1> QED
  BY <1>2, <1>3, <1>4

LEMMA InitLimiterInv == Init => LimiterInv
<1> SUFFICES ASSUME Init PROVE LimiterInv
  OBVIOUS
<1>1. TypeOK
  <2>1. \A v \in Visitor : [started |-> 0, lastSeen |-> 0, requests |-> 0]
                               \in [started : Time, lastSeen : Time, requests : Nat]
    BY TimeNat
  <2>2. NoRefusal \in [key : Key \cup {NoKey}, at : Time]
    BY TimeNat DEF NoRefusal
  <2> QED
    BY <2>1, <2>2, TimeNat DEF Init, TypeOK
<1>2. OwnInv
  BY ConfigAssumption DEF Init, OwnInv, Entries
<1>3. ASSUME NEW k \in Key PROVE ClientInv(k)
  <2>1. /\ admitted[k] = <<>> /\ DOMAIN admitted[k] = {} /\ visitors[k] = NoVisitor
        /\ refused.key # k
        /\ \A p \in Proc : key[p] # k
    BY ConfigAssumption DEF Init, NoRefusal
  <2> QED
    BY <2>1 DEF ClientInv, AllBut, Spaced, Rested
<1> QED
  BY <1>1, <1>2, <1>3 DEF LimiterInv

LEMMA NextLimiterInv ==
    ASSUME LimiterInv, [Next]_vars
    PROVE  LimiterInv'
<1>0. TypeOK /\ OwnInv /\ \A k \in Key : OneAtATime(k) => ClientInv(k)
  BY DEF LimiterInv
<1>1. ASSUME NEW p \in Proc, allow(p) PROVE LimiterInv'
  <2>1. TypeOK' /\ OwnInv'
    BY <1>0, <1>1, AllowTypes, AllowOwn
  <2>2. ASSUME NEW k \in Key, OneAtATime(k) PROVE ClientInv(k)'
    BY <1>0, <1>1, <2>2, AllowServed, AllowOthers
  <2> QED
    BY <2>1, <2>2 DEF LimiterInv, OneAtATime
<1>2. ASSUME NEW p \in Proc, NEW j \in KeysOf[p], visitorFor(p, j) PROVE LimiterInv'
  <2>1. TypeOK' /\ OwnInv'
    BY <1>0, <1>2, VisitTypes, VisitOwn
  <2>2. ASSUME NEW k \in Key, OneAtATime(k) PROVE ClientInv(k)'
    BY <1>0, <1>2, <2>2, VisitServed, VisitOthers
  <2> QED
    BY <2>1, <2>2 DEF LimiterInv, OneAtATime
<1>3. CASE Tick \/ UNCHANGED vars
  BY <1>0, <1>3, TickKeeps DEF LimiterInv, OneAtATime
<1> QED
  BY <1>1, <1>2, <1>3 DEF Next

\* The limiter keeps its books: for any configuration and any number of clients
\* and of requests at a time, a visitor struct is never shared between clients,
\* and those served one request at a time are counted right at every step of
\* visitorFor and allow.
THEOREM LimiterInvHolds == Spec => []LimiterInv
<1>1. Init => LimiterInv
  BY InitLimiterInv
<1>2. LimiterInv /\ [Next]_vars => LimiterInv'
  BY NextLimiterInv
<1> QED
  BY <1>1, <1>2, PTL DEF Spec

\* Every reachable state is well typed, although clients race (visitorFor, allow).
THEOREM LimiterTyping == Spec => []TypeOK
<1>1. LimiterInv => TypeOK
  BY DEF LimiterInv
<1> QED
  BY <1>1, LimiterInvHolds, PTL

-----------------------------------------------------------------------------
(***************************************************************************)
(* From the log to the counts.                                             *)
(***************************************************************************)

\* A set of natural numbers has a least one.
LEMMA Least ==
    ASSUME NEW S, S \subseteq Nat, S # {}
    PROVE  \E a \in S : \A b \in S : a =< b
<1>1. \E a \in S : \A b \in S : ~(<<b, a>> \in OpToRel(<, Nat))
  BY NatLessThanWellFounded, WFMin, Zenon
<1>2. PICK a \in S : \A b \in S : ~(<<b, a>> \in OpToRel(<, Nat))
  BY <1>1
<1>3. ASSUME NEW b \in S, b < a PROVE <<b, a>> \in OpToRel(<, Nat)
  <2>1. a \in Nat /\ b \in Nat
    OBVIOUS
  <2> QED
    BY <1>3, <2>1, Zenon DEF OpToRel
<1>4. \A b \in S : b \in Nat /\ a \in Nat /\ ~(b < a)
  BY <1>2, <1>3
<1>5. \A b \in S : a =< b
  BY <1>4
<1> QED
  BY <1>5

Within(log, t) == {i \in DOMAIN log : log[i] > t - Window /\ log[i] =< t}

LEMMA WithinFinite ==
    ASSUME NEW log \in Seq(Time), NEW t
    PROVE  /\ Within(log, t) \subseteq DOMAIN log /\ DOMAIN log \subseteq Nat
           /\ IsFiniteSet(Within(log, t))
           /\ Cardinality(Within(log, t)) \in Nat
<1>1. DOMAIN log = 1..Len(log) /\ Len(log) \in Nat
  BY LogTypes
<1>2. IsFiniteSet(1..Len(log))
  BY <1>1, FS_Interval
<1>3. Within(log, t) \in SUBSET (1..Len(log))
  BY <1>1 DEF Within
<1>4. IsFiniteSet(Within(log, t))
  BY <1>2, <1>3, FS_Subset
<1> QED
  BY <1>1, <1>3, <1>4, FS_CardinalityType

\* Entries within a window lie less than 2 * Limit apart.
LEMMA SpacedCount ==
    ASSUME NEW log \in Seq(Time), Spaced(log), NEW t \in Nat
    PROVE  Cardinality(Within(log, t)) =< 2 * Limit
<1> DEFINE W == Within(log, t)
<1>0. /\ W \subseteq Nat /\ Limit \in Nat \ {0} /\ Window \in Nat
      /\ \A i \in W : i \in DOMAIN log /\ log[i] \in Nat
                      /\ log[i] > t - Window /\ log[i] =< t
  BY WithinFinite, LogTypes, LimitPositive, WindowPositive DEF Within
<1>1. CASE W = {}
  <2>1. Cardinality(W) = 0
    BY <1>1, FS_EmptySet
  <2> QED
    BY <1>0, <2>1
<1>2. CASE W # {}
  <2>1. PICK a \in W : \A b \in W : a =< b
    BY <1>0, <1>2, Least
  <2>2. ASSUME NEW b \in W PROVE b \in a..(a + 2 * Limit - 1)
    <3>1. a \in Nat /\ b \in Nat /\ a =< b
      BY <1>0, <2>1
    <3>2. ~(b >= a + 2 * Limit)
      <4> SUFFICES ASSUME b >= a + 2 * Limit PROVE FALSE
        OBVIOUS
      <4>1. log[a] + Window =< log[b]
        BY <1>0 DEF Spaced
      <4> QED
        BY <1>0, <4>1
    <3> QED
      BY <1>0, <3>1, <3>2
  <2>3. /\ IsFiniteSet(a..(a + 2 * Limit - 1))
        /\ Cardinality(a..(a + 2 * Limit - 1)) = 2 * Limit
    <3>1. a \in Int /\ a + 2 * Limit - 1 \in Int /\ ~(a > a + 2 * Limit - 1)
          /\ (a + 2 * Limit - 1) - a + 1 = 2 * Limit
      BY <1>0, <2>1
    <3> QED
      BY <3>1, FS_Interval
  <2>4. W \in SUBSET (a..(a + 2 * Limit - 1))
    BY <2>2
  <2> HIDE DEF W
  <2>5. Cardinality(W) =< Cardinality(a..(a + 2 * Limit - 1))
    BY <2>3, <2>4, FS_Subset
  <2> QED
    BY <2>3, <2>5 DEF W
<1> QED
  BY <1>1, <1>2

\* Limit entries within the window are counted as such.
LEMMA FullCount ==
    ASSUME NEW log \in Seq(Time), NEW t \in Nat, Full(log, t)
    PROVE  Cardinality(Within(log, t)) >= Limit
<1>1. PICK a \in DOMAIN log :
          /\ a + Limit =< Len(log) + 1
          /\ \A i \in a..(a + Limit - 1) : log[i] > t - Window /\ log[i] =< t
  BY DEF Full
<1>2. Len(log) \in Nat /\ DOMAIN log = 1..Len(log) /\ Limit \in Nat \ {0} /\ a \in Nat
  BY <1>1, LogTypes, LimitPositive
<1>3. a..(a + Limit - 1) \in SUBSET Within(log, t)
  BY <1>1, <1>2 DEF Within
<1>4. Cardinality(a..(a + Limit - 1)) = Limit
  <2>1. /\ a \in Int /\ a + Limit - 1 \in Int /\ ~(a > a + Limit - 1)
        /\ (a + Limit - 1) - a + 1 = Limit
    BY <1>2
  <2> QED
    BY <2>1, FS_Interval
<1>5. Cardinality(a..(a + Limit - 1)) =< Cardinality(Within(log, t))
  BY <1>3, WithinFinite, FS_Subset
<1> QED
  BY <1>2, <1>4, <1>5, WithinFinite

\* allow and visitorFor: a client served one request at a time never gets more
\* than twice the limit through within a window, for any limit and window,
\* whatever stalls between two steps and whatever entries are evicted.
THEOREM BurstBoundHolds == Spec => []BurstBound
<1>1. LimiterInv => BurstBound
  <2> SUFFICES ASSUME LimiterInv, NEW k \in Key, NEW t \in Time, OneAtATime(k)
               PROVE  AdmittedUpTo(k, t) =< 2 * Limit
    BY DEF BurstBound
  <2>1. admitted[k] \in Seq(Time) /\ Spaced(admitted[k]) /\ t \in Nat
    BY StateTypes, TimeNat DEF LimiterInv, ClientInv
  <2>2. Cardinality(Within(admitted[k], t)) =< 2 * Limit
    BY <2>1, SpacedCount
  <2> QED
    BY <2>2 DEF AdmittedUpTo, Within
<1> QED
  BY <1>1, LimiterInvHolds, PTL

\* allow: a client served one request at a time is refused only when the limit has
\* been let through within the window that ends at the refusal.
THEOREM RefusedOnlyWhenFullHolds == Spec => []RefusedOnlyWhenFull
<1>1. LimiterInv => RefusedOnlyWhenFull
  <2> SUFFICES ASSUME LimiterInv, refused.key # NoKey, OneAtATime(refused.key)
               PROVE  AdmittedUpTo(refused.key, refused.at) >= Limit
    BY DEF RefusedOnlyWhenFull
  <2> DEFINE k == refused.key
  <2>1. k \in Key /\ refused.at \in Time
    BY DEF LimiterInv, TypeOK
  <2>2. admitted[k] \in Seq(Time) /\ Full(admitted[k], refused.at) /\ refused.at \in Nat
    BY <2>1, StateTypes, TimeNat DEF LimiterInv, ClientInv
  <2>3. Cardinality(Within(admitted[k], refused.at)) >= Limit
    BY <2>2, FullCount
  <2> QED
    BY <2>3 DEF AdmittedUpTo, Within
<1> QED
  BY <1>1, LimiterInvHolds, PTL
=============================================================================

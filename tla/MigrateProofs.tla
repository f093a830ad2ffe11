--------------------------- MODULE MigrateProofs ---------------------------
(***************************************************************************)
(* Proofs about Migrate, for any number of runs and of migrations.         *)
(***************************************************************************)
EXTENDS Migrate, TLAPS

USE CountAssumption DEF Migrations

\* The initial state satisfies the invariant.
LEMMA InitInv == Init => IndInv
  <1> SUFFICES ASSUME Init
               PROVE  IndInv
    OBVIOUS
  <1>1. 1 \in 1..Count
    OBVIOUS
  <1>2. TypeOK
    BY <1>1 DEF Init, TypeOK
  <1>3. TxInv
    BY DEF Init, TxInv
  <1>4. RecordedIffMade /\ SuccessMeansComplete
    BY DEF Init, RecordedIffMade, SuccessMeansComplete
  <1>5. InOrder
    <2>1. \A p \in Proc : at[p] = 1
      BY DEF Init
    <2>2. 1..(1 - 1) = {}
      OBVIOUS
    <2> QED
      BY <2>1, <2>2 DEF Init, InOrder
  <1> QED
    BY <1>2, <1>3, <1>4, <1>5 DEF IndInv

\* A run that ends in an error, its transaction rolled back, disturbs nothing.
LEMMA RollbackInv ==
  ASSUME IndInv, NEW p \in Proc, Rollback(p), trouble' \in BOOLEAN
  PROVE  IndInv'
  BY DEF Rollback, End, Close, IndInv, TypeOK, TxInv, RecordedIffMade, InOrder,
         SuccessMeansComplete

\* A run that goes on to another statement without touching the database or its
\* transaction.
LEMMA GotoInv ==
  ASSUME IndInv, NEW p \in Proc, Goto(p, pc'[p]), ~made[p],
         UNCHANGED <<objects, applied, made, trouble>>,
         pc'[p] \in {"log", "createLog", "check", "exec", "create", "record"},
         pc'[p] = "record" => at[p] \in objects
  PROVE  IndInv'
  BY DEF Goto, IndInv, TypeOK, TxInv, RecordedIffMade, InOrder,
         SuccessMeansComplete

\* Only a transaction between its CREATE and its end has made anything.
LEMMA MadeNothing ==
  ASSUME IndInv, NEW p \in Proc, pc[p] \notin {"record", "commit"}
  PROVE  ~made[p]
  BY DEF IndInv, TxInv

LEMMA RunInv ==
  ASSUME IndInv, NEW p \in Proc, Run(p)
  PROVE  IndInv'
  <1>1. ~made[p]
    BY MadeNothing DEF Run
  <1> QED
    BY <1>1 DEF Run, IndInv, TypeOK, TxInv, RecordedIffMade, InOrder,
                SuccessMeansComplete

LEMMA FindLogInv ==
  ASSUME IndInv, NEW p \in Proc, FindLog(p)
  PROVE  IndInv'
  <1>1. ~made[p]
    BY MadeNothing DEF FindLog
  <1>2. pc'[p] \in {"check", "createLog"}
    BY DEF FindLog, Goto, IndInv, TypeOK
  <1>3. Goto(p, pc'[p])
    BY DEF FindLog, Goto, IndInv, TypeOK
  <1> QED
    BY <1>1, <1>2, <1>3, GotoInv DEF FindLog

LEMMA CreateLogInv ==
  ASSUME IndInv, NEW p \in Proc, CreateLog(p)
  PROVE  IndInv'
  <1>1. CASE 0 \in objects
    BY <1>1, RollbackInv DEF CreateLog, IndInv, TypeOK
  <1>2. CASE 0 \notin objects
    <2>1. /\ objects' = objects \cup {0}
          /\ pc' = [pc EXCEPT ![p] = "check"]
          /\ UNCHANGED <<applied, at, made, res, trouble>>
      BY <1>2 DEF CreateLog, Goto
    <2>2. ~made[p] /\ 0 \in 0..Count
      BY MadeNothing DEF CreateLog
    <2>3. \A q \in Proc : at[q] # 0
      BY DEF IndInv, TypeOK
    <2>4. TypeOK'
      BY <2>1, <2>2 DEF IndInv, TypeOK
    <2>5. TxInv'
      BY <2>1, <2>2, <2>3 DEF IndInv, TypeOK, TxInv
    <2>6. RecordedIffMade'
      BY <2>1 DEF IndInv, RecordedIffMade
    <2> QED
      BY <2>1, <2>4, <2>5, <2>6 DEF IndInv, InOrder, SuccessMeansComplete
  <1> QED
    BY <1>1, <1>2

\* A run that has migration at[p] applied goes on to the next one, or has all.
LEMMA NextMigrationInv ==
  ASSUME IndInv, NEW p \in Proc, NextMigration(p), ~made[p], at[p] \in applied,
         UNCHANGED <<objects, applied, made, trouble>>
  PROVE  IndInv'
  <1>1. 1..at[p] \subseteq applied
    BY DEF IndInv, InOrder
  <1>2. at[p] \in 1..Count
    BY DEF IndInv, TypeOK
  <1>3. CASE at[p] < Count
    <2>1. /\ at' = [at EXCEPT ![p] = at[p] + 1]
          /\ pc' = [pc EXCEPT ![p] = "check"]
          /\ UNCHANGED res
      BY <1>3 DEF NextMigration
    <2>2. at[p] + 1 \in 1..Count /\ (at[p] + 1) - 1 = at[p]
      BY <1>2, <1>3
    <2>3. TypeOK'
      BY <2>1, <2>2 DEF IndInv, TypeOK
    <2>4. TxInv'
      BY <2>1 DEF IndInv, TypeOK, TxInv
    <2>5. InOrder'
      BY <1>1, <2>1, <2>2 DEF IndInv, TypeOK, InOrder
    <2> QED
      BY <2>1, <2>3, <2>4, <2>5 DEF IndInv, RecordedIffMade, SuccessMeansComplete
  <1>4. CASE at[p] = Count
    <2>1. End(p, "ok")
      BY <1>4 DEF NextMigration
    <2>2. applied = 1..Count
      BY <1>1, <1>4 DEF IndInv, TypeOK
    <2> QED
      BY <2>1, <2>2 DEF End, IndInv, TypeOK, TxInv, RecordedIffMade, InOrder,
                        SuccessMeansComplete
  <1> QED
    BY <1>2, <1>3, <1>4

LEMMA CheckInv ==
  ASSUME IndInv, NEW p \in Proc, Check(p)
  PROVE  IndInv'
  <1>1. ~made[p]
    BY MadeNothing DEF Check
  <1>2. CASE at[p] \in applied
    BY <1>1, <1>2, NextMigrationInv DEF Check
  <1>3. CASE at[p] \notin applied
    <2>1. Goto(p, pc'[p]) /\ pc'[p] = "exec"
      BY <1>3 DEF Check, Goto, IndInv, TypeOK
    <2> QED
      BY <1>1, <2>1, GotoInv DEF Check
  <1> QED
    BY <1>2, <1>3

LEMMA ExecInv ==
  ASSUME IndInv, NEW p \in Proc, Exec(p)
  PROVE  IndInv'
  <1>1. ~made[p]
    BY MadeNothing DEF Exec
  <1>2. /\ Goto(p, pc'[p])
        /\ pc'[p] \in {"create", "record"}
        /\ pc'[p] = "record" => at[p] \in objects
    BY DEF Exec, Goto, IndInv, TypeOK
  <1> QED
    BY <1>1, <1>2, GotoInv DEF Exec

LEMMA CreateInv ==
  ASSUME IndInv, NEW p \in Proc, Create(p)
  PROVE  IndInv'
  <1>1. CASE at[p] \in objects
    BY <1>1, RollbackInv DEF Create, IndInv, TypeOK
  <1>2. CASE at[p] \notin objects
    <2>1. /\ made' = [made EXCEPT ![p] = TRUE]
          /\ pc' = [pc EXCEPT ![p] = "record"]
          /\ UNCHANGED <<objects, applied, at, res, trouble>>
          /\ \A q \in Proc : ~(made[q] /\ at[q] = at[p])
      BY <1>2 DEF Create, Goto
    <2>2. TypeOK'
      BY <2>1 DEF IndInv, TypeOK
    <2>3. TxInv'
      BY <1>2, <2>1 DEF IndInv, TypeOK, TxInv
    <2> QED
      BY <2>1, <2>2, <2>3 DEF IndInv, RecordedIffMade, InOrder, SuccessMeansComplete
  <1> QED
    BY <1>1, <1>2

LEMMA RecordInv ==
  ASSUME IndInv, NEW p \in Proc, Record(p)
  PROVE  IndInv'
  <1>1. CASE at[p] \in applied
    BY <1>1, RollbackInv DEF Record, IndInv, TypeOK
  <1>2. CASE at[p] \notin applied
    <2>1. /\ pc[p] = "record"
          /\ pc' = [pc EXCEPT ![p] = "commit"]
          /\ UNCHANGED <<objects, applied, at, made, res, trouble>>
      BY <1>2 DEF Record, Goto
    <2>2. TypeOK'
      BY <2>1 DEF IndInv, TypeOK
    <2>3. TxInv'
      BY <1>2, <2>1 DEF IndInv, TypeOK, TxInv
    <2> QED
      BY <2>1, <2>2, <2>3 DEF IndInv, RecordedIffMade, InOrder, SuccessMeansComplete
  <1> QED
    BY <1>1, <1>2

\* The heart of the matter: a commit adds an object and its record together,
\* right after all earlier ones, and nobody else is adding the same.
LEMMA CommitInv ==
  ASSUME IndInv, NEW p \in Proc, Commit(p)
  PROVE  IndInv'
  <1>1. pc[p] = "commit" /\ at[p] \in 1..Count
    BY DEF Commit, IndInv, TypeOK
  <1>2. made[p] /\ at[p] \notin objects /\ at[p] \notin applied
    BY <1>1 DEF IndInv, TxInv, RecordedIffMade
  <1>3. /\ objects' = objects \cup {at[p]}
        /\ applied' = applied \cup {at[p]}
        /\ made' = [made EXCEPT ![p] = FALSE]
    BY <1>2 DEF Commit, Close
  <1>4. 1..(at[p] - 1) \subseteq applied
    BY DEF IndInv, InOrder
  <1>5. 1..at[p] \subseteq applied'
    <2>1. 1..at[p] \subseteq (1..(at[p] - 1)) \cup {at[p]}
      BY <1>1
    <2> QED
      BY <1>3, <1>4, <2>1
  <1>6. \A q \in Proc \ {p} : /\ pc[q] = "commit" => at[q] # at[p]
                              /\ made[q] => at[q] # at[p]
    BY <1>1, <1>2 DEF IndInv, TxInv, RecordedIffMade
  <1>7. RecordedIffMade'
    BY <1>1, <1>3 DEF IndInv, RecordedIffMade
  <1>8. \/ /\ at[p] < Count
           /\ at' = [at EXCEPT ![p] = at[p] + 1]
           /\ pc' = [pc EXCEPT ![p] = "check"]
           /\ UNCHANGED res
        \/ /\ at[p] = Count
           /\ End(p, "ok")
        \/ End(p, "error")
    BY DEF Commit, NextMigration
  <1>9. trouble' \in BOOLEAN
    BY DEF Commit, IndInv, TypeOK
  <1>10. applied' \in SUBSET (1..Count) /\ objects' \in SUBSET (0..Count)
    <2>1. applied \in SUBSET (1..Count) /\ objects \in SUBSET (0..Count)
      BY DEF IndInv, TypeOK
    <2>2. at[p] \in 0..Count
      BY <1>1
    <2> QED
      BY <1>1, <1>3, <2>1, <2>2
  <1>11. \A m \in applied' : 1..m \subseteq applied'
    BY <1>1, <1>3, <1>5 DEF IndInv, InOrder
  <1>12. CASE /\ at[p] < Count
              /\ at' = [at EXCEPT ![p] = at[p] + 1]
              /\ pc' = [pc EXCEPT ![p] = "check"]
              /\ UNCHANGED res
    <2>1. at[p] + 1 \in 1..Count /\ (at[p] + 1) - 1 = at[p]
      BY <1>1, <1>12
    <2>2. TypeOK'
      BY <1>3, <1>9, <1>10, <1>12, <2>1 DEF IndInv, TypeOK
    <2>3. TxInv'
      BY <1>3, <1>6, <1>12 DEF IndInv, TypeOK, TxInv
    <2>4. \A q \in Proc : 1..(at'[q] - 1) \subseteq applied'
      BY <1>3, <1>5, <1>12, <2>1 DEF IndInv, TypeOK, InOrder
    <2>5. SuccessMeansComplete'
      BY <1>3, <1>10, <1>12 DEF IndInv, TypeOK, SuccessMeansComplete
    <2> QED
      BY <1>7, <1>11, <2>2, <2>3, <2>4, <2>5 DEF IndInv, InOrder
  <1>13. ASSUME NEW r \in {"ok", "error"}, End(p, r), r = "ok" => at[p] = Count
         PROVE  IndInv'
    <2>1. TypeOK'
      BY <1>3, <1>9, <1>10, <1>13 DEF End, IndInv, TypeOK
    <2>2. TxInv'
      BY <1>3, <1>6, <1>13 DEF End, IndInv, TypeOK, TxInv
    <2>3. \A q \in Proc : 1..(at'[q] - 1) \subseteq applied'
      BY <1>3, <1>13 DEF End, IndInv, InOrder
    <2>4. r = "ok" => applied' = 1..Count
      BY <1>5, <1>10, <1>13
    <2>5. SuccessMeansComplete'
      BY <1>3, <1>10, <1>13, <2>4 DEF End, IndInv, TypeOK, SuccessMeansComplete
    <2> QED
      BY <1>7, <1>11, <2>1, <2>2, <2>3, <2>5 DEF IndInv, InOrder
  <1> QED
    BY <1>8, <1>12, <1>13

\* Every step of every run keeps the invariant.
LEMMA NextInv == IndInv /\ [Next]_vars => IndInv'
  <1> SUFFICES ASSUME IndInv, [Next]_vars
               PROVE  IndInv'
    OBVIOUS
  <1>1. ASSUME NEW p \in Proc, runMigration(p)
        PROVE  IndInv'
    BY <1>1, FindLogInv, CreateLogInv, CheckInv, ExecInv, CreateInv, RecordInv,
       CommitInv DEF runMigration, applyMigration
  <1>2. ASSUME NEW p \in Proc, Fail(p)
        PROVE  IndInv'
    BY <1>2, RollbackInv DEF Fail
  <1>3. CASE UNCHANGED vars
    BY <1>3 DEF vars, IndInv, TypeOK, TxInv, RecordedIffMade, InOrder,
                SuccessMeansComplete
  <1> QED
    BY <1>1, <1>2, <1>3, RunInv DEF Next

\* The invariant holds in every reachable state.
THEOREM MigrateInv == Spec => []IndInv
  BY InitInv, NextInv, PTL DEF Spec

\* RecordedIffMade: whatever fails, a migration is recorded exactly when its
\* object exists.
THEOREM RecordAgrees == Spec => []RecordedIffMade
  <1>1. IndInv => RecordedIffMade
    BY DEF IndInv
  <1> QED
    BY <1>1, MigrateInv, PTL

\* InOrder: no migration is skipped, and no index precedes its table.
THEOREM NoneSkipped == Spec => []InOrder
  <1>1. IndInv => InOrder
    BY DEF IndInv
  <1> QED
    BY <1>1, MigrateInv, PTL

\* SuccessMeansComplete: a run that reports success leaves the whole schema.
THEOREM SuccessIsComplete == Spec => []SuccessMeansComplete
  <1>1. IndInv => SuccessMeansComplete
    BY DEF IndInv
  <1> QED
    BY <1>1, MigrateInv, PTL

\* applyMigration, concurrently: whoever waits for another's CREATE or record waits
\* in the end for a run that is about to commit or to record, and waits for nobody.
THEOREM WaitingEndsHolds == Spec => []WaitingEnds
  <1>1. IndInv => WaitingEnds
    <2> SUFFICES ASSUME IndInv, NEW p \in Proc, NEW q \in Proc, q \in WaitsFor(p)
                 PROVE  \E r \in Proc : /\ at[r] = at[p]
                                        /\ pc[r] \in {"record", "commit"}
                                        /\ WaitsFor(r) = {}
      BY DEF WaitingEnds, WaitsFor
    <2>1. at[q] = at[p] /\ pc[q] \in {"record", "commit"}
      BY DEF WaitsFor, IndInv, TxInv
    <2>2. ASSUME NEW r \in Proc, pc[r] = "commit" PROVE WaitsFor(r) = {}
      BY <2>2 DEF WaitsFor
    <2>3. ASSUME pc[q] = "record", NEW r \in WaitsFor(q)
          PROVE  r \in Proc /\ at[r] = at[q] /\ pc[r] = "commit"
      BY <2>3 DEF WaitsFor
    <2> QED
      BY <2>1, <2>2, <2>3
  <1> QED
    BY <1>1, MigrateInv, PTL

\* The typing of Migrate: in particular no run goes past the last migration.
THEOREM MigrateTyping == Spec => []TypeOK
  <1>1. IndInv => TypeOK
    BY DEF IndInv
  <1> QED
    BY <1>1, MigrateInv, PTL

-----------------------------------------------------------------------------
(***************************************************************************)
(* Runs that meet never all fail on each other: at any time one of them is *)
(* ahead, and it fails on another only when that one has got ahead.        *)
(***************************************************************************)

\* Nobody has made what q is about to make.
Ahead(q) == \/ pc[q] = "done" /\ res[q] = "ok"
            \/ pc[q] \in {"log", "check"}
            \/ pc[q] = "createLog" /\ 0 \notin objects
            \/ pc[q] \in {"exec", "create", "record", "commit"} /\ at[q] \notin objects

SomeoneAhead ==
    ~trouble /\ (\E p \in Proc : pc[p] # "idle") => \E q \in Proc : Ahead(q)

\* What p does without making anything leaves the others as far as they were.
LEMMA OthersAhead ==
  ASSUME TypeOK, NEW p \in Proc, NEW q \in Proc, q # p, Ahead(q), objects' = objects,
         \/ \E r \in {"ok", "error"} : End(p, r)
         \/ \E label : Goto(p, label)
  PROVE  Ahead(q)'
  <1>1. pc'[q] = pc[q] /\ at'[q] = at[q] /\ res'[q] = res[q]
    BY DEF TypeOK, End, Goto
  <1> QED
    BY <1>1 DEF Ahead

\* A run that stays ahead of where it fails leaves another one ahead.
LEMMA StillAhead ==
  ASSUME IndInv, SomeoneAhead, ~trouble, NEW p \in Proc, pc[p] # "idle",
         objects' = objects,
         \/ \E r \in {"ok", "error"} : End(p, r)
         \/ \E label : Goto(p, label),
         Ahead(p) => Ahead(p)'
  PROVE  \E q \in Proc : Ahead(q)'
  <1>1. PICK q \in Proc : Ahead(q)
    BY DEF SomeoneAhead
  <1>2. CASE q = p
    BY <1>1, <1>2
  <1>3. CASE q # p
    BY <1>1, <1>3, OthersAhead DEF IndInv
  <1> QED
    BY <1>2, <1>3

LEMMA NextAhead ==
  ASSUME IndInv, SomeoneAhead, [Next]_vars
  PROVE  SomeoneAhead'
  <1>1. TypeOK /\ TxInv /\ RecordedIffMade
    BY DEF IndInv
  <1>2. CASE UNCHANGED vars
    BY <1>2 DEF vars, SomeoneAhead, Ahead
  <1>3. CASE trouble'
    BY <1>3 DEF SomeoneAhead
  <1>4. ASSUME ~trouble', NEW p \in Proc, Run(p) PROVE \E q \in Proc : Ahead(q)'
    <2>1. pc'[p] = "log"
      BY <1>1, <1>4 DEF Run, TypeOK
    <2> QED
      BY <2>1 DEF Ahead
  <1>5. ASSUME ~trouble', NEW p \in Proc, FindLog(p) PROVE \E q \in Proc : Ahead(q)'
    <2>1. /\ objects' = objects
          /\ pc'[p] = IF 0 \in objects THEN "check" ELSE "createLog"
      BY <1>1, <1>5 DEF FindLog, Goto, TypeOK
    <2> QED
      BY <2>1 DEF Ahead
  <1>6. ASSUME ~trouble', NEW p \in Proc, CreateLog(p) PROVE \E q \in Proc : Ahead(q)'
    <2>1. CASE 0 \in objects
      <3>1. End(p, "error") /\ objects' = objects /\ ~trouble /\ pc[p] = "createLog"
        BY <1>6, <2>1 DEF CreateLog, Rollback
      <3>2. ~Ahead(p)
        BY <2>1, <3>1 DEF Ahead
      <3> QED
        BY <3>1, <3>2, StillAhead
    <2>2. CASE 0 \notin objects
      <3>1. pc'[p] = "check"
        BY <1>1, <1>6, <2>2 DEF CreateLog, Goto, TypeOK
      <3> QED
        BY <3>1 DEF Ahead
    <2> QED
      BY <2>1, <2>2
  <1>7. ASSUME ~trouble', NEW p \in Proc, Check(p) PROVE \E q \in Proc : Ahead(q)'
    <2>1. CASE at[p] \in applied
      <3>1. pc'[p] = "check" \/ (pc'[p] = "done" /\ res'[p] = "ok")
        BY <1>1, <1>7, <2>1 DEF Check, NextMigration, End, TypeOK
      <3> QED
        BY <3>1 DEF Ahead
    <2>2. CASE at[p] \notin applied
      <3>1. pc'[p] = "exec" /\ at'[p] = at[p] /\ objects' = objects
        BY <1>1, <1>7, <2>2 DEF Check, Goto, TypeOK
      <3>2. at[p] \notin objects
        BY <1>1, <2>2 DEF RecordedIffMade, TypeOK
      <3> QED
        BY <3>1, <3>2 DEF Ahead
    <2> QED
      BY <2>1, <2>2
  <1>8. ASSUME ~trouble', NEW p \in Proc, Exec(p) PROVE \E q \in Proc : Ahead(q)'
    <2> DEFINE label == IF at[p] \in objects THEN "record" ELSE "create"
    <2>1. Goto(p, label) /\ objects' = objects /\ ~trouble /\ pc[p] = "exec"
      BY <1>8 DEF Exec
    <2>2. pc'[p] = label /\ at'[p] = at[p]
      BY <1>1, <2>1 DEF Goto, TypeOK
    <2>3. Ahead(p) => Ahead(p)'
      BY <2>1, <2>2 DEF Ahead
    <2> QED
      BY <2>1, <2>3, StillAhead
  <1>9. ASSUME ~trouble', NEW p \in Proc, Create(p) PROVE \E q \in Proc : Ahead(q)'
    <2>1. CASE at[p] \in objects
      <3>1. End(p, "error") /\ objects' = objects /\ ~trouble /\ pc[p] = "create"
        BY <1>9, <2>1 DEF Create, Rollback
      <3>2. ~Ahead(p)
        BY <2>1, <3>1 DEF Ahead
      <3> QED
        BY <3>1, <3>2, StillAhead
    <2>2. CASE at[p] \notin objects
      <3>1. pc'[p] = "record" /\ at'[p] = at[p] /\ objects' = objects
        BY <1>1, <1>9, <2>2 DEF Create, Goto, TypeOK
      <3> QED
        BY <2>2, <3>1 DEF Ahead
    <2> QED
      BY <2>1, <2>2
  <1>10. ASSUME ~trouble', NEW p \in Proc, Record(p) PROVE \E q \in Proc : Ahead(q)'
    <2>1. objects' = objects /\ ~trouble /\ pc[p] = "record"
      BY <1>10 DEF Record, Rollback
    <2>2. CASE at[p] \in applied
      <3>1. End(p, "error")
        BY <1>10, <2>2 DEF Record, Rollback
      <3>2. ~Ahead(p)
        BY <1>1, <2>1, <2>2 DEF Ahead, RecordedIffMade
      <3> QED
        BY <2>1, <3>1, <3>2, StillAhead
    <2>3. CASE at[p] \notin applied
      <3>1. Goto(p, "commit")
        BY <1>10, <2>3 DEF Record
      <3>2. pc'[p] = "commit" /\ at'[p] = at[p]
        BY <1>1, <3>1 DEF Goto, TypeOK
      <3>3. Ahead(p) => Ahead(p)'
        BY <2>1, <3>2 DEF Ahead
      <3> QED
        BY <2>1, <3>1, <3>3, StillAhead
    <2> QED
      BY <2>2, <2>3
  <1>11. ASSUME ~trouble', NEW p \in Proc, Commit(p) PROVE \E q \in Proc : Ahead(q)'
    <2>1. NextMigration(p)
      BY <1>11 DEF Commit
    <2>2. pc'[p] = "check" \/ (pc'[p] = "done" /\ res'[p] = "ok")
      BY <1>1, <2>1 DEF NextMigration, End, TypeOK
    <2> QED
      BY <2>2 DEF Ahead
  <1>12. ASSUME NEW p \in Proc, Fail(p) PROVE trouble'
    BY <1>12 DEF Fail
  <1> QED
    BY <1>2, <1>3, <1>4, <1>5, <1>6, <1>7, <1>8, <1>9, <1>10, <1>11, <1>12
    DEF Next, runMigration, applyMigration, SomeoneAhead

\* SomeRunSucceeds: when all runs have ended and nothing but the runs themselves
\* got in their way, one has migrated the schema.
THEOREM OneRunSucceeds == Spec => []SomeRunSucceeds
  <1>1. Init => SomeoneAhead
    BY DEF Init, SomeoneAhead
  <1>2. IndInv /\ SomeoneAhead /\ [Next]_vars => SomeoneAhead'
    BY NextAhead
  <1>3. SomeoneAhead => SomeRunSucceeds
    BY ProcAssumption DEF SomeoneAhead, Ahead, SomeRunSucceeds
  <1> QED
    BY <1>1, <1>2, <1>3, MigrateInv, PTL DEF Spec
=============================================================================

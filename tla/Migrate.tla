------------------------------ MODULE Migrate ------------------------------
(***************************************************************************)
(* The migrate command: runs of runMigration, at the same time or one      *)
(* after the other, over one database.                                     *)
(*                                                                         *)
(* Object 0 is the table schema_migrations, object 1 the refresh_tokens    *)
(* table and the others its indexes, in the order of the migrations.       *)
(* Every statement is "IF NOT EXISTS", which PostgreSQL decides on what is *)
(* committed when the statement begins: a statement that then meets        *)
(* another transaction creating the same object waits for it to end, and   *)
(* fails with a duplicate key when it has committed.                       *)
(***************************************************************************)
EXTENDS Naturals

CONSTANTS Proc,    \* runs of the command at the same time
          Count    \* number of migrations

ASSUME CountAssumption == Count \in Nat \ {0}
ASSUME ProcAssumption == Proc # {}

VARIABLES objects,   \* committed objects of the schema
          applied,   \* committed rows of schema_migrations
          pc,        \* pc[p]: the next statement of run p
          at,        \* at[p]: the migration p is at
          made,      \* made[p]: p's open transaction has created object at[p]
          res,       \* res[p]: how p's run ended
          trouble    \* a statement, a connection or a process has failed

vars == <<objects, applied, pc, at, made, res, trouble>>

Migrations == 1..Count

TypeOK == /\ objects \in SUBSET (0..Count)
          /\ applied \in SUBSET Migrations
          /\ pc \in [Proc -> {"idle", "log", "createLog", "check", "exec",
                              "create", "record", "commit", "done"}]
          /\ at \in [Proc -> Migrations]
          /\ made \in [Proc -> BOOLEAN]
          /\ res \in [Proc -> {"none", "ok", "error"}]
          /\ trouble \in BOOLEAN

Init == /\ objects = {}
        /\ applied = {}
        /\ pc = [p \in Proc |-> "idle"]
        /\ at = [p \in Proc |-> 1]
        /\ made = [p \in Proc |-> FALSE]
        /\ res = [p \in Proc |-> "none"]
        /\ trouble = FALSE

-----------------------------------------------------------------------------

Goto(p, label) == /\ pc' = [pc EXCEPT ![p] = label]
                  /\ UNCHANGED <<at, res>>

End(p, r) == /\ pc' = [pc EXCEPT ![p] = "done"]
             /\ res' = [res EXCEPT ![p] = r]
             /\ UNCHANGED at

\* A loop that goes one migration too far.
NextMigrationPastEnd(p) == /\ at' = [at EXCEPT ![p] = @ + 1]
                           /\ pc' = [pc EXCEPT ![p] = "check"]
                           /\ UNCHANGED res

\* The loop over the migrations: the next one, or the end of the run.
NextMigration(p) ==
    \/ /\ at[p] < Count
       /\ at' = [at EXCEPT ![p] = @ + 1]
       /\ pc' = [pc EXCEPT ![p] = "check"]
       /\ UNCHANGED res
    \/ /\ at[p] = Count
       /\ End(p, "ok")

\* The transaction ends: committed or rolled back.
Close(p) == made' = [made EXCEPT ![p] = FALSE]

\* An error that is not passed on.
RollbackSilently(p) == /\ End(p, "ok")
                       /\ Close(p)
                       /\ UNCHANGED <<objects, applied>>

Rollback(p) == /\ End(p, "error")
               /\ Close(p)
               /\ UNCHANGED <<objects, applied>>

-----------------------------------------------------------------------------
(***************************************************************************)
(* runMigration: schema_migrations is created outside any transaction.     *)
(***************************************************************************)

Run(p) == /\ pc[p] \in {"idle", "done"}
          /\ pc' = [pc EXCEPT ![p] = "log"]
          /\ at' = [at EXCEPT ![p] = 1]
          /\ res' = [res EXCEPT ![p] = "none"]
          /\ UNCHANGED <<objects, applied, made, trouble>>

FindLog(p) == /\ pc[p] = "log"
              /\ Goto(p, IF 0 \in objects THEN "check" ELSE "createLog")
              /\ UNCHANGED <<objects, applied, made, trouble>>

CreateLog(p) == /\ pc[p] = "createLog"
                /\ \/ /\ 0 \in objects          \* created meanwhile
                      /\ Rollback(p)
                   \/ /\ 0 \notin objects
                      /\ objects' = objects \cup {0}
                      /\ Goto(p, "check")
                      /\ UNCHANGED <<applied, made>>
                /\ UNCHANGED trouble

-----------------------------------------------------------------------------
(***************************************************************************)
(* applyMigration.                                                         *)
(***************************************************************************)

\* A lookup without "WHERE name = $1".
CheckAnyName(p) == /\ pc[p] = "check"
                   /\ \/ applied # {} /\ NextMigration(p)
                      \/ applied = {} /\ Goto(p, "exec")
                   /\ UNCHANGED <<objects, applied, made, trouble>>

\* A migration that is refused when it has been applied.
CheckOnce(p) == /\ pc[p] = "check"
                /\ \/ at[p] \in applied /\ Rollback(p)
                   \/ at[p] \notin applied /\ Goto(p, "exec")
                /\ UNCHANGED <<objects, applied, made, trouble>>

Check(p) == /\ pc[p] = "check"
            /\ \/ at[p] \in applied /\ NextMigration(p)
               \/ at[p] \notin applied /\ Goto(p, "exec")
            /\ UNCHANGED <<objects, applied, made, trouble>>

\* Begin, and the first half of the statement: does the object exist?  The
\* table of an index always does (InOrder).
Exec(p) == /\ pc[p] = "exec"
           /\ Goto(p, IF at[p] \in objects THEN "record" ELSE "create")
           /\ UNCHANGED <<objects, applied, made, trouble>>

\* A CREATE run on the connection pool and not in the transaction.
CreateOutsideTx(p) == /\ pc[p] = "create"
                      /\ \A q \in Proc : ~(made[q] /\ at[q] = at[p])
                      /\ \/ /\ at[p] \in objects
                            /\ Rollback(p)
                         \/ /\ at[p] \notin objects
                            /\ objects' = objects \cup {at[p]}
                            /\ Goto(p, "record")
                            /\ UNCHANGED <<applied, made>>
                      /\ UNCHANGED trouble

\* The second half waits for a transaction that is creating the same object.
Create(p) == /\ pc[p] = "create"
             /\ \A q \in Proc : ~(made[q] /\ at[q] = at[p])
             /\ \/ /\ at[p] \in objects
                   /\ Rollback(p)
                \/ /\ at[p] \notin objects
                   /\ made' = [made EXCEPT ![p] = TRUE]
                   /\ Goto(p, "record")
                   /\ UNCHANGED <<objects, applied>>
             /\ UNCHANGED trouble

\* The row's primary key is the name of the migration.
Record(p) == /\ pc[p] = "record"
             /\ \A q \in Proc : ~(pc[q] = "commit" /\ at[q] = at[p])
             /\ \/ /\ at[p] \in applied
                   /\ Rollback(p)
                \/ /\ at[p] \notin applied
                   /\ Goto(p, "commit")
                   /\ UNCHANGED <<objects, applied, made>>
             /\ UNCHANGED trouble

\* A commit may be reported as failed after it took effect.
Commit(p) == /\ pc[p] = "commit"
             /\ objects' = objects \cup IF made[p] THEN {at[p]} ELSE {}
             /\ applied' = applied \cup {at[p]}
             /\ Close(p)
             /\ \/ NextMigration(p) /\ UNCHANGED trouble
                \/ End(p, "error") /\ trouble' = TRUE

\* A connection that goes back to the pool with its transaction open.
FailInTx(p) == /\ pc[p] \notin {"idle", "done"}
               /\ End(p, "error")
               /\ UNCHANGED <<objects, applied, made>>
               /\ trouble' = TRUE

\* A statement fails, or the process or its connection dies: PostgreSQL rolls
\* an open transaction back.
Fail(p) == /\ pc[p] \notin {"idle", "done"}
           /\ Rollback(p)
           /\ trouble' = TRUE

applyMigration(p) == \/ Check(p)
                     \/ Exec(p)
                     \/ Create(p)
                     \/ Record(p)
                     \/ Commit(p)

runMigration(p) == \/ FindLog(p)
                   \/ CreateLog(p)
                   \/ applyMigration(p)

Next == \E p \in Proc : Run(p) \/ runMigration(p) \/ Fail(p)

Spec == Init /\ [][Next]_vars

\* The process goes on, and PostgreSQL wakes those who wait for a transaction.
FairSpec == Spec /\ \A p \in Proc : SF_vars(runMigration(p))

-----------------------------------------------------------------------------
(***************************************************************************)
(* Properties.                                                             *)
(***************************************************************************)

\* Whatever fails and whoever runs at the same time, a migration is recorded
\* exactly when its object exists, so a later run resumes where this one ended.
RecordedIffMade == applied = objects \cap Migrations

\* No run gets past a migration that has not been applied, so those recorded
\* are always the first ones of the list and no index is attempted before its
\* table.
InOrder == /\ \A p \in Proc : 1..(at[p] - 1) \subseteq applied
           /\ \A m \in applied : 1..m \subseteq applied

\* A run that reports success leaves the whole schema in place, also when other
\* runs did part of the work.
SuccessMeansComplete ==
    \A p \in Proc : res[p] = "ok" => applied = Migrations

\* Runs that meet make each other fail with duplicate keys, but never all of
\* them: when all have ended and nothing else went wrong, one has succeeded.
SomeRunSucceeds ==
    (\A p \in Proc : pc[p] = "done") /\ ~trouble => \E p \in Proc : res[p] = "ok"

\* The runs whose transaction has to end before p's next statement can.
WaitsFor(p) == {q \in Proc : /\ at[q] = at[p]
                             /\ \/ pc[p] = "create" /\ made[q]
                                \/ pc[p] = "record" /\ pc[q] = "commit"}

\* Runs never wait for each other in a circle, nor for a run that is gone: whoever
\* waits, waits in the end for a run that can go on.
WaitingEnds ==
    \A p \in Proc : WaitsFor(p) # {} =>
        \E q \in Proc : /\ at[q] = at[p]
                        /\ pc[q] \in {"record", "commit"}
                        /\ WaitsFor(q) = {}

\* What keeps transactions apart: an object being created is nobody else's and
\* not there yet, and a migration being recorded has its object.
TxInv ==
    /\ \A p \in Proc :
          /\ made[p] => pc[p] \in {"record", "commit"} /\ at[p] \notin objects
          /\ pc[p] \in {"record", "commit"} => made[p] \/ at[p] \in objects
          /\ pc[p] = "commit" => at[p] \notin applied
    /\ \A p, q \in Proc : made[p] /\ made[q] /\ at[p] = at[q] => p = q

\* The inductive invariant behind the first three properties.
IndInv == /\ TypeOK
          /\ TxInv
          /\ RecordedIffMade
          /\ InOrder
          /\ SuccessMeansComplete

\* Every run ends: no cycle of waiting, and no run waits for one that is gone.
EveryRunEnds == \A p \in Proc : pc[p] # "idle" ~> pc[p] = "done"
=============================================================================

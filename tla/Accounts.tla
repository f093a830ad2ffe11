------------------------------ MODULE Accounts ------------------------------
(***************************************************************************)
(* Registration and sign-in: POST /auth/sign-up, POST /users and           *)
(* POST /auth/sign-in over the users table.                                *)
(*                                                                         *)
(* The table is created outside the repository; of its constraints only    *)
(* UNIQUE (email) is assumed, the least that makes isDuplicateKeyError     *)
(* mean what it says.  An e-mail is an address and the way it is spelled,  *)
(* and two spellings differ in case or in surrounding blanks only.  The    *)
(* handlers' checks of required fields and password lengths keep no state  *)
(* and are taken as passed.                                                *)
(***************************************************************************)
CONSTANTS Proc,         \* requests being served at the same time
          Account,      \* ids NewUser can draw (bounds a run)
          Address,      \* e-mail addresses, however they are spelled
          Password,
          NoAccount, NoRequest

Email == [address : Address, spelling : {"lower", "mixed", "blanks"}]

Row == [email    : [address : Address, spelling : {"lower", "mixed"}],
        password : Password,
        active   : BOOLEAN,
        deleted  : BOOLEAN]

Request == [op       : {"signup", "create", "signin"},
            email    : Email,
            password : Password,
            account  : Account \cup {NoAccount}]   \* drawn or found

ASSUME NullAssumption == /\ NoAccount \notin Account \cup Row
                         /\ NoRequest \notin Request

VARIABLES accounts,   \* the users table
          sessions,   \* accounts a session has been stored for
          signedUp,   \* history: accounts that SignUp, not CreateUser, made
          pc, req, res

vars == <<accounts, sessions, signedUp, pc, req, res>>

TypeOK == /\ accounts \in [Account -> Row \cup {NoAccount}]
          /\ sessions \in SUBSET Account
          /\ signedUp \in SUBSET Account
          /\ pc \in [Proc -> {"idle", "createUser", "findByEmail",
                              "issueSession", "done"}]
          /\ req \in [Proc -> Request \cup {NoRequest}]
          /\ res \in [Proc -> {"none", "ok", "exists", "credentials", "inactive",
                               "error"}]

Init == /\ accounts = [a \in Account |-> NoAccount]
        /\ sessions = {}
        /\ signedUp = {}
        /\ pc = [p \in Proc |-> "idle"]
        /\ req = [p \in Proc |-> NoRequest]
        /\ res = [p \in Proc |-> "none"]

-----------------------------------------------------------------------------

\* A normalisation that trims but does not lower the case.
trimEmail(e) == IF e.spelling = "blanks" THEN [e EXCEPT !.spelling = "mixed"] ELSE e

normalizeEmail(e) == [e EXCEPT !.spelling = "lower"]

Registered == {a \in Account : accounts[a] # NoAccount}

\* WHERE email = $1.
FoundExactly(e) == {a \in Registered : accounts[a].email = e /\ ~accounts[a].deleted}

\* WHERE LOWER(email) = LOWER($1) AND deleted_at IS NULL, for an e-mail without
\* blanks around it.
FindByEmail(e) ==
    {a \in Registered : accounts[a].email.address = e.address /\ ~accounts[a].deleted}

\* Ids nobody has drawn: they never repeat.
NewIds == {a \in Account \ Registered :
              \A p \in Proc : req[p] # NoRequest => req[p].account # a}

Start(p, r, label) == /\ pc[p] = "idle"
                      /\ req' = [req EXCEPT ![p] = r]
                      /\ pc' = [pc EXCEPT ![p] = label]
                      /\ UNCHANGED <<accounts, sessions, signedUp, res>>

Answer(p, r) == /\ pc' = [pc EXCEPT ![p] = "done"]
                /\ res' = [res EXCEPT ![p] = r]

\* The request goes on to store a session for account a.
GrantSession(p, a) == /\ pc' = [pc EXCEPT ![p] = "issueSession"]
                      /\ req' = [req EXCEPT ![p] = [@ EXCEPT !.account = a]]
                      /\ UNCHANGED res

-----------------------------------------------------------------------------
(***************************************************************************)
(* Registration.  Sign-up normalises the e-mail; POST /users takes it as   *)
(* it is spelled, and its handler accepts no blanks.                       *)
(***************************************************************************)

SignUp(p, e, w, a) ==
    Start(p, [op |-> "signup", email |-> normalizeEmail(e), password |-> w,
              account |-> a], "createUser")

\* A handler without its check of the e-mail's form.
CreateUserAnySpelling(p, e, w, a) ==
    Start(p, [op |-> "create", email |-> e, password |-> w, account |-> a],
          "createUser")

CreateUser(p, e, w, a) ==
    /\ e.spelling # "blanks"
    /\ Start(p, [op |-> "create", email |-> e, password |-> w, account |-> a],
             "createUser")

NewUser(r) == [email |-> r.email, password |-> r.password,
               active |-> TRUE, deleted |-> FALSE]

Duplicates(e) == {a \in Registered : accounts[a].email = e}

\* What an INSERT that succeeds does, and what it answers: a sign-up goes on to
\* the session, and either may be told of a failure after it took effect.
Insert(p, r) ==
    /\ accounts' = [accounts EXCEPT ![r.account] = NewUser(r)]
    /\ signedUp' = signedUp \cup IF r.op = "signup" THEN {r.account} ELSE {}
    /\ \/ r.op = "signup" /\ GrantSession(p, r.account)
       \/ r.op = "create" /\ Answer(p, "ok") /\ UNCHANGED req
       \/ Answer(p, "error") /\ UNCHANGED req

\* A registration that takes a duplicate for the client's own earlier attempt.
InsertUserOrSignIn(p) ==
    /\ pc[p] = "createUser"
    /\ \/ \E a \in Duplicates(req[p].email) :
             /\ GrantSession(p, a)
             /\ UNCHANGED <<accounts, signedUp>>
       \/ /\ Duplicates(req[p].email) = {}
          /\ Insert(p, req[p])
    /\ UNCHANGED sessions

InsertUser(p) ==
    /\ pc[p] = "createUser"
    /\ \/ /\ Duplicates(req[p].email) # {}
          /\ Answer(p, "exists")
          /\ UNCHANGED <<accounts, signedUp, req>>
       \/ /\ Duplicates(req[p].email) = {}
          /\ Insert(p, req[p])
    /\ UNCHANGED sessions

-----------------------------------------------------------------------------
(***************************************************************************)
(* Sign-in.  The row is read once and judged as it was then.  The query    *)
(* has LIMIT 1 and no order: any matching row may be the one.              *)
(***************************************************************************)

SignIn(p, e, w) ==
    Start(p, [op |-> "signin", email |-> normalizeEmail(e), password |-> w,
              account |-> NoAccount], "findByEmail")

LookUp(p) ==
    LET r == req[p]
        found == FindByEmail(r.email)
    IN
    /\ pc[p] = "findByEmail"
    /\ \/ /\ \/ found = {}
             \/ \E a \in found : accounts[a].password # r.password
          /\ Answer(p, "credentials")
          /\ UNCHANGED req
       \/ /\ \E a \in found : accounts[a].password = r.password /\ ~accounts[a].active
          /\ Answer(p, "inactive")
          /\ UNCHANGED req
       \/ \E a \in found :
             /\ accounts[a].password = r.password
             /\ accounts[a].active
             /\ GrantSession(p, a)
    /\ UNCHANGED <<accounts, sessions, signedUp>>

IssueSession(p) ==
    /\ pc[p] = "issueSession"
    /\ sessions' = sessions \cup {req[p].account}
    /\ Answer(p, "ok") \/ Answer(p, "error")
    /\ UNCHANGED <<accounts, signedUp, req>>

-----------------------------------------------------------------------------

\* A statement, or the hashing of a password, fails before it takes effect.
Fail(p) == /\ pc[p] \notin {"idle", "done"}
           /\ Answer(p, "error")
           /\ UNCHANGED <<accounts, sessions, signedUp, req>>

Reset(p) == /\ pc[p] = "done"
            /\ pc' = [pc EXCEPT ![p] = "idle"]
            /\ req' = [req EXCEPT ![p] = NoRequest]
            /\ res' = [res EXCEPT ![p] = "none"]
            /\ UNCHANGED <<accounts, sessions, signedUp>>

\* Accounts are switched off and deleted by code outside the repository.
Administer(a) ==
    /\ a \in Registered
    /\ \/ accounts' = [accounts EXCEPT ![a] = [@ EXCEPT !.active = FALSE]]
       \/ accounts' = [accounts EXCEPT ![a] = [@ EXCEPT !.deleted = TRUE]]
    /\ UNCHANGED <<sessions, signedUp, pc, req, res>>

Next == \/ \E p \in Proc :
              \/ \E e \in Email, w \in Password :
                    \/ SignIn(p, e, w)
                    \/ \E a \in NewIds : SignUp(p, e, w, a) \/ CreateUser(p, e, w, a)
              \/ InsertUser(p)
              \/ LookUp(p)
              \/ IssueSession(p)
              \/ Fail(p)
              \/ Reset(p)
        \/ \E a \in Account : Administer(a)

Spec == Init /\ [][Next]_vars

-----------------------------------------------------------------------------
(***************************************************************************)
(* Properties.                                                             *)
(***************************************************************************)

\* However they spell it, and whatever failed before, clients that sign up with
\* one address get one account between them.  (CreateUser may add another in
\* mixed case: it does not normalise.)
OneSignUpPerAddress ==
    \A a, b \in signedUp :
        accounts[a].email.address = accounts[b].email.address => a = b

\* Whoever is told that a sign-up or sign-in succeeded has a session of an
\* account with the address and the password it gave, never of one that another
\* client registered in between.
SessionsAuthenticated ==
    \A p \in Proc :
        pc[p] = "done" /\ res[p] = "ok" /\ req[p].op # "create" =>
            LET a == req[p].account IN
            /\ a \in sessions
            /\ a \in Registered
            /\ accounts[a].password = req[p].password
            /\ accounts[a].email.address = req[p].email.address

\* The right address and password of an account are refused only when another
\* account has the same address in another spelling: also the account of a
\* sign-up that was reported as failed, and one registered in mixed case, can
\* sign in.
RefusedOnlyForHomonym ==
    [][\A p \in Proc :
         /\ pc[p] = "findByEmail"
         /\ pc'[p] = "done" /\ res'[p] = "credentials"
         => \A a \in Registered :
               /\ ~accounts[a].deleted
               /\ accounts[a].email.address = req[p].email.address
               /\ accounts[a].password = req[p].password
               => \E b \in Registered \ {a} :
                     /\ ~accounts[b].deleted
                     /\ accounts[b].email.address = accounts[a].email.address]_vars
=============================================================================

--------------------------- MODULE AccountsProofs ---------------------------
(***************************************************************************)
(* Proofs about Accounts, for any number of concurrent requests.           *)
(***************************************************************************)
EXTENDS Accounts, TLAPS

\* What request p has drawn, found and normalised so far.
Holds(p) ==
    LET r == req[p] IN
    /\ pc[p] = "idle" <=> r = NoRequest
    /\ pc[p] = "createUser" =>
          /\ r.op \in {"signup", "create"}
          /\ r.email.spelling # "blanks"
          /\ r.op = "signup" => r.email.spelling = "lower"
          /\ r.account \in Account \ Registered
    /\ pc[p] = "findByEmail" => r.op = "signin"
    /\ pc[p] = "issueSession" =>
          /\ r.op \in {"signup", "signin"}
          /\ r.account \in Registered
          /\ accounts[r.account].password = r.password
          /\ accounts[r.account].email.address = r.email.address

\* A drawn id is nobody else's.
Drawn == \A p, q \in Proc :
            /\ pc[p] = "createUser"
            /\ req[q] # NoRequest
            /\ req[q].account = req[p].account
            => p = q

\* Sign-ups are stored in the one spelling UNIQUE (email) compares.
Lowered == \A a \in signedUp : /\ a \in Registered
                               /\ accounts[a].email.spelling = "lower"

AccountsInv == /\ TypeOK
               /\ \A p \in Proc : Holds(p)
               /\ Drawn
               /\ Lowered
               /\ OneSignUpPerAddress
               /\ SessionsAuthenticated

-----------------------------------------------------------------------------
(***************************************************************************)
(* Facts about values.                                                     *)
(***************************************************************************)

LEMMA Types ==
    ASSUME TypeOK
    PROVE  /\ accounts \in [Account -> Row \cup {NoAccount}]
           /\ sessions \subseteq Account /\ signedUp \subseteq Account
           /\ \A p \in Proc : req[p] # NoRequest =>
                 /\ req[p] \in Request
                 /\ req[p].op \in {"signup", "create", "signin"}
                 /\ req[p].email \in Email
                 /\ req[p].password \in Password
                 /\ req[p].account \in Account \cup {NoAccount}
           /\ \A a \in Registered : /\ a \in Account
                                    /\ accounts[a] \in Row
           /\ NoAccount \notin Registered
  BY NullAssumption DEF TypeOK, Request, Registered

\* Spelled alike and of one address is the same e-mail.
LEMMA SameEmail ==
    ASSUME NEW d \in Email, NEW e \in Email,
           d.address = e.address, d.spelling = e.spelling
    PROVE  d = e
  BY DEF Email

LEMMA RowFacts ==
    ASSUME NEW row \in Row
    PROVE  /\ row.email \in Email
           /\ row.email.address \in Address
           /\ row.email.spelling \in {"lower", "mixed"}
           /\ row.password \in Password
           /\ row # NoAccount
  BY NullAssumption DEF Row, Email

LEMMA NormalFacts ==
    ASSUME NEW e \in Email
    PROVE  normalizeEmail(e) \in Email /\ normalizeEmail(e).spelling = "lower"
  BY DEF normalizeEmail, Email

LEMMA NewUserFacts ==
    ASSUME NEW r \in Request, r.email.spelling # "blanks"
    PROVE  /\ NewUser(r) \in Row
           /\ NewUser(r).email = r.email
           /\ NewUser(r).password = r.password
<1>1. r.email \in [address : Address, spelling : {"lower", "mixed"}]
  BY DEF Request, Email
<1>2. r.password \in Password
  BY DEF Request
<1> QED
  BY <1>1, <1>2 DEF NewUser, Row

LEMMA InitAccountsInv == Init => AccountsInv
<1> SUFFICES ASSUME Init PROVE AccountsInv
  OBVIOUS
<1>1. TypeOK
  BY DEF Init, TypeOK
<1> QED
  BY <1>1 DEF Init, AccountsInv, Holds, Drawn, Lowered, OneSignUpPerAddress,
     SessionsAuthenticated, Registered

-----------------------------------------------------------------------------
(***************************************************************************)
(* The steps.                                                              *)
(***************************************************************************)

\* A request begins with a normalised e-mail and an id of its own.
LEMMA StartInv ==
    ASSUME AccountsInv, NEW p \in Proc, NEW r \in Request,
           NEW label \in {"createUser", "findByEmail"}, Start(p, r, label),
           label = "findByEmail" => r.op = "signin" /\ r.account = NoAccount,
           label = "createUser" =>
              /\ r.op \in {"signup", "create"} /\ r.account \in NewIds
              /\ r.email.spelling # "blanks"
              /\ r.op = "signup" => r.email.spelling = "lower"
    PROVE  AccountsInv'
<1>1. /\ TypeOK /\ Drawn /\ Lowered /\ OneSignUpPerAddress /\ SessionsAuthenticated
      /\ \A q \in Proc : Holds(q)
  BY DEF AccountsInv
<1>2. /\ pc[p] = "idle" /\ UNCHANGED <<accounts, sessions, signedUp, res>>
      /\ req'[p] = r /\ pc'[p] = label /\ r # NoRequest
      /\ \A q \in Proc \ {p} : req'[q] = req[q] /\ pc'[q] = pc[q]
      /\ Registered' = Registered
  BY <1>1, NullAssumption DEF Start, TypeOK, Registered
<1>3. TypeOK'
  BY <1>1 DEF Start, TypeOK
<1>4. ASSUME NEW q \in Proc PROVE Holds(q)'
  <2>1. CASE q = p
    BY <1>2, <2>1 DEF Holds, NewIds
  <2>2. CASE q # p
    BY <1>1, <1>2, <2>2 DEF Holds
  <2> QED
    BY <2>1, <2>2
<1>5. Drawn'
  <2> SUFFICES ASSUME NEW q \in Proc, NEW s \in Proc, pc'[q] = "createUser",
                      req'[s] # NoRequest, req'[s].account = req'[q].account
               PROVE  q = s
    BY DEF Drawn
  <2>1. CASE q = p
    BY <1>2, <2>1 DEF NewIds
  <2>2. CASE q # p /\ s = p
    <3>1. pc[q] = "createUser" /\ req[q].account \in Account \ Registered
      BY <1>1, <1>2, <2>2 DEF Holds
    <3>2. req[q] # NoRequest
      BY <1>1, <3>1 DEF Holds
    <3> QED
      BY <1>2, <2>2, <3>1, <3>2, NullAssumption DEF NewIds
  <2>3. CASE q # p /\ s # p
    BY <1>1, <1>2, <2>3 DEF Drawn
  <2> QED
    BY <2>1, <2>2, <2>3
<1>6. Lowered' /\ OneSignUpPerAddress'
  BY <1>1, <1>2 DEF Lowered, OneSignUpPerAddress
<1>7. SessionsAuthenticated'
  BY <1>1, <1>2 DEF SessionsAuthenticated
<1> QED
  BY <1>3, <1>4, <1>5, <1>6, <1>7 DEF AccountsInv

\* An answer that leaves the table alone is true when it is given.
LEMMA AnswerInv ==
    ASSUME AccountsInv, NEW p \in Proc, pc[p] # "idle",
           NEW r \in {"ok", "exists", "credentials", "inactive", "error"}, Answer(p, r),
           UNCHANGED <<accounts, signedUp, req>>,
           sessions \subseteq sessions', sessions' \subseteq Account,
           r = "ok" => pc[p] = "issueSession" /\ req[p].account \in sessions'
    PROVE  AccountsInv'
<1>1. /\ TypeOK /\ Drawn /\ Lowered /\ OneSignUpPerAddress /\ SessionsAuthenticated
      /\ \A q \in Proc : Holds(q)
  BY DEF AccountsInv
<1>2. /\ pc'[p] = "done" /\ res'[p] = r
      /\ \A q \in Proc \ {p} : pc'[q] = pc[q] /\ res'[q] = res[q]
      /\ Registered' = Registered
  BY <1>1 DEF Answer, TypeOK, Registered
<1>3. TypeOK'
  BY <1>1 DEF Answer, TypeOK
<1>4. ASSUME NEW q \in Proc PROVE Holds(q)'
  BY <1>1, <1>2 DEF Holds
<1>5. Drawn' /\ Lowered' /\ OneSignUpPerAddress'
  BY <1>1, <1>2 DEF Drawn, Lowered, OneSignUpPerAddress
<1>6. SessionsAuthenticated'
  BY <1>1, <1>2 DEF SessionsAuthenticated, Holds
<1> QED
  BY <1>3, <1>4, <1>5, <1>6 DEF AccountsInv

\* A sign-in is granted a session of the account it named and proved to own.
LEMMA GrantInv ==
    ASSUME AccountsInv, NEW p \in Proc, pc[p] = "findByEmail",
           NEW a \in Registered, GrantSession(p, a),
           accounts[a].password = req[p].password,
           accounts[a].email.address = req[p].email.address,
           UNCHANGED <<accounts, sessions, signedUp>>
    PROVE  AccountsInv'
<1>1. /\ TypeOK /\ Drawn /\ Lowered /\ OneSignUpPerAddress /\ SessionsAuthenticated
      /\ \A q \in Proc : Holds(q)
  BY DEF AccountsInv
<1>2. req[p] \in Request /\ req[p].op = "signin" /\ a \in Account
  BY <1>1, Types DEF Holds
<1> DEFINE r == [req[p] EXCEPT !.account = a]
<1>3. /\ r \in Request /\ r # NoRequest
      /\ r.op = req[p].op /\ r.email = req[p].email /\ r.password = req[p].password
      /\ r.account = a
  BY <1>2, NullAssumption DEF Request
<1>4. /\ req'[p] = r /\ pc'[p] = "issueSession"
      /\ \A q \in Proc \ {p} : req'[q] = req[q] /\ pc'[q] = pc[q]
      /\ Registered' = Registered
  BY <1>1 DEF GrantSession, TypeOK, Registered
<1>5. TypeOK'
  BY <1>1, <1>3 DEF GrantSession, TypeOK
<1>6. ASSUME NEW q \in Proc PROVE Holds(q)'
  <2>1. CASE q = p
    BY <1>2, <1>3, <1>4, <2>1 DEF Holds
  <2>2. CASE q # p
    BY <1>1, <1>4, <2>2 DEF Holds
  <2> QED
    BY <2>1, <2>2
<1>7. Drawn'
  <2> SUFFICES ASSUME NEW q \in Proc, NEW s \in Proc, pc'[q] = "createUser",
                      req'[s] # NoRequest, req'[s].account = req'[q].account
               PROVE  q = s
    BY DEF Drawn
  <2>1. q # p /\ pc[q] = "createUser" /\ req'[q] = req[q]
    BY <1>4
  <2>2. req[q].account \notin Registered
    BY <1>1, <2>1 DEF Holds
  <2>3. s # p
    <3>1. req'[p].account = a
      BY <1>3, <1>4
    <3>2. req'[q].account # a
      BY <2>1, <2>2
    <3> QED
      BY <3>1, <3>2
  <2> QED
    BY <1>1, <1>4, <2>1, <2>3 DEF Drawn
<1>8. Lowered' /\ OneSignUpPerAddress'
  BY <1>1, <1>4 DEF Lowered, OneSignUpPerAddress
<1>9. SessionsAuthenticated'
  BY <1>1, <1>4 DEF SessionsAuthenticated, GrantSession
<1> QED
  BY <1>5, <1>6, <1>7, <1>8, <1>9 DEF AccountsInv

\* An INSERT that succeeds meets no row of its id and none of its e-mail.
LEMMA InsertInv ==
    ASSUME AccountsInv, NEW p \in Proc, pc[p] = "createUser",
           Duplicates(req[p].email) = {}, Insert(p, req[p]), UNCHANGED sessions
    PROVE  AccountsInv'
<1> DEFINE r == req[p]
           n == r.account
           g == [r EXCEPT !.account = n]
<1>1. /\ TypeOK /\ Drawn /\ Lowered /\ OneSignUpPerAddress /\ SessionsAuthenticated
      /\ \A q \in Proc : Holds(q)
  BY DEF AccountsInv
<1>2. /\ r # NoRequest /\ r \in Request /\ r.op \in {"signup", "create"}
      /\ r.email \in Email /\ r.email.spelling # "blanks"
      /\ r.op = "signup" => r.email.spelling = "lower"
      /\ n \in Account /\ n \notin Registered
  <2>1. r # NoRequest
    BY <1>1 DEF Holds
  <2> QED
    BY <1>1, <2>1, Types DEF Holds
<1>3. /\ NewUser(r) \in Row /\ NewUser(r).email = r.email
      /\ NewUser(r).password = r.password
  BY <1>2, NewUserFacts
<1>4. g = r
  BY <1>2 DEF Request
<1>5. /\ accounts' = [accounts EXCEPT ![n] = NewUser(r)]
      /\ signedUp' = signedUp \cup IF r.op = "signup" THEN {n} ELSE {}
      /\ \/ /\ r.op = "signup"
            /\ pc' = [pc EXCEPT ![p] = "issueSession"]
            /\ req' = [req EXCEPT ![p] = g]
            /\ UNCHANGED res
         \/ r.op = "create" /\ Answer(p, "ok") /\ UNCHANGED req
         \/ Answer(p, "error") /\ UNCHANGED req
  BY DEF Insert, GrantSession
<1>6. req' = req
  <2>1. [req EXCEPT ![p] = g] = req
    BY <1>1, <1>4 DEF TypeOK
  <2> QED
    BY <1>5, <2>1
<1>7. /\ \/ pc'[p] = "issueSession" /\ r.op = "signup" /\ res' = res
         \/ pc'[p] = "done" /\ (r.op = "create" \/ res'[p] = "error")
      /\ \A q \in Proc \ {p} : pc'[q] = pc[q] /\ res'[q] = res[q]
  BY <1>1, <1>5 DEF Answer, TypeOK
<1>8. /\ accounts' \in [Account -> Row \cup {NoAccount}]
      /\ accounts'[n] = NewUser(r)
      /\ \A a \in Account : a # n => accounts'[a] = accounts[a]
      /\ Registered' = Registered \cup {n}
      /\ \A a \in Registered : a # n /\ a \in Account
  <2>1. /\ accounts' \in [Account -> Row \cup {NoAccount}]
        /\ accounts'[n] = NewUser(r)
        /\ \A a \in Account : a # n => accounts'[a] = accounts[a]
    BY <1>1, <1>2, <1>3, <1>5 DEF TypeOK
  <2>2. NewUser(r) # NoAccount
    BY <1>3, RowFacts
  <2> QED
    BY <1>2, <2>1, <2>2 DEF Registered
<1>9. TypeOK'
  <2>1. signedUp' \in SUBSET Account
    BY <1>1, <1>2, <1>5 DEF TypeOK
  <2>2. pc' \in [Proc -> {"idle", "createUser", "findByEmail", "issueSession", "done"}]
    BY <1>1, <1>5 DEF TypeOK, Answer
  <2>3. res' \in [Proc -> {"none", "ok", "exists", "credentials", "inactive", "error"}]
    BY <1>1, <1>5 DEF TypeOK, Answer
  <2> QED
    BY <1>1, <1>6, <1>8, <2>1, <2>2, <2>3 DEF TypeOK
<1>10. ASSUME NEW q \in Proc PROVE Holds(q)'
  <2>1. CASE q = p
    BY <1>2, <1>3, <1>6, <1>7, <1>8, <2>1 DEF Holds
  <2>2. CASE q # p /\ pc[q] = "createUser"
    <3>1. req[q].account # n
      BY <1>1, <1>2, <2>2 DEF Drawn
    <3> QED
      BY <1>1, <1>6, <1>7, <1>8, <2>2, <3>1 DEF Holds
  <2>3. CASE q # p /\ pc[q] # "createUser"
    BY <1>1, <1>6, <1>7, <1>8, <2>3 DEF Holds
  <2> QED
    BY <2>1, <2>2, <2>3
<1>11. Drawn'
  BY <1>1, <1>6, <1>7 DEF Drawn
<1>12. Lowered'
  BY <1>1, <1>2, <1>3, <1>5, <1>8 DEF Lowered
<1>13. OneSignUpPerAddress'
  <2>1. ASSUME r.op = "signup", NEW b \in signedUp,
               accounts[b].email.address = r.email.address
        PROVE  FALSE
    <3>1. /\ b \in Registered /\ accounts[b].email.spelling = "lower"
          /\ accounts[b].email \in Email
      BY <1>1, <2>1, Types, RowFacts DEF Lowered
    <3>2. accounts[b].email = r.email
      BY <1>2, <2>1, <3>1, SameEmail
    <3> QED
      BY <3>1, <3>2 DEF Duplicates
  <2>2. \A b \in signedUp : b \in Registered
    BY <1>1 DEF Lowered
  <2>3. \A b \in signedUp : b # n /\ accounts'[b] = accounts[b]
    BY <1>8, <2>2
  <2> SUFFICES ASSUME NEW a \in signedUp', NEW b \in signedUp',
                      accounts'[a].email.address = accounts'[b].email.address
               PROVE  a = b
    BY DEF OneSignUpPerAddress
  <2>4. CASE a \in signedUp /\ b \in signedUp
    BY <1>1, <2>3, <2>4 DEF OneSignUpPerAddress
  <2>5. CASE a \notin signedUp \/ b \notin signedUp
    BY <1>3, <1>5, <1>8, <2>1, <2>3, <2>5
  <2> QED
    BY <2>4, <2>5
<1>14. SessionsAuthenticated'
  <2> SUFFICES ASSUME NEW q \in Proc, pc'[q] = "done", res'[q] = "ok", req'[q].op # "create"
               PROVE  /\ req'[q].account \in sessions'
                      /\ req'[q].account \in Registered'
                      /\ accounts'[req'[q].account].password = req'[q].password
                      /\ accounts'[req'[q].account].email.address = req'[q].email.address
    BY DEF SessionsAuthenticated
  <2>1. q # p
    BY <1>6, <1>7
  <2> QED
    BY <1>1, <1>6, <1>7, <1>8, <2>1 DEF SessionsAuthenticated
<1> QED
  BY <1>9, <1>10, <1>11, <1>12, <1>13, <1>14 DEF AccountsInv

\* The answer is read, and the slot serves another request.
LEMMA ResetInv ==
    ASSUME AccountsInv, NEW p \in Proc, Reset(p)
    PROVE  AccountsInv'
<1>1. /\ TypeOK /\ Drawn /\ Lowered /\ OneSignUpPerAddress /\ SessionsAuthenticated
      /\ \A q \in Proc : Holds(q)
  BY DEF AccountsInv
<1>2. /\ UNCHANGED <<accounts, sessions, signedUp>>
      /\ pc'[p] = "idle" /\ req'[p] = NoRequest
      /\ \A q \in Proc \ {p} : pc'[q] = pc[q] /\ req'[q] = req[q] /\ res'[q] = res[q]
      /\ Registered' = Registered
  BY <1>1 DEF Reset, TypeOK, Registered
<1>3. TypeOK'
  BY <1>1 DEF Reset, TypeOK
<1>4. ASSUME NEW q \in Proc PROVE Holds(q)'
  BY <1>1, <1>2 DEF Holds
<1>5. Drawn' /\ Lowered' /\ OneSignUpPerAddress'
  BY <1>1, <1>2 DEF Drawn, Lowered, OneSignUpPerAddress
<1>6. SessionsAuthenticated'
  BY <1>1, <1>2 DEF SessionsAuthenticated
<1> QED
  BY <1>3, <1>4, <1>5, <1>6 DEF AccountsInv

\* An account that is switched off or deleted keeps its row, its e-mail and its
\* password.
LEMMA AdministerInv ==
    ASSUME AccountsInv, NEW a \in Account, Administer(a)
    PROVE  AccountsInv'
<1>1. /\ TypeOK /\ Drawn /\ Lowered /\ OneSignUpPerAddress /\ SessionsAuthenticated
      /\ \A q \in Proc : Holds(q)
  BY DEF AccountsInv
<1>2. PICK row \in Row : /\ accounts' = [accounts EXCEPT ![a] = row]
                         /\ row.email = accounts[a].email
                         /\ row.password = accounts[a].password
  <2>1. a \in Registered /\ accounts[a] \in Row
    BY <1>1, Types DEF Administer
  <2>2. ASSUME NEW r \in Row
        PROVE  /\ [r EXCEPT !.active = FALSE] \in Row
               /\ [r EXCEPT !.active = FALSE].email = r.email
               /\ [r EXCEPT !.active = FALSE].password = r.password
               /\ [r EXCEPT !.deleted = TRUE] \in Row
               /\ [r EXCEPT !.deleted = TRUE].email = r.email
               /\ [r EXCEPT !.deleted = TRUE].password = r.password
    BY DEF Row
  <2> QED
    BY <2>1, <2>2 DEF Administer
<1>3. /\ a \in Registered
      /\ UNCHANGED <<sessions, signedUp, pc, req, res>>
  BY DEF Administer
<1>4. accounts' \in [Account -> Row \cup {NoAccount}]
  BY <1>1, <1>2 DEF TypeOK
<1>5. /\ Registered' = Registered
      /\ \A b \in Registered : /\ accounts'[b].email = accounts[b].email
                               /\ accounts'[b].password = accounts[b].password
  BY <1>1, <1>2, <1>3, RowFacts DEF TypeOK, Registered
<1>6. TypeOK'
  BY <1>1, <1>3, <1>4 DEF TypeOK
<1>7. ASSUME NEW q \in Proc PROVE Holds(q)'
  BY <1>1, <1>3, <1>5 DEF Holds
<1>8. Drawn' /\ Lowered' /\ OneSignUpPerAddress'
  BY <1>1, <1>3, <1>5 DEF Drawn, Lowered, OneSignUpPerAddress
<1>9. SessionsAuthenticated'
  BY <1>1, <1>3, <1>5 DEF SessionsAuthenticated
<1> QED
  BY <1>6, <1>7, <1>8, <1>9 DEF AccountsInv

LEMMA NextAccountsInv ==
    ASSUME AccountsInv, [Next]_vars
    PROVE  AccountsInv'
<1>1. /\ TypeOK /\ \A q \in Proc : Holds(q)
  BY DEF AccountsInv
<1>2. ASSUME NEW p \in Proc, NEW e \in Email, NEW w \in Password, SignIn(p, e, w)
      PROVE  AccountsInv'
  <2> DEFINE r == [op |-> "signin", email |-> normalizeEmail(e), password |-> w,
                   account |-> NoAccount]
  <2>1. r \in Request
    BY NormalFacts DEF Request
  <2> QED
    BY <1>2, <2>1, StartInv DEF SignIn
<1>3. ASSUME NEW p \in Proc, NEW e \in Email, NEW w \in Password, NEW a \in NewIds,
             SignUp(p, e, w, a)
      PROVE  AccountsInv'
  <2> DEFINE r == [op |-> "signup", email |-> normalizeEmail(e), password |-> w,
                   account |-> a]
  <2>1. r \in Request
    BY NormalFacts DEF Request, NewIds
  <2>2. r.email.spelling = "lower"
    BY NormalFacts
  <2> QED
    BY <1>3, <2>1, <2>2, StartInv DEF SignUp
<1>4. ASSUME NEW p \in Proc, NEW e \in Email, NEW w \in Password, NEW a \in NewIds,
             CreateUser(p, e, w, a)
      PROVE  AccountsInv'
  <2> DEFINE r == [op |-> "create", email |-> e, password |-> w, account |-> a]
  <2>1. r \in Request
    BY DEF Request, NewIds
  <2> QED
    BY <1>4, <2>1, StartInv DEF CreateUser
<1>5. ASSUME NEW p \in Proc, InsertUser(p)
      PROVE  AccountsInv'
  <2>1. CASE /\ Answer(p, "exists")
             /\ UNCHANGED <<accounts, signedUp, req, sessions>>
    BY <1>1, <1>5, <2>1, AnswerInv DEF InsertUser, TypeOK
  <2>2. CASE Duplicates(req[p].email) = {} /\ Insert(p, req[p])
    BY <1>5, <2>2, InsertInv DEF InsertUser
  <2> QED
    BY <1>5, <2>1, <2>2 DEF InsertUser
<1>6. ASSUME NEW p \in Proc, LookUp(p)
      PROVE  AccountsInv'
  <2>1. CASE \E r \in {"credentials", "inactive"} : Answer(p, r) /\ UNCHANGED req
    BY <1>1, <1>6, <2>1, AnswerInv DEF LookUp, TypeOK
  <2>2. CASE \E a \in FindByEmail(req[p].email) : /\ accounts[a].password = req[p].password
                                                 /\ GrantSession(p, a)
    BY <1>6, <2>2, GrantInv DEF LookUp, FindByEmail
  <2> QED
    BY <1>6, <2>1, <2>2 DEF LookUp
<1>7. ASSUME NEW p \in Proc, IssueSession(p)
      PROVE  AccountsInv'
  <2>1. req[p].account \in Account
    BY <1>1, <1>7 DEF IssueSession, Holds, Registered
  <2>2. /\ sessions \subseteq sessions' /\ sessions' \subseteq Account
        /\ req[p].account \in sessions'
    BY <1>1, <1>7, <2>1 DEF IssueSession, TypeOK
  <2> QED
    BY <1>7, <2>2, AnswerInv DEF IssueSession
<1>8. ASSUME NEW p \in Proc, Fail(p)
      PROVE  AccountsInv'
  BY <1>1, <1>8, AnswerInv DEF Fail, TypeOK
<1>9. ASSUME UNCHANGED vars
      PROVE  AccountsInv'
  BY <1>9 DEF vars, AccountsInv, TypeOK, Holds, Drawn, Lowered, OneSignUpPerAddress,
     SessionsAuthenticated, Registered
<1> QED
  BY <1>2, <1>3, <1>4, <1>5, <1>6, <1>7, <1>8, <1>9, ResetInv, AdministerInv DEF Next

-----------------------------------------------------------------------------
(***************************************************************************)
(* Theorems.                                                               *)
(***************************************************************************)

\* The inductive invariant of Accounts.
THEOREM AccountsInvHolds == Spec => []AccountsInv
<1> QED
  BY InitAccountsInv, NextAccountsInv, PTL DEF Spec

\* The typing of Accounts: in particular no e-mail with blanks is stored.
THEOREM AccountsTyping == Spec => []TypeOK
<1>1. AccountsInv => TypeOK
  BY DEF AccountsInv
<1> QED
  BY <1>1, AccountsInvHolds, PTL

\* Concurrent and repeated sign-ups with one address, however spelled and
\* whatever fails between the two inserts, make one account.
THEOREM OneSignUpPerAddressHolds == Spec => []OneSignUpPerAddress
<1>1. AccountsInv => OneSignUpPerAddress
  BY DEF AccountsInv
<1> QED
  BY <1>1, AccountsInvHolds, PTL

\* Nobody is told of success without a session of an account of its own.
THEOREM SessionsAuthenticatedHolds == Spec => []SessionsAuthenticated
<1>1. AccountsInv => SessionsAuthenticated
  BY DEF AccountsInv
<1> QED
  BY <1>1, AccountsInvHolds, PTL

\* The right address and password are refused only for a homonym.
THEOREM RefusedOnlyForHomonymHolds == Spec => RefusedOnlyForHomonym
<1> DEFINE Refusals ==
      \A p \in Proc :
         /\ pc[p] = "findByEmail"
         /\ pc'[p] = "done" /\ res'[p] = "credentials"
         => \A a \in Registered :
               /\ ~accounts[a].deleted
               /\ accounts[a].email.address = req[p].email.address
               /\ accounts[a].password = req[p].password
               => \E b \in Registered \ {a} :
                     /\ ~accounts[b].deleted
                     /\ accounts[b].email.address = accounts[a].email.address
<1>1. ASSUME AccountsInv, [Next]_vars PROVE Refusals
  <2> SUFFICES ASSUME NEW p \in Proc,
                      pc[p] = "findByEmail", pc'[p] = "done", res'[p] = "credentials",
                      NEW a \in Registered, ~accounts[a].deleted,
                      accounts[a].email.address = req[p].email.address,
                      accounts[a].password = req[p].password
               PROVE  \E b \in Registered \ {a} :
                         /\ ~accounts[b].deleted
                         /\ accounts[b].email.address = accounts[a].email.address
    OBVIOUS
  <2>1. TypeOK
    BY <1>1 DEF AccountsInv
  <2>2. LookUp(p)
    <3>1. PICK q \in Proc :
             \/ \E e \in Email, w \in Password :
                   \/ SignIn(q, e, w)
                   \/ \E b \in NewIds : SignUp(q, e, w, b) \/ CreateUser(q, e, w, b)
             \/ InsertUser(q) \/ LookUp(q) \/ IssueSession(q) \/ Fail(q) \/ Reset(q)
      BY <1>1 DEF Next, vars, Administer
    <3>2. q = p
      BY <2>1, <3>1 DEF TypeOK, SignIn, SignUp, CreateUser, Start, InsertUser, Insert,
         GrantSession, LookUp, IssueSession, Fail, Reset, Answer
    <3> QED
      BY <2>1, <3>1, <3>2 DEF TypeOK, SignIn, SignUp, CreateUser, Start, InsertUser,
         IssueSession, Fail, Reset, Answer
  <2>3. a \in FindByEmail(req[p].email)
    BY DEF FindByEmail
  <2>4. PICK b \in FindByEmail(req[p].email) : accounts[b].password # req[p].password
    BY <2>1, <2>2, <2>3 DEF LookUp, TypeOK, Answer, GrantSession
  <2> QED
    BY <2>4 DEF FindByEmail
<1>2. AccountsInv /\ [Next]_vars => [Refusals]_vars
  BY <1>1
<1> QED
  BY <1>2, AccountsInvHolds, PTL DEF Spec, RefusedOnlyForHomonym
=============================================================================

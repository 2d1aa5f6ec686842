--------------------------- MODULE SessionsProofs ---------------------------
(***************************************************************************)
(* Theorems about Sessions, for every set of e-mail addresses, requests    *)
(* and calls, and every interleaving, expiry and failure of their awaits.  *)
(***************************************************************************)
EXTENDS Sessions, TLAPS

(* The handlers a label belongs to.                                        *)
LabelsOK ==
    \A r \in Reqs :
        /\ pc[r] # "new" => call[r] \in Calls
        /\ pc[r] = "new" => call[r] = NoCall
        /\ pc[r] = "create" => call[r].op = "register"
        /\ pc[r] = "verify" => call[r].op = "verify"
        /\ pc[r] = "toggle" => call[r].op = "toggle"
        /\ pc[r] = "revoke" => call[r].op \in {"refresh", "logout"}
        /\ pc[r] = "issue" => call[r].op \in {"login", "refresh"}

TypeInv == TypeOK /\ LabelsOK

-----------------------------------------------------------------------------
(* A request that has arrived asks for something.                          *)
LEMMA CallFields ==
    ASSUME TypeInv, NEW r \in Reqs, pc[r] # "new"
    PROVE  /\ call[r] # NoCall /\ call[r].op \in Ops
           /\ call[r].email \in Emails /\ call[r].password \in Passwords
           /\ call[r].token \in Tokens \cup {NoToken}
  BY SessionsAssumption DEF TypeInv, LabelsOK, CallType

(* At the start every variable has its type.                               *)
LEMMA TypeInit == Init => TypeInv
  <1> SUFFICES ASSUME Init PROVE TypeInv
    OBVIOUS
  <1> USE DEF Init
  <1>1. AnEmail \in Emails
    BY SessionsAssumption DEF AnEmail
  <1>2. account \in [Emails -> AccountRow]
    BY SessionsAssumption DEF AccountRow, Tokens
  <1>3. token \in [Tokens -> TokenRow]
    BY <1>1 DEF TokenRow
  <1>4. TypeOK
    BY <1>1, <1>2, <1>3 DEF TypeOK
  <1>5. LabelsOK
    BY DEF LabelsOK
  <1> QED BY <1>4, <1>5 DEF TypeInv

(* Every step keeps the types, and the labels of each handler its own.     *)
LEMMA TypeNext == TypeInv /\ [Next]_vars => TypeInv'
  <1> SUFFICES ASSUME TypeInv, [Next]_vars PROVE TypeInv'
    OBVIOUS
  <1>t. TypeOK /\ LabelsOK
    BY DEF TypeInv
  <1>e. ASSUME NEW r \in Reqs, NEW e, setBy' = [setBy EXCEPT ![e] = r]
        PROVE  setBy' \in [Emails -> Reqs \cup {NoToken}]
    BY <1>e, <1>t DEF TypeOK
  <1>1. ASSUME NEW r \in Reqs, Handle(r) \/ Fail(r) PROVE TypeInv'
    <2>1. pc[r] # "new" /\ call' = call /\ seen' = seen
      BY <1>1 DEF Handle, Fail, FindEmail, CreateDeveloper, CheckPassword, FindVerifyToken,
                  MarkVerified, FindDeveloper, ToggleDeveloper, FindToken, RevokeToken,
                  IssueTokens, Reply, Waiting
    <2>c. /\ call[r] \in Calls /\ call[r] # NoCall /\ call[r].op \in Ops
          /\ call[r].email \in Emails /\ call[r].password \in Passwords
          /\ call[r].token \in Tokens \cup {NoToken} /\ found[r] \in Emails
      BY <1>t, <2>1, CallFields DEF TypeOK, LabelsOK
    \* a step that moves r to a label of its handler
    <2>m. ASSUME NEW label \in Waiting \cup Answers, Goto(r, label),
                 label = "create" => call[r].op = "register",
                 label = "verify" => call[r].op = "verify",
                 label = "toggle" => call[r].op = "toggle",
                 label = "revoke" => call[r].op \in {"refresh", "logout"},
                 label = "issue" => call[r].op \in {"login", "refresh"}
          PROVE  pc' \in [Reqs -> {"new"} \cup Waiting \cup Answers] /\ LabelsOK'
      <3>1. pc' \in [Reqs -> {"new"} \cup Waiting \cup Answers]
        BY <1>t, <2>m DEF Goto, TypeOK
      <3>2. label # "new"
        BY <2>m DEF Waiting, Answers
      <3>3. LabelsOK'
        BY <1>t, <2>1, <2>c, <2>m, <3>2 DEF Goto, TypeOK, LabelsOK
      <3> QED BY <3>1, <3>3
    <2> USE DEF TypeInv
    <2>2. CASE FindEmail(r)
      BY <2>2, <2>m, <2>1, <1>t DEF FindEmail, TypeOK, Waiting, Answers
    <2>3. CASE CreateDeveloper(r)
      <3>1. account' \in [Emails -> AccountRow]
        <4>1. NewAccount(r) \in AccountRow
          BY <2>c DEF NewAccount, AccountRow, Tokens
        <4> QED BY <2>3, <4>1, <1>t DEF CreateDeveloper, TypeOK
      <3>2. PICK label \in {"reply", "failed"} : Goto(r, label)
        BY <2>3 DEF CreateDeveloper
      <3>3. setBy' \in [Emails -> Reqs \cup {NoToken}]
        BY <2>3, <1>e, <1>t DEF CreateDeveloper, TypeOK
      <3> QED BY <2>3, <2>m, <2>1, <3>1, <3>2, <3>3, <1>t
              DEF CreateDeveloper, TypeOK, Waiting, Answers
    <2>4. CASE CheckPassword(r)
      BY <2>4, <2>m, <2>1, <2>c, <1>t DEF CheckPassword, TypeOK, AccountRow, Waiting, Answers
    <2>5. CASE FindVerifyToken(r)
      <3>1. PICK label \in {"verify", "refused"} : Goto(r, label)
        BY <2>5 DEF FindVerifyToken
      <3>2. call[r].op = "verify" /\ found' \in [Reqs -> Emails]
        BY <2>5, <1>t DEF FindVerifyToken, TypeOK
      <3> QED BY <2>5, <2>m, <2>1, <3>1, <3>2, <1>t DEF FindVerifyToken, TypeOK, Waiting, Answers
    <2>6. CASE MarkVerified(r)
      <3> DEFINE row == [account[found[r]] EXCEPT !.isVerified = TRUE, !.verifyToken = NoToken]
      <3>a. account \in [Emails -> AccountRow] /\ found[r] \in Emails
        BY <2>c, <1>t DEF TypeOK
      <3>b. row \in AccountRow
        BY <3>a DEF AccountRow
      <3>c. account' = [account EXCEPT ![found[r]] = row]
        BY <2>6 DEF MarkVerified
      <3> HIDE DEF row
      <3>1. account' \in [Emails -> AccountRow]
        BY <3>a, <3>b, <3>c
      <3> QED BY <2>6, <2>m, <2>1, <3>1, <1>e, <1>t DEF MarkVerified, TypeOK, Waiting
    <2>7. CASE FindDeveloper(r)
      BY <2>7, <2>m, <2>1, <2>c, <1>t DEF FindDeveloper, TypeOK, AccountRow, Waiting, Answers
    <2>8. CASE ToggleDeveloper(r)
      <3>a. account \in [Emails -> AccountRow] /\ found[r] \in Emails /\ flag[r] \in BOOLEAN
        BY <2>c, <1>t DEF TypeOK
      <3>b. [account[found[r]] EXCEPT !.isVerified = ~flag[r]] \in AccountRow
        BY <3>a DEF AccountRow
      <3>c. account' = [account EXCEPT ![found[r]] = [@ EXCEPT !.isVerified = ~flag[r]]]
        BY <2>8 DEF ToggleDeveloper
      <3>1. account' \in [Emails -> AccountRow]
        BY <3>a, <3>b, <3>c
      <3> QED BY <2>8, <2>m, <2>1, <3>1, <1>e, <1>t DEF ToggleDeveloper, TypeOK, Waiting
    <2>9. CASE FindToken(r)
      <3>1. PICK label \in {"revoke", "refused"} : Goto(r, label)
        BY <2>9 DEF FindToken
      <3>2. call[r].op = "refresh" /\ found' \in [Reqs -> Emails]
        BY <2>9, <2>c, <1>t DEF FindToken, TypeOK, TokenRow, Usable
      <3> QED BY <2>9, <2>m, <2>1, <3>1, <3>2, <1>t DEF FindToken, TypeOK, Waiting, Answers
    <2>10. CASE RevokeToken(r)
      <3>1. token' \in [Tokens -> TokenRow]
        BY <2>10, <2>c, <1>t DEF RevokeToken, TypeOK, TokenRow
      <3>2. PICK label \in {"issue", "reply"} : /\ Goto(r, label)
                                               /\ label = "issue" => call[r].op = "refresh"
        BY <2>10 DEF RevokeToken
      <3> QED BY <2>10, <2>m, <2>1, <3>1, <3>2, <1>t DEF RevokeToken, TypeOK, Waiting
    <2>11. CASE IssueTokens(r)
      <3>1. token' \in [Tokens -> TokenRow]
        BY <2>11, <2>c, <1>t DEF IssueTokens, TypeOK, TokenRow, Tokens
      <3> QED BY <2>11, <2>m, <2>1, <3>1, <1>t DEF IssueTokens, TypeOK, Waiting
    <2>12. CASE Reply(r)
      BY <2>12, <2>m, <2>1, <1>t DEF Reply, TypeOK, Answers
    <2>13. CASE Fail(r)
      BY <2>13, <2>m, <2>1, <1>t DEF Fail, TypeOK, Answers
    <2> QED BY <1>1, <2>2, <2>3, <2>4, <2>5, <2>6, <2>7, <2>8, <2>9, <2>10, <2>11, <2>12, <2>13
            DEF Handle
  <1>2. ASSUME NEW r \in Reqs, Arrive(r) PROVE TypeInv'
    <2>1. PICK c \in Calls : /\ call' = [call EXCEPT ![r] = c]
                             /\ Goto(r, IF c.op = "logout" THEN "revoke" ELSE "find")
      BY <1>2 DEF Arrive
    <2>2. TypeOK'
      <3>1. /\ call' \in [Reqs -> Calls \cup {NoCall}]
            /\ pc' \in [Reqs -> {"new"} \cup Waiting \cup Answers]
        BY <1>t, <2>1 DEF TypeOK, Goto, Waiting
      <3>2. seen' \in [Reqs -> SUBSET Reqs]
        BY <1>2, <1>t DEF Arrive, TypeOK
      <3> QED BY <1>2, <1>t, <3>1, <3>2 DEF Arrive, TypeOK
    <2>3. LabelsOK'
      BY <1>t, <2>1 DEF TypeOK, Goto, LabelsOK
    <2> QED BY <2>2, <2>3 DEF TypeInv
  <1>3. ASSUME NEW t \in Tokens, Expire(t) PROVE TypeInv'
    <2>1. token' \in [Tokens -> TokenRow]
      <3>1. token \in [Tokens -> TokenRow] /\ token[t] \in TokenRow
        BY <1>t DEF TypeOK
      <3>2. [token[t] EXCEPT !.expired = TRUE] \in TokenRow
        BY <3>1 DEF TokenRow
      <3>3. token' = [token EXCEPT ![t] = [token[t] EXCEPT !.expired = TRUE]]
        BY <1>3 DEF Expire
      <3> QED BY <3>1, <3>2, <3>3
    <2> QED BY <1>3, <1>t, <2>1 DEF Expire, TypeOK, LabelsOK, TypeInv
  <1>4. CASE UNCHANGED vars
    BY <1>4, <1>t DEF vars, TypeOK, LabelsOK, TypeInv
  <1> QED BY <1>1, <1>2, <1>3, <1>4 DEF Next

(* Every variable of Sessions keeps its type.                              *)
THEOREM TypeCorrect == Spec => []TypeOK
  <1>1. Spec => []TypeInv
    BY TypeInit, TypeNext, PTL DEF Spec
  <1> QED BY <1>1, PTL DEF TypeInv

-----------------------------------------------------------------------------
(* What a step does to the requests: one that has arrived keeps what it    *)
(* asks for and what it has seen, and an answer is final.                  *)
LEMMA HandleFrame ==
    ASSUME NEW r \in Reqs, Handle(r) \/ Fail(r)
    PROVE  /\ pc[r] \in Waiting /\ call' = call /\ seen' = seen
           /\ \E label \in Waiting \cup Answers : Goto(r, label)
  <1>1. CASE \/ FindEmail(r) \/ CreateDeveloper(r) \/ CheckPassword(r)
             \/ FindVerifyToken(r) \/ MarkVerified(r)
    BY <1>1 DEF FindEmail, CreateDeveloper, CheckPassword, FindVerifyToken, MarkVerified,
                Waiting, Answers
  <1>2. CASE \/ FindDeveloper(r) \/ ToggleDeveloper(r) \/ FindToken(r) \/ RevokeToken(r)
             \/ IssueTokens(r) \/ Reply(r) \/ Fail(r)
    BY <1>2 DEF FindDeveloper, ToggleDeveloper, FindToken, RevokeToken, IssueTokens, Reply, Fail,
                Waiting, Answers
  <1> QED BY <1>1, <1>2 DEF Handle

(* What any step does to the request x.                                    *)
LEMMA RequestStep ==
    ASSUME TypeInv, [Next]_vars, NEW x \in Reqs
    PROVE  /\ pc[x] # "new" => pc'[x] # "new" /\ call'[x] = call[x] /\ seen'[x] = seen[x]
           /\ pc[x] \in Answers => pc'[x] = pc[x]
           /\ pc'[x] # pc[x] => Arrive(x) \/ Handle(x) \/ Fail(x)
  <1>1. ASSUME NEW r \in Reqs, Handle(r) \/ Fail(r)
        PROVE  /\ pc'[r] # "new" /\ pc[r] \notin Answers /\ call' = call /\ seen' = seen
               /\ x # r => pc'[x] = pc[x]
    BY <1>1, HandleFrame DEF Goto, TypeInv, TypeOK, Waiting, Answers
  <1>2. ASSUME NEW r \in Reqs, Arrive(r)
        PROVE  /\ pc[r] = "new"
               /\ x # r => pc'[x] = pc[x] /\ call'[x] = call[x] /\ seen'[x] = seen[x]
    BY <1>2 DEF Arrive, Goto, TypeInv, TypeOK
  <1>3. ASSUME NEW t \in Tokens, Expire(t)
        PROVE  UNCHANGED <<call, pc, seen>>
    BY <1>3 DEF Expire
  <1>4. CASE UNCHANGED vars
    BY <1>4 DEF vars
  <1>5. CASE \E r \in Reqs : Arrive(r)
    BY <1>2, <1>5 DEF Answers
  <1>6. CASE \E r \in Reqs : Handle(r) \/ Fail(r)
    BY <1>1, <1>6
  <1>7. CASE \E t \in Tokens : Expire(t)
    BY <1>3, <1>7
  <1> QED BY <1>4, <1>5, <1>6, <1>7 DEF Next

(* What a step does to the row of a developer, and who set its isVerified. *)
LEMMA AccountStep ==
    ASSUME TypeInv, [Next]_vars, NEW e \in Emails
    PROVE  \/ account'[e] = account[e] /\ setBy'[e] = setBy[e]
           \/ \E r \in Reqs : /\ CreateDeveloper(r) /\ pc'[r] = "reply" /\ call[r].email = e
                              /\ ~account[e].exists /\ account'[e] = NewAccount(r)
                              /\ setBy'[e] = r
           \/ \E r \in Reqs : /\ MarkVerified(r) /\ pc'[r] = "reply" /\ found[r] = e
                              /\ account'[e] = [account[e] EXCEPT !.isVerified = TRUE,
                                                                  !.verifyToken = NoToken]
                              /\ setBy'[e] = r
           \/ \E r \in Reqs : /\ ToggleDeveloper(r) /\ pc'[r] = "reply" /\ found[r] = e
                              /\ account'[e] = [account[e] EXCEPT !.isVerified = ~flag[r]]
                              /\ setBy'[e] = r
  <1> DEFINE Stays == account'[e] = account[e] /\ setBy'[e] = setBy[e]
  <1> USE DEF TypeInv, TypeOK
  <1>1. ASSUME NEW r \in Reqs, CreateDeveloper(r), ~Stays
        PROVE  /\ pc'[r] = "reply" /\ call[r].email = e /\ setBy'[e] = r
               /\ ~account[e].exists /\ account'[e] = NewAccount(r)
    BY <1>1 DEF CreateDeveloper, Goto
  <1>2. ASSUME NEW r \in Reqs, MarkVerified(r), ~Stays
        PROVE  /\ pc'[r] = "reply" /\ found[r] = e /\ setBy'[e] = r
               /\ account'[e] = [account[e] EXCEPT !.isVerified = TRUE, !.verifyToken = NoToken]
    BY <1>2 DEF MarkVerified, Goto
  <1>3. ASSUME NEW r \in Reqs, ToggleDeveloper(r), ~Stays
        PROVE  /\ pc'[r] = "reply" /\ found[r] = e /\ setBy'[e] = r
               /\ account'[e] = [account[e] EXCEPT !.isVerified = ~flag[r]]
    BY <1>3 DEF ToggleDeveloper, Goto
  <1>4. ASSUME NEW r \in Reqs,
               \/ Arrive(r) \/ FindEmail(r) \/ CheckPassword(r) \/ FindVerifyToken(r)
               \/ FindDeveloper(r) \/ FindToken(r) \/ RevokeToken(r) \/ IssueTokens(r)
               \/ Reply(r) \/ Fail(r)
        PROVE  Stays
    BY <1>4 DEF Arrive, FindEmail, CheckPassword, FindVerifyToken, FindDeveloper, FindToken,
                RevokeToken, IssueTokens, Reply, Fail
  <1>5. ASSUME NEW t \in Tokens, Expire(t) PROVE Stays
    BY <1>5 DEF Expire
  <1>6. CASE UNCHANGED vars
    BY <1>6 DEF vars
  <1> HIDE DEF Stays
  <1>7. CASE ~Stays
    BY <1>1, <1>2, <1>3, <1>4, <1>5, <1>6, <1>7 DEF Next, Handle, Stays
  <1> QED BY <1>7 DEF Stays

(* Who writes an account's row has only its reply left.                    *)
LEMMA WriterReplies ==
    ASSUME TypeInv, [Next]_vars, NEW e \in Emails
    PROVE  \/ account'[e] = account[e] /\ setBy'[e] = setBy[e]
           \/ \E r \in Reqs : pc'[r] = "reply" /\ setBy'[e] = r
  <1>1. SUFFICES ASSUME NEW r \in Reqs,
                        \/ CreateDeveloper(r) /\ pc'[r] = "reply" /\ setBy'[e] = r
                        \/ MarkVerified(r) /\ pc'[r] = "reply" /\ setBy'[e] = r
                        \/ ToggleDeveloper(r) /\ pc'[r] = "reply" /\ setBy'[e] = r
                 PROVE  \E q \in Reqs : pc'[q] = "reply" /\ setBy'[e] = q
    BY AccountStep
  <1> QED BY <1>1

(* What a step does to a refresh token.                                    *)
LEMMA TokenStep ==
    ASSUME TypeInv, [Next]_vars, NEW t \in Tokens
    PROVE  \/ token'[t] = token[t]
           \/ token'[t] = [token[t] EXCEPT !.expired = TRUE] /\ token[t].issued
           \/ token'[t] = [token[t] EXCEPT !.revoked = token[t].issued]
           \/ /\ t \in Reqs /\ IssueTokens(t)
              /\ token'[t] = [issued |-> TRUE, owner |-> found[t],
                              revoked |-> FALSE, expired |-> FALSE]
  <1> USE DEF TypeInv, TypeOK
  <1>1. ASSUME NEW r \in Reqs, RevokeToken(r)
        PROVE  token'[t] = token[t] \/ token'[t] = [token[t] EXCEPT !.revoked = token[t].issued]
    BY <1>1 DEF RevokeToken
  <1>2. ASSUME NEW r \in Reqs, IssueTokens(r), token'[t] # token[t]
        PROVE  /\ t = r
               /\ token'[t] = [issued |-> TRUE, owner |-> found[t],
                               revoked |-> FALSE, expired |-> FALSE]
    BY <1>2 DEF IssueTokens
  <1>3. ASSUME NEW u \in Tokens, Expire(u)
        PROVE  \/ token'[t] = token[t]
               \/ token'[t] = [token[t] EXCEPT !.expired = TRUE] /\ token[t].issued
    BY <1>3 DEF Expire
  <1>4. ASSUME NEW r \in Reqs,
               \/ Arrive(r) \/ FindEmail(r) \/ CreateDeveloper(r) \/ CheckPassword(r)
               \/ FindVerifyToken(r) \/ MarkVerified(r) \/ FindDeveloper(r)
               \/ ToggleDeveloper(r) \/ FindToken(r) \/ Reply(r) \/ Fail(r)
        PROVE  token' = token
    BY <1>4 DEF Arrive, FindEmail, CreateDeveloper, CheckPassword, FindVerifyToken, MarkVerified,
                FindDeveloper, ToggleDeveloper, FindToken, Reply, Fail
  <1>5. CASE UNCHANGED vars
    BY <1>5 DEF vars
  <1> QED BY <1>1, <1>2, <1>3, <1>4, <1>5 DEF Next, Handle

(* A handler answers once its last write is made, and not before.          *)
LEMMA BecomesDone ==
    ASSUME TypeInv, [Next]_vars, NEW r \in Reqs, ~Done(r), Done(r)'
    PROVE  /\ call'[r] = call[r] /\ call[r] # NoCall
           /\ \/ CreateDeveloper(r) /\ ~account[call[r].email].exists /\ call[r].op = "register"
              \/ MarkVerified(r) /\ call[r].op = "verify"
              \/ ToggleDeveloper(r) /\ call[r].op = "toggle"
              \/ RevokeToken(r) /\ call[r].op = "logout"
              \/ IssueTokens(r) /\ call[r].op \in {"login", "refresh"}
  <1>1. Arrive(r) \/ Handle(r) \/ Fail(r)
    BY RequestStep DEF Done
  <1>2. ~Arrive(r) /\ ~Fail(r)
    BY DEF Arrive, Fail, Goto, Done, TypeInv, TypeOK
  <1>3. Handle(r) /\ pc[r] # "new"
    BY <1>1, <1>2, HandleFrame DEF Waiting
  <1>4. ~(\/ FindEmail(r) \/ CheckPassword(r) \/ FindVerifyToken(r) \/ FindDeveloper(r)
          \/ FindToken(r) \/ Reply(r))
    BY DEF FindEmail, CheckPassword, FindVerifyToken, FindDeveloper, FindToken, Reply, Goto, Done,
           TypeInv, TypeOK
  <1>5. CASE CreateDeveloper(r)
    BY <1>5, <1>3, CallFields DEF CreateDeveloper, Goto, Done, TypeInv, TypeOK, LabelsOK
  <1>6. CASE MarkVerified(r) \/ ToggleDeveloper(r)
    BY <1>6, <1>3, CallFields DEF MarkVerified, ToggleDeveloper, TypeInv, LabelsOK
  <1>7. CASE RevokeToken(r)
    BY <1>7, <1>3, CallFields DEF RevokeToken, Goto, Done, TypeInv, TypeOK, LabelsOK
  <1>8. CASE IssueTokens(r)
    BY <1>8, <1>3, CallFields DEF IssueTokens, TypeInv, LabelsOK
  <1> QED BY <1>3, <1>4, <1>5, <1>6, <1>7, <1>8 DEF Handle

-----------------------------------------------------------------------------
(* A registration that is done has made the row, and nobody else did: the  *)
(* unique index fails the creation of a row that exists.                   *)
RegisteredInv ==
    /\ EmailRegisteredOnce
    /\ \A r \in Reqs : Asks(r, "register") /\ Done(r) => account[call[r].email].exists

(* Rows stay, with their passwords.                                        *)
LEMMA RowsStay ==
    ASSUME TypeInv, [Next]_vars, NEW e \in Emails, account[e].exists
    PROVE  /\ account'[e].exists /\ account'[e].password = account[e].password
           /\ account'[e].verifyToken \in {account[e].verifyToken, NoToken}
  <1>1. account[e] \in AccountRow
    BY DEF TypeInv, TypeOK
  <1>2. \/ account'[e] = account[e]
        \/ account'[e] = [account[e] EXCEPT !.isVerified = TRUE, !.verifyToken = NoToken]
        \/ \E b : account'[e] = [account[e] EXCEPT !.isVerified = b]
    BY AccountStep
  <1> QED BY <1>1, <1>2 DEF AccountRow

(* Every step keeps the rows of the registrations that are done.           *)
LEMMA RegisteredNext == TypeInv /\ RegisteredInv /\ [Next]_vars => RegisteredInv'
  <1> SUFFICES ASSUME TypeInv, RegisteredInv, [Next]_vars PROVE RegisteredInv'
    OBVIOUS
  <1> DEFINE Registered(r) == Asks(r, "register") /\ Done(r)
  \* a registration that was done, or has created its row in this step
  <1>1. ASSUME NEW r \in Reqs, Registered(r)'
        PROVE  /\ call'[r] = call[r] /\ call[r].email \in Emails
               /\ account'[call[r].email].exists
               /\ account'[call[r].email].password = call[r].password
               /\ \/ Registered(r)
                  \/ /\ CreateDeveloper(r) /\ ~account[call[r].email].exists
    <2>1. CASE Done(r)
      <3>1. pc[r] # "new" /\ call'[r] = call[r]
        BY <2>1, RequestStep DEF Done
      <3>2. Registered(r) /\ call[r].email \in Emails
        BY <1>1, <2>1, <3>1, CallFields DEF Asks
      <3> QED BY <3>1, <3>2, RowsStay DEF RegisteredInv, EmailRegisteredOnce
    <2>2. CASE ~Done(r)
      <3>1. /\ CreateDeveloper(r) /\ ~account[call[r].email].exists /\ call'[r] = call[r]
            /\ pc[r] # "new"
        BY <1>1, <2>2, BecomesDone DEF Asks, CreateDeveloper
      <3>2. call[r].email \in Emails /\ call[r].password \in Passwords
        BY <3>1, CallFields
      <3>3. account'[call[r].email] = NewAccount(r)
        BY <3>1, <3>2 DEF CreateDeveloper, TypeInv, TypeOK
      <3> QED BY <3>1, <3>2, <3>3 DEF NewAccount
    <2> QED BY <2>1, <2>2
  <1>2. ASSUME NEW r \in Reqs, NEW q \in Reqs, Registered(r)', Registered(q)',
               call'[r].email = call'[q].email
        PROVE  r = q
    <2>1. call[r].email = call[q].email /\ call[r].email \in Emails
      BY <1>1, <1>2
    <2>2. ~(Registered(r) /\ ~Registered(q)) /\ ~(Registered(q) /\ ~Registered(r))
      BY <1>1, <1>2, <2>1 DEF RegisteredInv
    <2>3. CASE Registered(r) /\ Registered(q)
      BY <2>1, <2>3 DEF RegisteredInv, EmailRegisteredOnce
    <2>4. CASE ~Registered(r) /\ ~Registered(q)
      <3>1. CreateDeveloper(r) /\ CreateDeveloper(q)
        BY <1>1, <1>2, <2>4
      <3>2. ~Done(r) /\ Done(q)'
        BY <1>1, <1>2, <2>4 DEF Asks
      <3>3. pc'[q] # pc[q] /\ pc[r] = "create" /\ pc[q] = "create"
        BY <3>1, <1>2 DEF CreateDeveloper, Done
      <3>4. pc'[r] # pc[r]
        BY <3>3, <1>2 DEF Done
      <3>5. \E l \in Waiting \cup Answers : Goto(r, l)
        BY <3>1, HandleFrame DEF Handle
      <3> QED BY <3>3, <3>5 DEF Goto, TypeInv, TypeOK
    <2> QED BY <2>2, <2>3, <2>4
  <1> QED BY <1>1, <1>2 DEF RegisteredInv, EmailRegisteredOnce

(* Of all registrations of one address at most one succeeds, and the       *)
(* account has its password (auth.service.ts, register).                   *)
THEOREM RegistrationCorrect == Spec => []EmailRegisteredOnce
  <1>1. Init => TypeInv /\ RegisteredInv
    BY TypeInit DEF Init, RegisteredInv, EmailRegisteredOnce, Asks
  <1>2. TypeInv /\ RegisteredInv /\ [Next]_vars => (TypeInv /\ RegisteredInv)'
    BY TypeNext, RegisteredNext
  <1>3. RegisteredInv => EmailRegisteredOnce
    BY DEF RegisteredInv
  <1> QED BY <1>1, <1>2, <1>3, PTL DEF Spec

-----------------------------------------------------------------------------
(* A secret somebody presents was an answer, and what a request saw        *)
(* answered stays answered.                                                *)
HistoryInv ==
    /\ \A r \in Reqs : \A s \in seen[r] : pc[s] \in Answers
    /\ \A r \in Reqs : pc[r] # "new" => Holds(call[r])

(* Every step keeps what a request has seen, and what its client holds.    *)
LEMMA HistoryNext == TypeInv /\ HistoryInv /\ [Next]_vars => HistoryInv'
  <1> SUFFICES ASSUME TypeInv, HistoryInv, [Next]_vars, NEW r \in Reqs
               PROVE  /\ \A s \in seen'[r] : pc'[s] \in Answers
                      /\ pc'[r] # "new" => Holds(call[r])'
    BY DEF HistoryInv, Holds
  <1>a. \A s \in Reqs : pc[s] \in Answers => pc'[s] = pc[s]
    BY RequestStep
  <1>h. ASSUME NEW c \in Calls, Holds(c)
        PROVE  Holds(c)'
    <2> SUFFICES ASSUME c.op \in TokenOps, c.token \in Reqs
                 PROVE  /\ pc'[c.token] = "ok"
                        /\ call'[c.token].op \in IF c.op = "verify" THEN {"register"}
                                                 ELSE {"login", "refresh"}
      BY DEF Holds
    <2>1. pc[c.token] = "ok" /\ call[c.token].op \in IF c.op = "verify" THEN {"register"}
                                                      ELSE {"login", "refresh"}
      BY <1>h DEF Holds
    <2>2. pc'[c.token] = "ok" /\ call'[c.token] = call[c.token]
      BY <2>1, RequestStep DEF Answers
    <2> QED BY <2>1, <2>2
  <1>1. CASE pc[r] # "new"
    <2>1. seen'[r] = seen[r] /\ call'[r] = call[r] /\ seen[r] \subseteq Reqs
      BY <1>1, RequestStep DEF TypeInv, TypeOK
    <2>2. Holds(call[r]) /\ call[r] \in Calls
      BY <1>1 DEF HistoryInv, TypeInv, LabelsOK
    <2>3. Holds(call[r])'
      BY <2>1, <2>2, <1>h DEF Holds
    <2> QED BY <1>a, <2>1, <2>3 DEF HistoryInv
  <1>2. CASE pc[r] = "new" /\ Arrive(r)
    <2>1. PICK c \in Calls : Holds(c) /\ call' = [call EXCEPT ![r] = c]
      BY <1>2 DEF Arrive
    <2>2. call'[r] = c /\ Holds(c)'
      BY <2>1, <1>h DEF TypeInv, TypeOK
    <2>3. seen'[r] = {s \in Reqs : pc[s] \in Answers}
      BY <1>2 DEF Arrive, TypeInv, TypeOK
    <2> QED BY <1>a, <2>2, <2>3 DEF Holds
  <1>3. CASE pc[r] = "new" /\ ~Arrive(r)
    <2>1. pc'[r] = "new"
      BY <1>3, RequestStep, HandleFrame DEF Waiting
    <2>2. seen'[r] = seen[r]
      <3>1. CASE \E q \in Reqs : Handle(q) \/ Fail(q)
        BY <3>1, HandleFrame
      <3>2. CASE \E q \in Reqs : Arrive(q)
        BY <3>2, <1>3 DEF Arrive, TypeInv, TypeOK
      <3>3. CASE (\E t \in Tokens : Expire(t)) \/ UNCHANGED vars
        BY <3>3 DEF Expire, vars
      <3> QED BY <3>1, <3>2, <3>3 DEF Next
    <2> QED BY <1>a, <2>1, <2>2 DEF HistoryInv, TypeInv, TypeOK
  <1> QED BY <1>1, <1>2, <1>3

(* A token is there exactly when the handler it is named by was past its   *)
(* last write, so IssueTokens never overwrites one.                        *)
IssuedInv ==
    \A r \in Reqs :
        /\ token[r].issued => /\ pc[r] \in {"reply", "ok", "failed"}
                              /\ call[r].op \in {"login", "refresh"}
        /\ Done(r) /\ call[r].op \in {"login", "refresh"} => token[r].issued

(* A refresh token stays, with its owner, and revoked if it was.           *)
LEMMA TokensStay ==
    ASSUME TypeInv, IssuedInv, [Next]_vars, NEW t \in Tokens, token[t].issued
    PROVE  /\ token'[t].issued /\ token'[t].owner = token[t].owner
           /\ token[t].revoked => token'[t].revoked
  <1>1. token[t] \in TokenRow
    BY DEF TypeInv, TypeOK
  <1>2. ~(t \in Reqs /\ IssueTokens(t))
    BY DEF IssuedInv, IssueTokens
  <1> QED BY <1>1, <1>2, TokenStep DEF TokenRow

(* Only IssueTokens makes a token.                                         *)
LEMMA OnlyIssued ==
    ASSUME TypeInv, [Next]_vars, NEW t \in Tokens, ~token[t].issued, token'[t].issued
    PROVE  /\ t \in Reqs /\ IssueTokens(t)
           /\ token'[t].owner = found[t]
  <1>1. token[t] \in TokenRow
    BY DEF TypeInv, TypeOK
  <1>2. t \in Reqs /\ IssueTokens(t)
    BY <1>1, TokenStep DEF TokenRow
  <1> QED BY <1>2 DEF IssueTokens, TypeInv, TypeOK

(* Every step makes a token only as its handler passes its last write.     *)
LEMMA IssuedNext == TypeInv /\ IssuedInv /\ [Next]_vars => IssuedInv'
  <1> SUFFICES ASSUME TypeInv, IssuedInv, [Next]_vars, NEW r \in Reqs
               PROVE  /\ token'[r].issued => /\ pc'[r] \in {"reply", "ok", "failed"}
                                             /\ call'[r].op \in {"login", "refresh"}
                      /\ Done(r)' /\ call'[r].op \in {"login", "refresh"} => token'[r].issued
    BY DEF IssuedInv
  <1>t. r \in Tokens
    BY DEF Tokens
  <1>1. CASE token[r].issued
    <2>1. /\ pc[r] \in {"reply", "ok", "failed"} /\ call[r].op \in {"login", "refresh"}
          /\ token'[r].issued
      BY <1>1, <1>t, TokensStay DEF IssuedInv
    <2>2. call'[r] = call[r] /\ (pc[r] \in {"ok", "failed"} => pc'[r] = pc[r])
      BY <2>1, RequestStep DEF Answers
    <2>3. pc[r] = "reply" => pc'[r] \in {"reply", "ok", "failed"}
      <3> SUFFICES ASSUME pc[r] = "reply", pc'[r] # pc[r] PROVE pc'[r] \in {"ok", "failed"}
        OBVIOUS
      <3>1. Arrive(r) \/ Handle(r) \/ Fail(r)
        BY RequestStep
      <3>2. Reply(r) \/ Fail(r)
        BY <3>1 DEF Arrive, Handle, FindEmail, CreateDeveloper, CheckPassword, FindVerifyToken,
                    MarkVerified, FindDeveloper, ToggleDeveloper, FindToken, RevokeToken,
                    IssueTokens
      <3> QED BY <3>2 DEF Reply, Fail, Goto, TypeInv, TypeOK
    <2> QED BY <2>1, <2>2, <2>3
  <1>2. CASE ~token[r].issued /\ token'[r].issued
    <2>1. IssueTokens(r)
      BY <1>2, <1>t, OnlyIssued
    <2>2. pc'[r] = "reply" /\ call' = call /\ call[r].op \in {"login", "refresh"}
      BY <2>1 DEF IssueTokens, Goto, TypeInv, TypeOK, LabelsOK
    <2> QED BY <2>2, <1>2
  <1>3. CASE ~token[r].issued /\ ~token'[r].issued
    <2> SUFFICES ASSUME Done(r)', call'[r].op \in {"login", "refresh"} PROVE FALSE
      BY <1>3
    <2>1. CASE Done(r)
      <3>1. call'[r] = call[r]
        BY <2>1, RequestStep DEF Done
      <3> QED BY <1>3, <2>1, <3>1 DEF IssuedInv
    <2>2. CASE ~Done(r)
      <3>1. IssueTokens(r)
        BY <2>2, BecomesDone
      <3> QED BY <1>3, <1>t, <3>1 DEF IssueTokens, TypeInv, TypeOK
    <2> QED BY <2>1, <2>2
  <1> QED BY <1>1, <1>2, <1>3

-----------------------------------------------------------------------------
(* From the password check on, a login's row and password are as it read   *)
(* them: rows stay, and no operation changes a password.                   *)
LoginInv ==
    \A r \in Reqs : Asks(r, "login") /\ (pc[r] = "issue" \/ token[r].issued) =>
        /\ account[call[r].email].exists /\ flag[r]
        /\ account[call[r].email].password = call[r].password
        /\ IF token[r].issued THEN token[r].owner = call[r].email ELSE found[r] = call[r].email

(* From the check of its token on, a refresh knows that token's owner;     *)
(* from the revocation on, the token is revoked.                           *)
RefreshInv ==
    \A r \in Reqs : Asks(r, "refresh") /\ (pc[r] \in {"revoke", "issue"} \/ token[r].issued) =>
        /\ call[r].token \in Tokens /\ token[call[r].token].issued
        /\ token[call[r].token].owner = IF token[r].issued THEN token[r].owner ELSE found[r]
        /\ pc[r] # "revoke" => token[call[r].token].revoked

(* found and flag are set by the read of a handler, once.                  *)
LEMMA FoundStays ==
    ASSUME TypeInv, [Next]_vars, NEW r \in Reqs, pc[r] \notin {"new", "find"}
    PROVE  found'[r] = found[r] /\ flag'[r] = flag[r]
  <1>1. ASSUME NEW q \in Reqs,
               CheckPassword(q) \/ FindVerifyToken(q) \/ FindDeveloper(q) \/ FindToken(q)
        PROVE  found'[r] = found[r] /\ flag'[r] = flag[r]
    BY <1>1 DEF CheckPassword, FindVerifyToken, FindDeveloper, FindToken, TypeInv, TypeOK
  <1>2. ASSUME NEW q \in Reqs,
               \/ Arrive(q) \/ FindEmail(q) \/ CreateDeveloper(q) \/ MarkVerified(q)
               \/ ToggleDeveloper(q) \/ RevokeToken(q) \/ IssueTokens(q) \/ Reply(q) \/ Fail(q)
        PROVE  found' = found /\ flag' = flag
    BY <1>2 DEF Arrive, FindEmail, CreateDeveloper, MarkVerified, ToggleDeveloper, RevokeToken,
                IssueTokens, Reply, Fail
  <1>3. CASE (\E t \in Tokens : Expire(t)) \/ UNCHANGED vars
    BY <1>3 DEF Expire, vars
  <1> QED BY <1>1, <1>2, <1>3 DEF Next, Handle

(* How a request comes to the label at which it writes.                    *)
LEMMA ComesToIssue ==
    ASSUME TypeInv, [Next]_vars, NEW r \in Reqs, pc[r] # "issue", pc'[r] = "issue"
    PROVE  /\ call'[r] = call[r] /\ call[r] \in Calls
           /\ \/ CheckPassword(r) /\ call[r].op = "login"
              \/ RevokeToken(r) /\ call[r].op = "refresh"
  <1>1. Arrive(r) \/ Handle(r) \/ Fail(r)
    BY RequestStep
  <1>2. CheckPassword(r) \/ RevokeToken(r)
    BY <1>1 DEF Arrive, Handle, Fail, FindEmail, CreateDeveloper, FindVerifyToken, MarkVerified,
       FindDeveloper, ToggleDeveloper, FindToken, IssueTokens, Reply, Goto, TypeInv, TypeOK
  <1> QED BY <1>2, RequestStep DEF CheckPassword, RevokeToken, Goto, TypeInv, TypeOK, LabelsOK

(* How a refresh comes to the update that revokes.                         *)
LEMMA ComesToRevoke ==
    ASSUME TypeInv, [Next]_vars, NEW r \in Reqs, pc[r] # "revoke", pc'[r] = "revoke",
           Asks(r, "refresh")'
    PROVE  FindToken(r) /\ call'[r] = call[r] /\ call[r] \in Calls /\ call[r].op = "refresh"
  <1>1. Arrive(r) \/ Handle(r) \/ Fail(r)
    BY RequestStep
  <1>2. ~Arrive(r)
    BY DEF Arrive, Asks, Goto, TypeInv, TypeOK
  <1>3. FindToken(r)
    BY <1>1, <1>2 DEF Handle, Fail, FindEmail, CreateDeveloper, CheckPassword, FindVerifyToken,
       MarkVerified, FindDeveloper, ToggleDeveloper, RevokeToken, IssueTokens, Reply, Goto,
       TypeInv, TypeOK
  <1> QED BY <1>3, RequestStep DEF FindToken, TypeInv, LabelsOK

(* Every step keeps what a login has checked.                              *)
LEMMA LoginNext == TypeInv /\ IssuedInv /\ LoginInv /\ [Next]_vars => LoginInv'
  <1> SUFFICES ASSUME TypeInv, IssuedInv, LoginInv, [Next]_vars, NEW r \in Reqs,
                      Asks(r, "login")', pc'[r] = "issue" \/ token'[r].issued
               PROVE  /\ account'[call'[r].email].exists /\ flag'[r]
                      /\ account'[call'[r].email].password = call'[r].password
                      /\ IF token'[r].issued THEN token'[r].owner = call'[r].email
                                             ELSE found'[r] = call'[r].email
    BY DEF LoginInv, Asks
  <1>t. r \in Tokens
    BY DEF Tokens
  <1>1. CASE pc[r] = "issue" \/ token[r].issued
    <2>1. pc[r] \notin {"new", "find"}
      BY <1>1 DEF IssuedInv
    <2>2. call'[r] = call[r] /\ Asks(r, "login") /\ call[r].email \in Emails
      BY <2>1, RequestStep, CallFields DEF Asks
    <2>3. /\ account[call[r].email].exists /\ flag[r] /\ flag'[r] = flag[r]
          /\ account[call[r].email].password = call[r].password
          /\ IF token[r].issued THEN token[r].owner = call[r].email ELSE found[r] = call[r].email
      BY <1>1, <2>1, <2>2, FoundStays DEF LoginInv
    <2>4. /\ account'[call[r].email].exists
          /\ account'[call[r].email].password = call[r].password
      BY <2>2, <2>3, RowsStay
    <2>5. CASE token[r].issued
      BY <2>2, <2>3, <2>4, <2>5, <1>t, TokensStay
    <2>6. CASE ~token[r].issued /\ ~token'[r].issued
      BY <2>1, <2>2, <2>3, <2>4, <2>6, FoundStays
    <2>7. CASE ~token[r].issued /\ token'[r].issued
      <3>1. token'[r].owner = found[r]
        BY <2>7, <1>t, OnlyIssued
      <3> QED BY <2>2, <2>3, <2>4, <2>7, <3>1
    <2> QED BY <2>5, <2>6, <2>7
  <1>2. CASE ~(pc[r] = "issue" \/ token[r].issued)
    <2>1. ~token'[r].issued
      BY <1>2, <1>t, OnlyIssued DEF IssueTokens
    <2>2. CheckPassword(r) /\ call'[r] = call[r] /\ call[r] \in Calls
      BY <1>2, <2>1, ComesToIssue DEF Asks
    <2>3. /\ account[call[r].email].exists /\ account[call[r].email].password = call[r].password
          /\ found'[r] = call[r].email /\ flag'[r] /\ account' = account
      BY <1>2, <2>1, <2>2 DEF CheckPassword, Goto, TypeInv, TypeOK
    <2> QED BY <2>1, <2>2, <2>3
  <1> QED BY <1>1, <1>2

(* Every step keeps what a refresh has checked and revoked.                *)
LEMMA RefreshNext == TypeInv /\ IssuedInv /\ RefreshInv /\ [Next]_vars => RefreshInv'
  <1> SUFFICES ASSUME TypeInv, IssuedInv, RefreshInv, [Next]_vars, NEW r \in Reqs,
                      Asks(r, "refresh")', pc'[r] \in {"revoke", "issue"} \/ token'[r].issued
               PROVE  /\ call'[r].token \in Tokens /\ token'[call'[r].token].issued
                      /\ token'[call'[r].token].owner =
                            IF token'[r].issued THEN token'[r].owner ELSE found'[r]
                      /\ pc'[r] # "revoke" => token'[call'[r].token].revoked
    BY DEF RefreshInv, Asks
  <1>t. r \in Tokens
    BY DEF Tokens
  <1>1. CASE pc[r] \in {"revoke", "issue"} \/ token[r].issued
    <2> DEFINE t == call[r].token
    <2>1. pc[r] \notin {"new", "find"}
      BY <1>1 DEF IssuedInv
    <2>2. call'[r] = call[r] /\ Asks(r, "refresh") /\ found'[r] = found[r]
      BY <2>1, RequestStep, FoundStays DEF Asks
    <2>3. /\ t \in Tokens /\ token[t].issued
          /\ token[t].owner = IF token[r].issued THEN token[r].owner ELSE found[r]
          /\ pc[r] # "revoke" => token[t].revoked
      BY <1>1, <2>2 DEF RefreshInv
    <2> HIDE DEF t
    <2>4. /\ token'[t].issued /\ token'[t].owner = token[t].owner
          /\ token[t].revoked => token'[t].revoked
      BY <2>3, TokensStay
    <2>5. token'[t].owner = IF token'[r].issued THEN token'[r].owner ELSE found'[r]
      <3>1. CASE token[r].issued
        BY <2>3, <2>4, <3>1, <1>t, TokensStay
      <3>2. CASE ~token[r].issued /\ ~token'[r].issued
        BY <2>2, <2>3, <2>4, <3>2
      <3>3. CASE ~token[r].issued /\ token'[r].issued
        <4>1. token'[r].owner = found[r]
          BY <3>3, <1>t, OnlyIssued
        <4> QED BY <2>2, <2>3, <2>4, <3>3, <4>1
      <3> QED BY <3>1, <3>2, <3>3
    <2>6. pc'[r] # "revoke" => token'[t].revoked
      <3>1. CASE pc[r] = "revoke" /\ pc'[r] # "revoke"
        <4>1. ~token[r].issued
          BY <3>1 DEF IssuedInv
        <4>2. ~token'[r].issued
          BY <3>1, <4>1, <1>t, OnlyIssued DEF IssueTokens
        <4>3. RevokeToken(r)
          BY <3>1, <4>2, ComesToIssue DEF CheckPassword
        <4> QED BY <2>3, <4>3, SessionsAssumption DEF RevokeToken, TypeInv, TypeOK, TokenRow, t
      <3> QED BY <2>3, <2>4, <3>1
    <2> QED BY <2>2, <2>3, <2>4, <2>5, <2>6 DEF t
  <1>2. CASE ~(pc[r] \in {"revoke", "issue"} \/ token[r].issued)
    <2>1. ~token'[r].issued
      BY <1>2, <1>t, OnlyIssued DEF IssueTokens
    <2>2. pc'[r] # "issue"
      BY <1>2, ComesToIssue DEF RevokeToken, CheckPassword, Asks
    <2>3. FindToken(r) /\ call'[r] = call[r] /\ call[r] \in Calls /\ call[r].op = "refresh"
      BY <1>2, <2>1, <2>2, ComesToRevoke
    <2>4. call[r].token \in Tokens \cup {NoToken} /\ call' = call
      BY <2>3, CallFields DEF FindToken
    <2>5. /\ call[r].token # NoToken /\ token[call[r].token].issued
          /\ found'[r] = token[call[r].token].owner /\ token' = token /\ pc'[r] = "revoke"
      BY <1>2, <2>1, <2>2, <2>3 DEF FindToken, Usable, Goto, TypeInv, TypeOK
    <2> QED BY <2>1, <2>3, <2>4, <2>5
  <1> QED BY <1>1, <1>2

TokenInv == TypeInv /\ HistoryInv /\ IssuedInv /\ LoginInv /\ RefreshInv

(* At the start no request has made a token.                               *)
LEMMA TokenInit == Init => TokenInv
  <1> SUFFICES ASSUME Init PROVE TokenInv
    OBVIOUS
  <1>1. \A r \in Reqs : ~token[r].issued /\ pc[r] = "new" /\ seen[r] = {} /\ call[r] = NoCall
    BY SessionsAssumption DEF Init, Tokens
  <1> QED BY <1>1, TypeInit DEF TokenInv, HistoryInv, IssuedInv, LoginInv, RefreshInv, Done, Asks

(* Every step keeps all of it.                                             *)
LEMMA TokenNext == TokenInv /\ [Next]_vars => TokenInv'
  BY TypeNext, HistoryNext, IssuedNext, LoginNext, RefreshNext DEF TokenInv

(* No refresh token without a login that had the owner's password and read *)
(* the owner as verified, or without a token of the same owner that is     *)
(* revoked by then (refresh, login).                                       *)
THEOREM TokensAreEarned == Spec => []TokensEarned
  <1>1. TokenInv => TokensEarned
    <2> SUFFICES ASSUME TokenInv, NEW t \in Reqs, token[t].issued
                 PROVE  \/ /\ Asks(t, "login") /\ flag[t]
                           /\ token[t].owner = call[t].email
                           /\ account[call[t].email].password = call[t].password
                        \/ /\ Asks(t, "refresh")
                           /\ token[call[t].token].issued /\ token[call[t].token].revoked
                           /\ token[t].owner = token[call[t].token].owner
      BY DEF TokensEarned
    <2>1. pc[t] \in {"reply", "ok", "failed"} /\ call[t].op \in {"login", "refresh"}
      BY DEF TokenInv, IssuedInv
    <2>2. call[t] # NoCall
      BY <2>1, CallFields DEF TokenInv
    <2>3. CASE call[t].op = "login"
      BY <2>2, <2>3 DEF TokenInv, LoginInv, Asks
    <2>4. CASE call[t].op = "refresh"
      BY <2>1, <2>2, <2>4 DEF TokenInv, RefreshInv, Asks
    <2> QED BY <2>1, <2>3, <2>4
  <1> QED BY <1>1, TokenInit, TokenNext, PTL DEF Spec

-----------------------------------------------------------------------------
(* A token that a refresh or a logout is done with is of no use any more.  *)
Spent(t) == t \in Tokens => (token[t].issued => token[t].revoked)

LogoutInv == \A s \in Reqs : Asks(s, "logout") /\ Done(s) => Spent(call[s].token)

(* Every step leaves the token of a logout that is done spent.             *)
LEMMA LogoutNext == TokenInv /\ LogoutInv /\ [Next]_vars => LogoutInv'
  <1> SUFFICES ASSUME TokenInv, LogoutInv, [Next]_vars, NEW s \in Reqs,
                      Asks(s, "logout")', Done(s)', call'[s].token \in Tokens,
                      token'[call'[s].token].issued
               PROVE  token'[call'[s].token].revoked
    BY DEF LogoutInv, Spent, Asks
  <1> DEFINE t == call[s].token
  <1>t. TypeInv /\ HistoryInv /\ IssuedInv
    BY DEF TokenInv
  <1>1. call'[s] = call[s] /\ Asks(s, "logout") /\ pc[s] # "new"
    <2>1. CASE Done(s)
      BY <1>t, <2>1, RequestStep DEF Done, Asks
    <2>2. CASE ~Done(s)
      <3>1. call'[s] = call[s] /\ RevokeToken(s)
        BY <1>t, <2>2, BecomesDone DEF Asks
      <3> QED BY <3>1 DEF RevokeToken, Asks
    <2> QED BY <2>1, <2>2
  <1>2. t \in Tokens /\ token'[t].issued
    BY <1>1
  <1>3. CASE ~Done(s)
    <2>1. RevokeToken(s)
      BY <1>t, <1>1, <1>3, BecomesDone DEF Asks
    <2> QED BY <1>t, <1>1, <1>2, <2>1, SessionsAssumption
            DEF RevokeToken, TypeInv, TypeOK, TokenRow
  <1>4. CASE Done(s)
    <2>1. token[t].issued => token[t].revoked
      BY <1>1, <1>2, <1>4 DEF LogoutInv, Spent
    <2>2. token[t].issued
      <3> SUFFICES ASSUME ~token[t].issued PROVE FALSE
        OBVIOUS
      <3>1. t \in Reqs /\ IssueTokens(t)
        BY <1>t, <1>2, OnlyIssued
      <3>2. Holds(call[s])
        BY <1>t, <1>1 DEF HistoryInv
      <3> QED BY <1>1, <3>1, <3>2 DEF Holds, Asks, TokenOps, IssueTokens
    <2> QED BY <1>t, <1>1, <1>2, <2>1, <2>2, TokensStay
  <1> QED BY <1>3, <1>4

(* A token that a refresh or a logout has spent is of no use.              *)
LEMMA SpentWhenDone ==
    ASSUME TokenInv, LogoutInv, NEW s \in Reqs, Spends(s)
    PROVE  ~Usable(call[s].token)
  <1>0. pc[s] # "new"
    BY DEF Spends, TokenInv, IssuedInv
  <1>1. call[s].token \in Tokens \cup {NoToken}
    BY <1>0, CallFields DEF TokenInv
  <1>2. Spent(call[s].token)
    BY DEF Spends, TokenInv, LogoutInv, IssuedInv, RefreshInv, Asks, Done, Spent
  <1> QED BY <1>1, <1>2 DEF Spent, Usable

(* A refresh that came after its token was spent gets no further than its  *)
(* read.                                                                   *)
RefusedInv ==
    \A r \in Reqs : \A s \in seen[r] :
        Asks(r, "refresh") /\ Spends(s) /\ call[s].token = call[r].token
            => pc[r] \in {"find", "refused", "failed"} /\ ~token[r].issued

(* A request at its read ends there or goes on; if it arrives, it is there *)
(* (a logout needs no read).                                               *)
LEMMA FromFind ==
    ASSUME TypeInv, [Next]_vars, NEW r \in Reqs, pc[r] = "find", pc'[r] # "find"
    PROVE  \/ FindEmail(r) \/ CheckPassword(r) \/ FindVerifyToken(r) \/ FindDeveloper(r)
           \/ FindToken(r) \/ pc'[r] = "failed"
  <1>1. Handle(r) \/ Fail(r)
    BY RequestStep DEF Arrive
  <1> QED BY <1>1 DEF Handle, CreateDeveloper, MarkVerified, ToggleDeveloper, RevokeToken,
                      IssueTokens, Reply, Fail, Goto, TypeInv, TypeOK

(* A request that arrives is at its read, or a logout at its update.       *)
LEMMA Arrives ==
    ASSUME TypeInv, TypeInv', [Next]_vars, NEW r \in Reqs, pc[r] = "new", call'[r] # NoCall
    PROVE  Arrive(r) /\ pc'[r] = IF call'[r].op = "logout" THEN "revoke" ELSE "find"
  <1>1. pc'[r] # "new"
    BY DEF TypeInv, LabelsOK
  <1>2. Arrive(r)
    BY <1>1, RequestStep, HandleFrame DEF Waiting
  <1>3. TypeOK
    BY DEF TypeInv
  <1>4. PICK c \in Calls : /\ call' = [call EXCEPT ![r] = c]
                           /\ pc' = [pc EXCEPT ![r] = IF c.op = "logout" THEN "revoke" ELSE "find"]
    BY <1>2 DEF Arrive, Goto
  <1>5. call'[r] = c /\ pc'[r] = IF c.op = "logout" THEN "revoke" ELSE "find"
    BY <1>3, <1>4 DEF TypeOK
  <1> QED BY <1>2, <1>5

(* Every step leaves a refresh by a spent token where it ends.             *)
LEMMA RefusedNext == TokenInv /\ LogoutInv /\ RefusedInv /\ [Next]_vars => RefusedInv'
  <1> SUFFICES ASSUME TokenInv, LogoutInv, RefusedInv, [Next]_vars,
                      NEW r \in Reqs, NEW s \in seen'[r],
                      Asks(r, "refresh")', Spends(s)', call'[s].token = call'[r].token
               PROVE  pc'[r] \in {"find", "refused", "failed"} /\ ~token'[r].issued
    BY DEF RefusedInv, Asks
  <1>t. TypeInv /\ TypeInv' /\ IssuedInv /\ HistoryInv /\ r \in Tokens
    BY TypeNext DEF TokenInv, Tokens
  <1>1. CASE pc[r] = "new"
    <2>1. pc'[r] = "find"
      BY <1>t, <1>1, Arrives DEF Asks
    <2>2. ~token[r].issued
      BY <1>t, <1>1 DEF IssuedInv
    <2> QED BY <1>t, <1>1, <2>1, <2>2, OnlyIssued DEF IssueTokens
  <1>2. CASE pc[r] # "new"
    <2>1. call'[r] = call[r] /\ seen'[r] = seen[r] /\ s \in seen[r] /\ s \in Reqs
      BY <1>t, <1>2, RequestStep DEF TypeInv, TypeOK
    <2>2. pc[s] \in Answers
      BY <1>t, <2>1 DEF HistoryInv
    <2>a. pc'[s] = pc[s] /\ call'[s] = call[s]
      BY <1>t, <2>1, <2>2, RequestStep DEF Answers
    <2>b. token'[s].issued => token[s].issued
      BY <1>t, <2>1, <2>2, OnlyIssued DEF IssueTokens, Answers, Tokens
    <2>3. Asks(r, "refresh") /\ Spends(s) /\ call[s].token = call[r].token
      BY <2>1, <2>a, <2>b DEF Asks, Spends
    <2>4. pc[r] \in {"find", "refused", "failed"} /\ ~token[r].issued
      BY <2>1, <2>3 DEF RefusedInv
    <2>5. ~Usable(call[r].token)
      BY <2>1, <2>3, SpentWhenDone
    <2>6. ~token'[r].issued
      BY <1>t, <2>4, OnlyIssued DEF IssueTokens
    <2>7. CASE pc[r] = "find" /\ pc'[r] # "find"
      <3>1. FindToken(r) \/ pc'[r] = "failed"
        BY <1>t, <2>3, <2>7, FromFind DEF FindEmail, CheckPassword, FindVerifyToken, FindDeveloper,
                                          Asks
      <3> QED BY <1>t, <2>5, <2>6, <3>1 DEF FindToken, Goto, TypeInv, TypeOK
    <2>8. CASE pc[r] \in {"refused", "failed"}
      BY <1>t, <2>6, <2>8, RequestStep DEF Answers
    <2> QED BY <2>4, <2>6, <2>7, <2>8
  <1> QED BY <1>1, <1>2

(* A token that was exchanged or logged out gets a later refresh nothing,  *)
(* whether its answer arrived or not, however others race with it          *)
(* (refresh, logout).                                                      *)
THEOREM SpentTokensRefused == Spec => []SpentTokenIsRefused
  <1>1. Init => TokenInv /\ LogoutInv /\ RefusedInv
    <2> SUFFICES ASSUME Init PROVE LogoutInv /\ RefusedInv
      BY TokenInit
    <2> QED BY DEF Init, LogoutInv, RefusedInv, Done
  <1>2. TokenInv /\ LogoutInv /\ RefusedInv /\ [Next]_vars => (TokenInv /\ LogoutInv /\ RefusedInv)'
    BY TokenNext, LogoutNext, RefusedNext
  <1>3. RefusedInv => SpentTokenIsRefused
    BY DEF RefusedInv, SpentTokenIsRefused
  <1> QED BY <1>1, <1>2, <1>3, PTL DEF Spec

-----------------------------------------------------------------------------
(* v is a link of the developer e: of the start, or of the registration    *)
(* that made the row.                                                      *)
LinkOf(v, e) ==
    /\ v \in Emails => v = e
    /\ v \in Reqs => /\ Asks(v, "register") /\ call[v].email = e
                     /\ pc[v] \in {"reply", "ok", "failed"}

(* The verification tokens in table Developer are links of their rows.     *)
LinkInv ==
    \A e \in Emails, v \in Tokens : account[e].verifyToken = v => LinkOf(v, e)

(* A verification at its update found the row its link is of; the token is *)
(* still there, or another use of the link has cleared it.                 *)
FoundInv ==
    \A r \in Reqs : pc[r] = "verify" =>
        /\ account[found[r]].exists /\ call[r].token \in Tokens
        /\ account[found[r]].verifyToken \in {call[r].token, NoToken}
        /\ LinkOf(call[r].token, found[r])

(* A link that was used is in no row.                                      *)
ClearedInv ==
    \A r \in Reqs : Asks(r, "verify") /\ Done(r) =>
        /\ call[r].token \in Tokens
        /\ \A e \in Emails : account[e].verifyToken # call[r].token

LinksInv == TypeInv /\ HistoryInv /\ LinkInv /\ FoundInv /\ ClearedInv

(* A request past its last write waits for its answer, or has it.          *)
LEMMA AfterReply ==
    ASSUME TypeInv, [Next]_vars, NEW r \in Reqs, pc[r] \in {"reply", "ok", "failed"}
    PROVE  pc'[r] \in {"reply", "ok", "failed"}
  <1>1. CASE pc[r] = "reply" /\ pc'[r] # pc[r]
    <2>1. Reply(r) \/ Fail(r)
      BY <1>1, RequestStep DEF Arrive, Handle, FindEmail, CreateDeveloper, CheckPassword,
         FindVerifyToken, MarkVerified, FindDeveloper, ToggleDeveloper, FindToken, RevokeToken,
         IssueTokens
    <2> QED BY <2>1 DEF Reply, Fail, Goto, TypeInv, TypeOK
  <1>2. CASE pc[r] \in {"ok", "failed"}
    BY <1>2, RequestStep DEF Answers
  <1> QED BY <1>1, <1>2

(* A link stays the link of its developer.                                 *)
LEMMA LinkStays ==
    ASSUME TypeInv, [Next]_vars, NEW v \in Tokens, NEW e \in Emails, LinkOf(v, e)
    PROVE  LinkOf(v, e)'
  <1>1. CASE v \in Reqs
    <2>1. Asks(v, "register") /\ call[v].email = e /\ pc[v] \in {"reply", "ok", "failed"}
      BY <1>1 DEF LinkOf
    <2>2. call'[v] = call[v] /\ pc'[v] \in {"reply", "ok", "failed"}
      BY <1>1, <2>1, RequestStep, AfterReply
    <2> QED BY <1>1, <2>1, <2>2, SessionsAssumption DEF LinkOf, Asks
  <1>2. CASE v \notin Reqs
    BY <1>2 DEF LinkOf
  <1> QED BY <1>1, <1>2

(* Only a registration puts a verification token into a row.               *)
LEMMA OnlyRegistrations ==
    ASSUME TypeInv, [Next]_vars, NEW e \in Emails
    PROVE  \/ account'[e].verifyToken \in {account[e].verifyToken, NoToken}
           \/ \E r \in Reqs : /\ CreateDeveloper(r) /\ pc'[r] = "reply" /\ call[r].email = e
                              /\ account'[e].verifyToken = r
  <1>1. account[e] \in AccountRow
    BY DEF TypeInv, TypeOK
  <1>2. CASE \E r \in Reqs : /\ CreateDeveloper(r) /\ pc'[r] = "reply" /\ call[r].email = e
                             /\ account'[e] = NewAccount(r)
    BY <1>2 DEF NewAccount
  <1>3. CASE account'[e] = account[e]
    BY <1>3
  <1>4. CASE account'[e] = [account[e] EXCEPT !.isVerified = TRUE, !.verifyToken = NoToken]
    BY <1>1, <1>4 DEF AccountRow
  <1>5. CASE \E r \in Reqs : account'[e] = [account[e] EXCEPT !.isVerified = ~flag[r]]
    BY <1>1, <1>5 DEF AccountRow
  <1> QED BY <1>2, <1>3, <1>4, <1>5, AccountStep

(* Every step leaves the tokens in the rows links of their rows.           *)
LEMMA LinkNext == LinksInv /\ [Next]_vars => LinkInv'
  <1> SUFFICES ASSUME LinksInv, [Next]_vars, NEW e \in Emails, NEW v \in Tokens,
                      account'[e].verifyToken = v
               PROVE  LinkOf(v, e)'
    BY DEF LinkInv
  <1>t. TypeInv /\ LinkInv
    BY DEF LinksInv
  <1>1. CASE v = account[e].verifyToken
    BY <1>t, <1>1, LinkStays DEF LinkInv
  <1>2. CASE \E r \in Reqs : CreateDeveloper(r) /\ pc'[r] = "reply" /\ call[r].email = e /\ v = r
    <2>1. v \in Reqs /\ CreateDeveloper(v) /\ pc'[v] = "reply" /\ call[v].email = e
      BY <1>2
    <2>2. call[v].op = "register" /\ call[v] # NoCall /\ call' = call
      BY <1>t, <2>1, CallFields DEF CreateDeveloper, TypeInv, LabelsOK
    <2> QED BY <2>1, <2>2, SessionsAssumption DEF Asks, LinkOf
  <1> QED BY <1>t, <1>1, <1>2, OnlyRegistrations, SessionsAssumption

(* How a verification comes to its update.                                 *)
LEMMA ComesToVerify ==
    ASSUME TypeInv, [Next]_vars, NEW r \in Reqs, pc[r] # "verify", pc'[r] = "verify"
    PROVE  FindVerifyToken(r) /\ pc[r] = "find"
  <1>1. Arrive(r) \/ Handle(r) \/ Fail(r)
    BY RequestStep
  <1>2. FindVerifyToken(r)
    BY <1>1 DEF Arrive, Handle, Fail, FindEmail, CreateDeveloper, CheckPassword, MarkVerified,
       FindDeveloper, ToggleDeveloper, FindToken, RevokeToken, IssueTokens, Reply, Goto,
       TypeInv, TypeOK
  <1> QED BY <1>2 DEF FindVerifyToken

(* Every step leaves a verification at its update with the right row.      *)
LEMMA FoundNext == LinksInv /\ [Next]_vars => FoundInv'
  <1> SUFFICES ASSUME LinksInv, [Next]_vars, NEW r \in Reqs, pc'[r] = "verify"
               PROVE  /\ account'[found'[r]].exists /\ call'[r].token \in Tokens
                      /\ account'[found'[r]].verifyToken \in {call'[r].token, NoToken}
                      /\ LinkOf(call[r].token, found[r])'
    BY DEF FoundInv
  <1>t. TypeInv /\ LinkInv /\ FoundInv
    BY DEF LinksInv
  <1>1. CASE pc[r] = "verify"
    <2>1. call'[r] = call[r] /\ found'[r] = found[r] /\ found[r] \in Emails
      BY <1>t, <1>1, RequestStep, FoundStays DEF TypeInv, TypeOK
    <2>2. PICK t \in Tokens, e \in Emails : t = call[r].token /\ e = found[r]
      BY <1>t, <1>1, <2>1 DEF FoundInv
    <2>3. account[e].exists /\ account[e].verifyToken \in {t, NoToken} /\ LinkOf(t, e)
      BY <1>t, <1>1, <2>2 DEF FoundInv
    <2>4. account'[e].exists /\ account'[e].verifyToken \in {t, NoToken}
      BY <1>t, <2>3, RowsStay
    <2>5. LinkOf(t, e)'
      BY <1>t, <2>3, LinkStays
    <2>6. t = call'[r].token /\ e = found'[r]
      BY <2>1, <2>2
    <2> QED BY <2>4, <2>5, <2>6 DEF LinkOf, Asks
  <1>2. CASE pc[r] # "verify"
    <2>1. FindVerifyToken(r) /\ call' = call /\ account' = account
      BY <1>t, <1>2, ComesToVerify DEF FindVerifyToken
    <2>2. PICK e \in Emails : /\ account[e].exists /\ account[e].verifyToken = call[r].token
                              /\ call[r].token # NoToken /\ found' = [found EXCEPT ![r] = e]
      BY <1>t, <2>1 DEF FindVerifyToken, Goto, TypeInv, TypeOK
    <2>3. call[r].token \in Tokens
      BY <1>t, <2>1, <2>2, CallFields DEF FindVerifyToken
    <2>4. PICK t \in Tokens : t = call[r].token
      BY <2>3
    <2>5. LinkOf(t, e)'
      BY <1>t, <2>2, <2>4, LinkStays DEF LinkInv
    <2>6. found'[r] = e /\ t = call'[r].token
      BY <1>t, <2>1, <2>2, <2>4 DEF TypeInv, TypeOK
    <2> QED BY <2>1, <2>2, <2>4, <2>5, <2>6 DEF LinkOf, Asks
  <1> QED BY <1>1, <1>2

(* Every step leaves a used link in no row.                                *)
LEMMA ClearedNext == LinksInv /\ [Next]_vars => ClearedInv'
  <1> SUFFICES ASSUME LinksInv, [Next]_vars, NEW r \in Reqs, Asks(r, "verify")', Done(r)'
               PROVE  /\ call'[r].token \in Tokens
                      /\ \A e \in Emails : account'[e].verifyToken # call'[r].token
    BY DEF ClearedInv, Asks, Done
  <1>t. TypeInv /\ HistoryInv /\ LinkInv /\ FoundInv /\ ClearedInv
    BY DEF LinksInv
  <1>1. CASE Done(r)
    <2>1. call'[r] = call[r] /\ Asks(r, "verify") /\ pc[r] # "new"
      BY <1>t, <1>1, RequestStep DEF Done, Asks
    <2>2. /\ call[r].token \in Tokens
          /\ \A e \in Emails : account[e].verifyToken # call[r].token
      BY <1>t, <1>1, <2>1 DEF ClearedInv
    <2>3. Holds(call[r])
      BY <1>t, <2>1 DEF HistoryInv
    <2>4. ASSUME NEW e \in Emails PROVE account'[e].verifyToken # call[r].token
      <3>1. CASE account'[e].verifyToken \in {account[e].verifyToken, NoToken}
        BY <2>2, <3>1, SessionsAssumption
      <3>2. CASE \E q \in Reqs : CreateDeveloper(q) /\ account'[e].verifyToken = q
        BY <2>1, <2>3, <3>2 DEF CreateDeveloper, Holds, TokenOps, Asks
      <3> QED BY <1>t, <3>1, <3>2, OnlyRegistrations
    <2> QED BY <2>1, <2>2, <2>4
  <1>2. CASE ~Done(r)
    <2>1. MarkVerified(r) /\ call'[r] = call[r] /\ call[r] # NoCall
      BY <1>t, <1>2, BecomesDone DEF Asks
    <2>2. pc[r] = "verify" /\ found[r] \in Emails
      BY <1>t, <2>1 DEF MarkVerified, TypeInv, TypeOK
    <2>3. call[r].token \in Tokens /\ LinkOf(call[r].token, found[r])
      BY <1>t, <2>2 DEF FoundInv
    <2>4. PICK t \in Tokens : t = call[r].token
      BY <2>3
    <2>5. ASSUME NEW e \in Emails PROVE account'[e].verifyToken # t
      <3>1. CASE e = found[r]
        <4>1. account'[e] = [account[e] EXCEPT !.isVerified = TRUE, !.verifyToken = NoToken]
          BY <1>t, <2>1, <3>1 DEF MarkVerified, TypeInv, TypeOK
        <4>2. account[e] \in AccountRow
          BY <1>t DEF TypeInv, TypeOK
        <4> QED BY <4>1, <4>2, SessionsAssumption DEF AccountRow
      <3>2. CASE e # found[r]
        <4>1. account'[e] = account[e]
          BY <1>t, <2>1, <3>2 DEF MarkVerified, TypeInv, TypeOK
        <4>2. account[e].verifyToken = t => LinkOf(t, e)
          BY <1>t DEF LinkInv
        <4>3. ~(LinkOf(t, e) /\ LinkOf(t, found[r]))
          BY <3>2 DEF LinkOf, Tokens
        <4> QED BY <2>3, <2>4, <4>1, <4>2, <4>3
      <3> QED BY <3>1, <3>2
    <2> QED BY <2>1, <2>3, <2>4, <2>5
  <1> QED BY <1>1, <1>2

(* A verification that came after its link was used gets no further than   *)
(* its read.                                                               *)
UsedInv ==
    \A r \in Reqs : \A s \in seen[r] :
        /\ Asks(r, "verify") /\ Asks(s, "verify")
        /\ call[s].token = call[r].token /\ pc[s] = "ok"
        => pc[r] \in {"find", "refused", "failed"}

(* At the start no request has come.                                       *)
LEMMA LinksInit == Init => LinksInv /\ UsedInv
  <1> SUFFICES ASSUME Init PROVE LinksInv /\ UsedInv
    OBVIOUS
  <1>1. TypeInv
    BY TypeInit
  <1>2. HistoryInv
    BY DEF Init, HistoryInv
  <1>3. LinkInv
    <2> SUFFICES ASSUME NEW e \in Emails, NEW v \in Tokens, account[e].verifyToken = v
                 PROVE  LinkOf(v, e)
      BY DEF LinkInv
    <2>1. account[e].verifyToken \in {e, NoToken}
      BY DEF Init
    <2> QED BY <2>1, SessionsAssumption DEF LinkOf
  <1>4. FoundInv /\ ClearedInv /\ UsedInv
    BY DEF Init, FoundInv, ClearedInv, UsedInv, Done
  <1> QED BY <1>1, <1>2, <1>3, <1>4 DEF LinksInv

(* Every step leaves the rows, the links and the verifications consistent. *)
LEMMA LinksNext == LinksInv /\ [Next]_vars => LinksInv'
  BY TypeNext, HistoryNext, LinkNext, FoundNext, ClearedNext DEF LinksInv

(* Every step leaves a verification by a used link where it ends.          *)
LEMMA UsedNext == LinksInv /\ UsedInv /\ [Next]_vars => UsedInv'
  <1> SUFFICES ASSUME LinksInv, UsedInv, [Next]_vars, NEW r \in Reqs, NEW s \in seen'[r],
                      Asks(r, "verify")', Asks(s, "verify")',
                      call'[s].token = call'[r].token, pc'[s] = "ok"
               PROVE  pc'[r] \in {"find", "refused", "failed"}
    BY DEF UsedInv, Asks
  <1>t. TypeInv /\ TypeInv' /\ HistoryInv /\ ClearedInv
    BY TypeNext DEF LinksInv
  <1>1. CASE pc[r] = "new"
    BY <1>t, <1>1, Arrives DEF Asks
  <1>2. CASE pc[r] # "new"
    <2>1. call'[r] = call[r] /\ s \in seen[r] /\ s \in Reqs
      BY <1>t, <1>2, RequestStep DEF TypeInv, TypeOK
    <2>2. pc[s] = "ok" /\ call'[s] = call[s]
      <3>1. pc[s] \in Answers
        BY <1>t, <2>1 DEF HistoryInv
      <3> QED BY <1>t, <2>1, <3>1, RequestStep DEF Answers
    <2>3. Asks(r, "verify") /\ Asks(s, "verify") /\ call[s].token = call[r].token
      BY <2>1, <2>2 DEF Asks
    <2>4. pc[r] \in {"find", "refused", "failed"}
      BY <2>1, <2>2, <2>3 DEF UsedInv
    <2>5. \A e \in Emails : account[e].verifyToken # call[r].token
      BY <1>t, <2>1, <2>2, <2>3 DEF ClearedInv, Done
    <2>6. CASE pc[r] = "find" /\ pc'[r] # "find"
      <3>1. FindVerifyToken(r) \/ pc'[r] = "failed"
        BY <1>t, <2>3, <2>6, FromFind DEF FindEmail, CheckPassword, FindToken, FindDeveloper, Asks
      <3> QED BY <1>t, <2>5, <3>1 DEF FindVerifyToken, Goto, TypeInv, TypeOK
    <2>7. CASE pc[r] \in {"refused", "failed"}
      BY <1>t, <2>7, RequestStep DEF Answers
    <2> QED BY <2>4, <2>6, <2>7
  <1> QED BY <1>1, <1>2

(* A verification link that was answered "ok" verifies nobody a second     *)
(* time, whoever is deactivated, registered or verified in between         *)
(* (auth.service.ts, verifyEmail).                                         *)
THEOREM LinksWorkOnce == Spec => []LinkWorksOnce
  <1>1. LinksInv /\ UsedInv /\ [Next]_vars => (LinksInv /\ UsedInv)'
    BY LinksNext, UsedNext
  <1>2. UsedInv => LinkWorksOnce
    BY DEF UsedInv, LinkWorksOnce, Done
  <1> QED BY <1>1, <1>2, LinksInit, PTL DEF Spec

-----------------------------------------------------------------------------
(* A toggle at its update found the developer it is about.                 *)
ToggleInv == \A r \in Reqs : pc[r] = "toggle" => found[r] = call[r].email

(* Who set isVerified is past its last write.                              *)
SetterInv ==
    \A e \in Emails : setBy[e] # NoToken => pc[setBy[e]] \in {"reply", "ok", "failed"}

ReasonInv == LinksInv /\ UsedInv /\ ToggleInv /\ SetterInv /\ VerifiedForAReason

(* How a toggle comes to its update.                                       *)
LEMMA ComesToToggle ==
    ASSUME TypeInv, [Next]_vars, NEW r \in Reqs, pc[r] # "toggle", pc'[r] = "toggle"
    PROVE  FindDeveloper(r)
  <1>1. Arrive(r) \/ Handle(r) \/ Fail(r)
    BY RequestStep
  <1> QED BY <1>1 DEF Arrive, Handle, Fail, FindEmail, CreateDeveloper, CheckPassword,
       FindVerifyToken, MarkVerified, ToggleDeveloper, FindToken, RevokeToken, IssueTokens, Reply,
       Goto, TypeInv, TypeOK

(* Every step leaves a toggle at its update with its developer.            *)
LEMMA ToggleNext == TypeInv /\ ToggleInv /\ [Next]_vars => ToggleInv'
  <1> SUFFICES ASSUME TypeInv, ToggleInv, [Next]_vars, NEW r \in Reqs, pc'[r] = "toggle"
               PROVE  found'[r] = call'[r].email
    BY DEF ToggleInv
  <1>1. CASE pc[r] = "toggle"
    BY <1>1, RequestStep, FoundStays DEF ToggleInv
  <1>2. CASE pc[r] # "toggle"
    <2>1. FindDeveloper(r)
      BY <1>2, ComesToToggle
    <2> QED BY <2>1 DEF FindDeveloper, TypeInv, TypeOK
  <1> QED BY <1>1, <1>2

(* Every step leaves the last writer of isVerified past its last write.    *)
LEMMA SetterNext == TypeInv /\ SetterInv /\ [Next]_vars => SetterInv'
  <1> SUFFICES ASSUME TypeInv, SetterInv, [Next]_vars, NEW e \in Emails, setBy'[e] # NoToken
               PROVE  pc'[setBy'[e]] \in {"reply", "ok", "failed"}
    BY DEF SetterInv
  <1>1. CASE setBy'[e] = setBy[e]
    <2>1. setBy[e] \in Reqs
      BY <1>1 DEF TypeInv, TypeOK
    <2> QED BY <1>1, <2>1, AfterReply DEF SetterInv
  <1> QED BY <1>1, AccountStep

(* What a request has seen answered stays as it was.                       *)
LEMMA SeenStays ==
    ASSUME TypeInv, HistoryInv, [Next]_vars, NEW r \in Reqs, pc[r] # "new"
    PROVE  /\ seen'[r] = seen[r] /\ seen[r] \subseteq Reqs
           /\ \A s \in seen[r] : pc'[s] = pc[s] /\ call'[s] = call[s] /\ pc[s] \in Answers
  <1>1. seen'[r] = seen[r] /\ seen[r] \subseteq Reqs
    BY RequestStep DEF TypeInv, TypeOK
  <1>2. ASSUME NEW s \in seen[r] PROVE pc'[s] = pc[s] /\ call'[s] = call[s] /\ pc[s] \in Answers
    <2>1. pc[s] \in Answers /\ s \in Reqs
      BY <1>1 DEF HistoryInv
    <2> QED BY <2>1, RequestStep DEF Answers
  <1> QED BY <1>1, <1>2

(* A reason stays one while nobody writes the row.                         *)
LEMMA ReasonStays ==
    ASSUME TypeInv, HistoryInv, SetterInv, [Next]_vars, NEW e \in Emails, Reason(e),
           account'[e] = account[e], setBy'[e] = setBy[e]
    PROVE  Reason(e)'
  <1>1. CASE setBy[e] = NoToken
    BY <1>1 DEF Reason
  <1>2. CASE setBy[e] # NoToken
    <2>0. PICK r \in Reqs : r = setBy[e]
      BY <1>2 DEF TypeInv, TypeOK
    <2>1. pc[r] \in {"reply", "ok", "failed"}
      BY <1>2, <2>0 DEF SetterInv
    <2>2. call'[r] = call[r] /\ flag'[r] = flag[r] /\ setBy'[e] = r
      BY <2>0, <2>1, RequestStep, FoundStays
    <2>3. /\ seen'[r] = seen[r]
          /\ \A s \in seen[r] : pc'[s] = pc[s] /\ call'[s] = call[s]
      BY <2>1, SeenStays
    <2>4. ASSUME NEW s \in Reqs, NEW op, Asks(s, op)
          PROVE  call'[s] = call[s] /\ Asks(s, op)'
      BY <2>4, RequestStep DEF Asks, TypeInv, LabelsOK
    <2>5. OpensLinkOf(r, e) => OpensLinkOf(r, e)'
      BY <2>1, <2>2, <2>4 DEF OpensLinkOf
    <2>6. \/ Asks(r, "register") /\ call[r].email = e /\ ~account[e].isVerified
          \/ /\ Asks(r, "verify") /\ OpensLinkOf(r, e) /\ account[e].isVerified
             /\ \A s \in seen[r] :
                   ~(Asks(s, "verify") /\ call[s].token = call[r].token /\ pc[s] = "ok")
          \/ Asks(r, "toggle") /\ call[r].email = e /\ (account[e].isVerified <=> ~flag[r])
      BY <1>2, <2>0 DEF Reason
    <2>7. \A s \in seen[r] : Asks(s, "verify")' => Asks(s, "verify")
      BY <2>3 DEF Asks
    <2>8. \/ Asks(r, "register")' /\ call'[r].email = e /\ ~account'[e].isVerified
          \/ /\ Asks(r, "verify")' /\ OpensLinkOf(r, e)' /\ account'[e].isVerified
             /\ \A s \in seen'[r] :
                   ~(Asks(s, "verify")' /\ call'[s].token = call'[r].token /\ pc'[s] = "ok")
          \/ Asks(r, "toggle")' /\ call'[r].email = e /\ (account'[e].isVerified <=> ~flag'[r])
      <3>1. CASE Asks(r, "verify") /\ OpensLinkOf(r, e) /\ account[e].isVerified
        BY <2>1, <2>2, <2>3, <2>4, <2>5, <2>6, <2>7, <3>1 DEF Asks
      <3>2. CASE \/ Asks(r, "register") /\ call[r].email = e /\ ~account[e].isVerified
                 \/ Asks(r, "toggle") /\ call[r].email = e /\ (account[e].isVerified <=> ~flag[r])
        BY <2>1, <2>2, <2>4, <3>2
      <3> QED BY <2>6, <3>1, <3>2
    <2>9. setBy'[e] = r /\ r # NoToken
      BY <1>2, <2>0
    <2> QED BY <2>8, <2>9 DEF Reason
  <1> QED BY <1>1, <1>2

(* Every step that writes isVerified has its reason.                       *)
LEMMA ReasonNext == ASSUME ReasonInv, [Next]_vars, NEW e \in Emails PROVE Reason(e)'
  <1>t. TypeInv /\ HistoryInv /\ FoundInv /\ ToggleInv /\ SetterInv /\ UsedInv /\ Reason(e)
    BY DEF ReasonInv, LinksInv, VerifiedForAReason
  <1>a. account[e] \in AccountRow /\ NoToken \notin Reqs
    BY <1>t, SessionsAssumption DEF TypeInv, TypeOK, Tokens
  <1>1. CASE account'[e] = account[e] /\ setBy'[e] = setBy[e]
    BY <1>t, <1>1, ReasonStays
  <1>2. ASSUME NEW r \in Reqs, CreateDeveloper(r), call[r].email = e,
               account'[e] = NewAccount(r), setBy'[e] = r
        PROVE  Reason(e)'
    <2>1. Asks(r, "register")' /\ call'[r].email = e
      BY <1>t, <1>2, CallFields DEF CreateDeveloper, TypeInv, LabelsOK, Asks
    <2>2. ~account'[e].isVerified
      BY <1>2 DEF NewAccount
    <2> QED BY <1>a, <1>2, <2>1, <2>2 DEF Reason
  <1>3. ASSUME NEW r \in Reqs, MarkVerified(r), found[r] = e, setBy'[e] = r,
               account'[e] = [account[e] EXCEPT !.isVerified = TRUE, !.verifyToken = NoToken]
        PROVE  Reason(e)'
    <2>1. /\ pc[r] = "verify" /\ call[r].op = "verify" /\ call[r] # NoCall /\ call' = call
          /\ call[r].token \in Tokens /\ LinkOf(call[r].token, e)
      BY <1>t, <1>3, CallFields DEF MarkVerified, FoundInv, TypeInv, LabelsOK
    <2>2. Asks(r, "verify")' /\ OpensLinkOf(r, e)'
      BY <2>1 DEF LinkOf, Tokens, OpensLinkOf, Asks
    <2>3. account'[e].isVerified
      BY <1>a, <1>3 DEF AccountRow
    <2>4. ASSUME NEW s \in seen'[r], Asks(s, "verify")', call'[s].token = call'[r].token,
                 pc'[s] = "ok"
          PROVE  FALSE
      <3>1. s \in seen[r] /\ pc[s] = "ok" /\ call[s] = call'[s]
        BY <1>t, <2>1, <2>4, SeenStays
      <3> QED BY <1>t, <2>1, <2>4, <3>1 DEF UsedInv, Asks
    <2> QED BY <1>a, <1>3, <2>2, <2>3, <2>4 DEF Reason
  <1>4. ASSUME NEW r \in Reqs, ToggleDeveloper(r), found[r] = e, setBy'[e] = r,
               account'[e] = [account[e] EXCEPT !.isVerified = ~flag[r]]
        PROVE  Reason(e)'
    <2>1. /\ call[r].op = "toggle" /\ call[r] # NoCall /\ call[r].email = e
          /\ call' = call /\ flag' = flag
      BY <1>t, <1>4, CallFields DEF ToggleDeveloper, ToggleInv, TypeInv, LabelsOK
    <2>2. account'[e].isVerified <=> ~flag'[r]
      BY <1>a, <1>4, <2>1 DEF AccountRow
    <2> QED BY <1>a, <1>4, <2>1, <2>2 DEF Reason, Asks
  <1> QED BY <1>t, <1>1, <1>2, <1>3, <1>4, AccountStep

(* Every step leaves what a toggle read standing, unless a request it      *)
(* overlaps has written since.                                             *)
LEMMA ReadStands ==
    ASSUME ReasonInv, [Next]_vars, NEW r \in Reqs, pc'[r] = "toggle",
           setBy'[found'[r]] \in {NoToken} \cup seen'[r]
    PROVE  flag'[r] = account'[found'[r]].isVerified
  <1>t. TypeInv /\ TypeInv' /\ HistoryInv /\ VerifiedForAReason
    BY TypeNext DEF ReasonInv, LinksInv
  <1>1. CASE pc[r] = "toggle"
    <2>1. found'[r] = found[r] /\ flag'[r] = flag[r] /\ found[r] \in Emails
      BY <1>t, <1>1, FoundStays DEF TypeInv, TypeOK
    <2>2. seen'[r] = seen[r] /\ \A s \in seen[r] : pc'[s] \in Answers
      BY <1>t, <1>1, SeenStays
    <2>3. ASSUME NEW q \in Reqs, pc'[q] = "reply" PROVE setBy'[found[r]] # q
      <3>1. q \notin seen'[r] /\ q # NoToken
        BY <2>2, <2>3, SessionsAssumption DEF Answers, Tokens
      <3> QED BY <2>1, <3>1
    <2>4. PICK e \in Emails : e = found[r]
      BY <2>1
    <2>5. account'[e] = account[e] /\ setBy'[e] = setBy[e]
      <3>1. \A q \in Reqs : ~(pc'[q] = "reply" /\ setBy'[e] = q)
        BY <2>3, <2>4
      <3> QED BY <1>t, <3>1, WriterReplies
    <2> QED BY <1>t, <1>1, <2>1, <2>2, <2>4, <2>5 DEF VerifiedForAReason
  <1>2. CASE pc[r] # "toggle"
    <2>1. FindDeveloper(r)
      BY <1>t, <1>2, ComesToToggle
    <2> QED BY <1>t, <2>1, CallFields DEF FindDeveloper, TypeInv, TypeOK, LabelsOK
  <1> QED BY <1>1, <1>2

(* Every step keeps all of it.                                             *)
LEMMA VerifiedNext == ReasonInv /\ [Next]_vars => ReasonInv'
  <1> SUFFICES ASSUME ReasonInv, [Next]_vars PROVE ReasonInv'
    OBVIOUS
  <1>1. VerifiedForAReason'
    BY ReasonNext, ReadStands DEF VerifiedForAReason
  <1> QED BY <1>1, LinksNext, UsedNext, ToggleNext, SetterNext DEF ReasonInv, LinksInv

(* isVerified is as its last writer leaves it: a registration, the link of *)
(* the registration that made the account, which nobody had used before,   *)
(* or a toggle of an admin, which negates a value that only requests it    *)
(* overlaps can have changed since it was read (register, verifyEmail,     *)
(* toggleDeveloper).                                                       *)
THEOREM VerifiedIsExplained == Spec => []VerifiedForAReason
  <1>1. Init => ReasonInv
    <2> SUFFICES ASSUME Init PROVE ToggleInv /\ SetterInv /\ VerifiedForAReason
      BY LinksInit DEF ReasonInv
    <2> QED BY DEF Init, ToggleInv, SetterInv, VerifiedForAReason, Reason
  <1>2. ReasonInv => VerifiedForAReason
    BY DEF ReasonInv
  <1> QED BY <1>1, <1>2, VerifiedNext, PTL DEF Spec
=============================================================================

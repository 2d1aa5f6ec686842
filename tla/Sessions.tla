------------------------------ MODULE Sessions ------------------------------
(***************************************************************************)
(* Accounts and refresh tokens: the auth service                           *)
(* (src/auth/auth.service.ts) and toggleDeveloper of the admin service     *)
(* (src/admin/admin.service.ts).  Every request is a sequence of database  *)
(* calls with an `await` between them, at which any other request may run; *)
(* one action is one database call and the synchronous code after it.      *)
(*                                                                         *)
(* The secrets the server draws (a verification token, a refresh token)    *)
(* are named by the request that drew them, so they are fresh; one that    *)
(* was drawn before the start is named by its developer.                   *)
(***************************************************************************)
EXTENDS Integers, FiniteSets

CONSTANTS
    Emails,     \* a developer is named by an e-mail address
    Passwords,
    Reqs,       \* the HTTP requests of a behaviour
    NoToken,    \* NULL as verification token; as input, a token nobody drew
    Calls,      \* what a request may ask for (a subset of CallType)
    NoCall,     \* what a request asks for before it arrives
    Verified,   \* the developers at the start: these hold a refresh token,
    Unverified, \* and these the link of their registration
    Password    \* their passwords

TokenOps == {"verify", "refresh", "logout"}
Ops == TokenOps \cup {"register", "login", "toggle"}

Tokens == Reqs \cup Emails

CallType == [op: Ops, email: Emails, password: Passwords, token: Tokens \cup {NoToken}]

ASSUME SessionsAssumption ==
    /\ Emails # {}
    /\ NoToken \notin Tokens /\ Reqs \cap Emails = {}
    /\ Calls \subseteq CallType /\ NoCall \notin CallType
    /\ Verified \subseteq Emails /\ Unverified \subseteq Emails \ Verified
    /\ Password \in [Emails -> Passwords]

VARIABLES
    account,    \* table Developer, by e-mail address
    token,      \* table RefreshToken, by name of the token
    call, pc,   \* what each request asks for, and where it is
    found,      \* the e-mail address of the row the request read ...
    flag,       \* ... and the isVerified it read there (login and toggle)
    seen,       \* history: the requests answered before each one arrived,
    setBy       \* and the request that wrote isVerified last

vars == <<account, token, call, pc, found, flag, seen, setBy>>

AccountRow == [exists: BOOLEAN, password: Passwords, isVerified: BOOLEAN,
               verifyToken: Tokens \cup {NoToken}]
TokenRow == [issued: BOOLEAN, owner: Emails, revoked: BOOLEAN, expired: BOOLEAN]

Answers == {"ok", "refused", "failed"}
Waiting == {"find", "create", "verify", "toggle", "revoke", "issue", "reply"}

TypeOK ==
    /\ account \in [Emails -> AccountRow]
    /\ token \in [Tokens -> TokenRow]
    /\ call \in [Reqs -> Calls \cup {NoCall}]
    /\ pc \in [Reqs -> {"new"} \cup Waiting \cup Answers]
    /\ found \in [Reqs -> Emails]
    /\ flag \in [Reqs -> BOOLEAN]
    /\ seen \in [Reqs -> SUBSET Reqs]
    /\ setBy \in [Emails -> Reqs \cup {NoToken}]

AnEmail == CHOOSE e \in Emails : TRUE

Init ==
    /\ account = [e \in Emails |->
            [exists |-> e \in Verified \cup Unverified, password |-> Password[e],
             isVerified |-> e \in Verified,
             verifyToken |-> IF e \in Unverified THEN e ELSE NoToken]]
    /\ token = [t \in Tokens |->
            [issued |-> t \in Verified, owner |-> IF t \in Emails THEN t ELSE AnEmail,
             revoked |-> FALSE, expired |-> FALSE]]
    /\ call = [r \in Reqs |-> NoCall] /\ pc = [r \in Reqs |-> "new"]
    /\ found = [r \in Reqs |-> AnEmail] /\ flag = [r \in Reqs |-> FALSE]
    /\ seen = [r \in Reqs |-> {}]
    /\ setBy = [e \in Emails |-> NoToken]

Goto(r, label) == pc' = [pc EXCEPT ![r] = label]

(* A client can present a token only when a request was answered with it.  *)
(* refresh and logout need not come from the client it was given to.       *)
Holds(c) ==
    c.op \in TokenOps /\ c.token \in Reqs =>
        /\ pc[c.token] = "ok"
        /\ call[c.token].op \in IF c.op = "verify" THEN {"register"} ELSE {"login", "refresh"}

Arrive(r) ==
    /\ pc[r] = "new"
    /\ \E c \in Calls :
         /\ Holds(c)
         /\ call' = [call EXCEPT ![r] = c]
         /\ Goto(r, IF c.op = "logout" THEN "revoke" ELSE "find")
    /\ seen' = [seen EXCEPT ![r] = {s \in Reqs : pc[s] \in Answers}]
    /\ UNCHANGED <<account, token, found, flag, setBy>>

-----------------------------------------------------------------------------
(* register: findUnique by e-mail; bcrypt.hash; create.                    *)
FindEmail(r) ==
    /\ pc[r] = "find" /\ call[r].op = "register"
    /\ Goto(r, IF account[call[r].email].exists THEN "refused" ELSE "create")
    /\ UNCHANGED <<account, token, call, found, flag, seen, setBy>>

(* The row a registration creates; the mutant forgets a column's default.  *)
NewAccountUndefaulted(r) == [exists |-> TRUE, password |-> call[r].password, verifyToken |-> r]

NewAccount(r) == [exists |-> TRUE, password |-> call[r].password,
                  isVerified |-> FALSE, verifyToken |-> r]

(* Mutant: no unique index on the e-mail address, the row is overwritten.  *)
CreateDeveloperAnyway(r) ==
    /\ pc[r] = "create"
    /\ account' = [account EXCEPT ![call[r].email] = NewAccount(r)]
    /\ setBy' = [setBy EXCEPT ![call[r].email] = r]
    /\ Goto(r, "reply")
    /\ UNCHANGED <<token, call, found, flag, seen>>

CreateDeveloper(r) ==
    LET e == call[r].email IN
    /\ pc[r] = "create"
    /\ \/ /\ ~account[e].exists
          /\ account' = [account EXCEPT ![e] = NewAccount(r)]
          /\ setBy' = [setBy EXCEPT ![e] = r]
          /\ Goto(r, "reply")
       \/ /\ account[e].exists
          /\ Goto(r, "failed")
          /\ UNCHANGED <<account, setBy>>
    /\ UNCHANGED <<token, call, found, flag, seen>>

(* login: findUnique by e-mail, bcrypt.compare, isVerified.                *)
CheckPassword(r) ==
    LET e == call[r].email
        row == account[e] IN
    /\ pc[r] = "find" /\ call[r].op = "login"
    /\ found' = [found EXCEPT ![r] = e]
    /\ flag' = [flag EXCEPT ![r] = row.isVerified]
    /\ Goto(r, IF row.exists /\ row.password = call[r].password /\ row.isVerified
               THEN "issue" ELSE "refused")
    /\ UNCHANGED <<account, token, call, seen, setBy>>

(* verifyEmail: findFirst by token, then an update by id.  The mutants     *)
(* forget the where clause, and to clear the token.                        *)
FindVerifyTokenOfAnyone(r) ==
    /\ pc[r] = "find" /\ call[r].op = "verify"
    /\ \E e \in Emails : account[e].exists /\ found' = [found EXCEPT ![r] = e]
    /\ Goto(r, "verify")
    /\ UNCHANGED <<account, token, call, flag, seen, setBy>>

FindVerifyToken(r) ==
    LET owners == {e \in Emails : /\ account[e].exists /\ call[r].token # NoToken
                                  /\ account[e].verifyToken = call[r].token} IN
    /\ pc[r] = "find" /\ call[r].op = "verify"
    /\ \/ \E e \in owners : found' = [found EXCEPT ![r] = e] /\ Goto(r, "verify")
       \/ owners = {} /\ Goto(r, "refused") /\ UNCHANGED found
    /\ UNCHANGED <<account, token, call, flag, seen, setBy>>

MarkVerifiedKeepsToken(r) ==
    /\ pc[r] = "verify"
    /\ account' = [account EXCEPT ![found[r]].isVerified = TRUE]
    /\ setBy' = [setBy EXCEPT ![found[r]] = r]
    /\ Goto(r, "reply")
    /\ UNCHANGED <<token, call, found, flag, seen>>

MarkVerified(r) ==
    /\ pc[r] = "verify"
    /\ account' = [account EXCEPT ![found[r]].isVerified = TRUE,
                                  ![found[r]].verifyToken = NoToken]
    /\ setBy' = [setBy EXCEPT ![found[r]] = r]
    /\ Goto(r, "reply")
    /\ UNCHANGED <<token, call, found, flag, seen>>

(* toggleDeveloper: it reads isVerified, and writes the negation of what   *)
(* it read.                                                                *)
FindDeveloper(r) ==
    LET e == call[r].email IN
    /\ pc[r] = "find" /\ call[r].op = "toggle"
    /\ found' = [found EXCEPT ![r] = e]
    /\ flag' = [flag EXCEPT ![r] = account[e].isVerified]
    /\ Goto(r, IF account[e].exists THEN "toggle" ELSE "refused")
    /\ UNCHANGED <<account, token, call, seen, setBy>>

ToggleDeveloper(r) ==
    /\ pc[r] = "toggle"
    /\ account' = [account EXCEPT ![found[r]].isVerified = ~flag[r]]
    /\ setBy' = [setBy EXCEPT ![found[r]] = r]
    /\ Goto(r, "reply")
    /\ UNCHANGED <<token, call, found, flag, seen>>

-----------------------------------------------------------------------------
(* refresh: findUnique by hash; revoked and expiresAt of the row read are  *)
(* checked; the token is revoked by id; a new one is created.  The mutants *)
(* forget the revoked check, and issue first.                              *)
FindTokenRevokedToo(r) ==
    LET t == call[r].token
        stored == t # NoToken /\ token[t].issued /\ ~token[t].expired IN
    /\ pc[r] = "find" /\ call[r].op = "refresh"
    /\ \/ stored /\ found' = [found EXCEPT ![r] = token[t].owner] /\ Goto(r, "revoke")
       \/ ~stored /\ Goto(r, "refused") /\ UNCHANGED found
    /\ UNCHANGED <<account, token, call, flag, seen, setBy>>

Usable(t) == t # NoToken /\ token[t].issued /\ ~token[t].revoked /\ ~token[t].expired

FindTokenThenIssue(r) ==
    LET t == call[r].token IN
    /\ pc[r] = "find" /\ call[r].op = "refresh"
    /\ \/ Usable(t) /\ found' = [found EXCEPT ![r] = token[t].owner] /\ Goto(r, "issue")
       \/ ~Usable(t) /\ Goto(r, "refused") /\ UNCHANGED found
    /\ UNCHANGED <<account, token, call, flag, seen, setBy>>

FindToken(r) ==
    LET t == call[r].token IN
    /\ pc[r] = "find" /\ call[r].op = "refresh"
    /\ \/ Usable(t) /\ found' = [found EXCEPT ![r] = token[t].owner] /\ Goto(r, "revoke")
       \/ ~Usable(t) /\ Goto(r, "refused") /\ UNCHANGED found
    /\ UNCHANGED <<account, token, call, flag, seen, setBy>>

(* refresh's update by id, and all of logout: an updateMany by hash that   *)
(* checks nothing and may match no row.                                    *)
RevokeToken(r) ==
    LET t == call[r].token IN
    /\ pc[r] = "revoke"
    /\ token' = IF t = NoToken THEN token ELSE [token EXCEPT ![t].revoked = token[t].issued]
    /\ Goto(r, IF call[r].op = "refresh" THEN "issue" ELSE "reply")
    /\ UNCHANGED <<account, call, found, flag, seen, setBy>>

IssueTokens(r) ==
    /\ pc[r] = "issue"
    /\ token' = [token EXCEPT ![r] = [issued |-> TRUE, owner |-> found[r],
                                      revoked |-> FALSE, expired |-> FALSE]]
    /\ Goto(r, "reply")
    /\ UNCHANGED <<account, call, found, flag, seen, setBy>>

-----------------------------------------------------------------------------
Reply(r) ==
    /\ pc[r] = "reply"
    /\ Goto(r, "ok")
    /\ UNCHANGED <<account, token, call, found, flag, seen, setBy>>

(* A database error, or the process dies, at any await.                    *)
Fail(r) ==
    /\ pc[r] \in Waiting
    /\ Goto(r, "failed")
    /\ UNCHANGED <<account, token, call, found, flag, seen, setBy>>

(* Seven days go by.                                                       *)
Expire(t) ==
    /\ token[t].issued /\ ~token[t].expired
    /\ token' = [token EXCEPT ![t].expired = TRUE]
    /\ UNCHANGED <<account, call, pc, found, flag, seen, setBy>>

Handle(r) ==
    \/ FindEmail(r) \/ CreateDeveloper(r)
    \/ CheckPassword(r)
    \/ FindVerifyToken(r) \/ MarkVerified(r)
    \/ FindDeveloper(r) \/ ToggleDeveloper(r)
    \/ FindToken(r) \/ RevokeToken(r) \/ IssueTokens(r)
    \/ Reply(r)

Next ==
    \/ \E r \in Reqs : Arrive(r) \/ Handle(r) \/ Fail(r)
    \/ \E t \in Tokens : Expire(t)

Spec == Init /\ [][Next]_vars

-----------------------------------------------------------------------------
(* Done(r): the request's last write is in the database.                   *)
Done(r) == pc[r] \in {"reply", "ok"}

Asks(r, op) == call[r] # NoCall /\ call[r].op = op

(* Of all registrations of one address that race, at most one succeeds,    *)
(* and the account keeps the password of that one.                         *)
EmailRegisteredOnce ==
    \A r \in Reqs : Asks(r, "register") /\ Done(r) =>
        /\ account[call[r].email].password = call[r].password
        /\ \A s \in Reqs : Asks(s, "register") /\ Done(s) /\ call[s].email = call[r].email
              => s = r

(* A refresh token exists only because of a login with the password of its *)
(* owner, whose row it read as verified, or in exchange for a token of the *)
(* same owner that is revoked by then: a crash between the two leaves the  *)
(* client with none, never two.                                            *)
TokensEarned ==
    \A t \in Reqs : token[t].issued =>
        \/ /\ Asks(t, "login") /\ flag[t]
           /\ token[t].owner = call[t].email
           /\ account[call[t].email].password = call[t].password
        \/ /\ Asks(t, "refresh")
           /\ token[call[t].token].issued /\ token[call[t].token].revoked
           /\ token[t].owner = token[call[t].token].owner

(* Once a logout or a refresh with a token was answered "ok", or a refresh *)
(* made its new token and the answer was lost, a refresh that arrives      *)
(* later with the old token gets nothing.  Only requests that overlap can  *)
(* spend one token twice, a retry sent before the first try has ended      *)
(* among them.                                                             *)
Spends(s) ==
    \/ Asks(s, "refresh") /\ token[s].issued
    \/ (Asks(s, "refresh") \/ Asks(s, "logout")) /\ pc[s] = "ok"

SpentTokenIsRefused ==
    \A r \in Reqs : \A s \in seen[r] :
        Asks(r, "refresh") /\ Spends(s) /\ call[s].token = call[r].token
            => ~token[r].issued

(* A verification link works once: after it was answered "ok", it does not *)
(* bring back a developer whom an admin has deactivated since.             *)
LinkWorksOnce ==
    \A r \in Reqs : \A s \in seen[r] :
        /\ Asks(r, "verify") /\ Asks(s, "verify")
        /\ call[s].token = call[r].token /\ pc[s] = "ok"
        => ~Done(r)

(* Every isVerified has its reason, the request that wrote it last: a      *)
(* registration leaves the developer unverified; a verification holds the  *)
(* link of that developer, and did not arrive after the link was answered  *)
(* "ok" before; a toggle wrote the negation of what it read.  And what it  *)
(* read still stands unless a request that it overlaps has written since,  *)
(* so that two toggles of an admin count as one only when they overlap.    *)
OpensLinkOf(r, e) ==
    \/ call[r].token = e
    \/ \E s \in Reqs : call[r].token = s /\ Asks(s, "register") /\ call[s].email = e

Reason(e) ==
    LET r == setBy[e] IN
    IF r = NoToken THEN account[e].isVerified <=> e \in Verified
    ELSE \/ Asks(r, "register") /\ call[r].email = e /\ ~account[e].isVerified
         \/ /\ Asks(r, "verify") /\ OpensLinkOf(r, e) /\ account[e].isVerified
            /\ \A s \in seen[r] :
                  ~(Asks(s, "verify") /\ call[s].token = call[r].token /\ pc[s] = "ok")
         \/ Asks(r, "toggle") /\ call[r].email = e /\ (account[e].isVerified <=> ~flag[r])

VerifiedForAReason ==
    /\ \A e \in Emails : Reason(e)
    /\ \A r \in Reqs : pc[r] = "toggle" /\ setBy[found[r]] \in {NoToken} \cup seen[r]
          => flag[r] = account[found[r]].isVerified

(* README.md:50 "On every use, the old refresh token is immediately        *)
(* revoked ... their next attempt fails": no token is exchanged twice.     *)
ExchangedOnce ==
    \A r, s \in Reqs :
        /\ Asks(r, "refresh") /\ Asks(s, "refresh") /\ call[r].token = call[s].token
        /\ token[r].issued /\ token[s].issued
        => r = s
=============================================================================

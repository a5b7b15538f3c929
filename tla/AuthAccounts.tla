--------------------------- MODULE AuthAccounts ---------------------------
(***************************************************************************)
(* The accounts of the auth feature: the tables users and                  *)
(* verification_tokens under concurrent requests to registration, login,   *)
(* MFA, password and e-mail endpoints.  Sessions are RefreshRotation's.    *)
(*                                                                         *)
(* The feature is written eight times, for two frameworks and four ORMs.   *)
(* What a port does is data: Behaviour[p].auth gives every endpoint of     *)
(* port p its program, the sequence of steps between awaits, and           *)
(* Behaviour[p].persistence says how p writes a row it has read.  This     *)
(* module gives the steps their meaning.  A step reads or writes the       *)
(* database once, so requests interleave between any two steps.            *)
(***************************************************************************)
EXTENDS Integers, Sequences, FiniteSets, Combinatorics

CONSTANTS
  Ports,      \* names of the ports
  Behaviour,  \* what each port does, see NodePorts
  Emails,     \* addresses people register with
  Requests,   \* requests the server works on at the same time
  CodeSlots,  \* recovery codes of one set
  LoginMax,   \* LOGIN_MAX_ATTEMPTS
  MfaMax,     \* MFA_MAX_ATTEMPTS
  MaxBudget   \* bound: requests that are made, see Call

AuthOps ==
  {"signup", "login", "verifyChallenge", "enroll", "enrollVerify", "disable",
   "regenerate", "logout", "changePassword", "sessions", "me", "forgotPassword",
   "resetPassword", "verifyEmail", "resendVerification"}

\* Requests that say nothing about who sends them, or not at their first step.
Anonymous == {"signup", "logout", "sessions", "resetPassword", "verifyEmail"}
Redeeming == {"redeemOrRollback", "redeemMatching"}

\* Steps that read an account, and steps that act on the row they have read.
Reads == {"readUser", "readUnlocked", "readUnverified", "readMfa", "readMfaUnlocked",
          "readWithoutMfa", "readPending"}
Gates == {"verifyPasswordReturning", "verifyPasswordSaved", "rereadForMfa"}
OnRow == Gates \cup {"verifyPassword", "verifyFactor", "writeSecret", "enableMfa",
                    "disableMfa", "regenerateCodes", "changePassword"}

\* In this program a step only comes right after one of these.
Preceded(program, step, by) ==
  \A i \in 1..Len(program) : program[i] = step => i > 1 /\ program[i - 1] \in by

\* The steps belong to requests of this kind.
Within(program, steps, kind) == \A i \in 1..Len(program) : program[i] \in steps => kind

\* What the proofs use of the programs; it holds of all eight ports.
ASSUME ProgramsAssumption ==
  \A p \in Ports, op \in AuthOps :
    LET program == Behaviour[p].auth[op] IN
    /\ program \in Seq(STRING) /\ program # <<>>
    /\ op \notin Anonymous => program[1] \in Reads
    /\ Within(program, OnRow, op \notin Anonymous)
    /\ Within(program, {"insertUser"}, op = "signup")
    /\ Within(program, {"findToken"} \cup Redeeming, op \in {"resetPassword", "verifyEmail"})
    /\ Within(program, {"openSession"}, op = "signup" \/ op \notin Anonymous)
    /\ Preceded(program, "insertUser", {"countUsers"})
    /\ \A step \in Redeeming : Preceded(program, step, {"findToken"})
    /\ op = "signup" => Preceded(program, "openSession", {"insertUser"})
    /\ op = "login" => Preceded(program, "openSession", Gates)

ASSUME AccountsAssumption ==
  /\ LoginMax \in Nat \ {0} /\ MfaMax \in Nat \ {0}
  /\ MaxBudget \in Nat
  /\ "" \notin Emails

VARIABLES
  port,        \* the port that is deployed
  users,       \* the table users, by e-mail; role "none" where there is no row
  tokens,      \* the table verification_tokens
  request,     \* the requests in flight
  signedIn,    \* accounts for which an access token was handed out
  challenged,  \* accounts for which an MFA challenge was handed out
  minted,      \* passwords, secrets and code sets drawn so far
  budget,      \* bound: what is left for further requests
  guesses,     \* history: wrong guesses since the last lock or success
  spent        \* history: recovery codes a request was let in with

accountVars ==
  <<port, users, tokens, request, signedIn, challenged, minted, budget, guesses, spent>>

Locks == {"none", "future", "past"}   \* a lock date, against the clock
Codes == Nat \X CodeSlots
TokenIds == 1..(MaxBudget \div 2 + 1)  \* a call stores at most one token

\* Rows of the two tables.
UserRow ==
  [role: {"none", "admin", "user"}, password_hash: Nat, email_verified: BOOLEAN,
   failed_login_count: Nat, locked_until: Locks,
   mfa_enabled: BOOLEAN, mfa_secret_enc: Nat, mfa_recovery_codes_enc: SUBSET Codes,
   mfa_failed_count: Nat, mfa_locked_until: Locks]
TokenRow ==
  [kind: {"none", "password_reset", "email_verify"}, email: Emails \cup {""},
   consumed: BOOLEAN, state: {"absent", "live", "expired", "deleted"}]

NoUser ==
  [role |-> "none", password_hash |-> 0, email_verified |-> FALSE,
   failed_login_count |-> 0, locked_until |-> "none",
   mfa_enabled |-> FALSE, mfa_secret_enc |-> 0, mfa_recovery_codes_enc |-> {},
   mfa_failed_count |-> 0, mfa_locked_until |-> "none"]

NoToken == [kind |-> "none", email |-> "", consumed |-> FALSE, state |-> "absent"]
MailedToken(e, kind) == [kind |-> kind, email |-> e, consumed |-> FALSE, state |-> "live"]

\* Client input: password and secret are 0 when the client guesses wrong.
NoInput == [password |-> 0, secret |-> 0, recovery |-> FALSE, code |-> <<0, 0>>, token |-> 0]

Input == [password: Nat, secret: Nat, recovery: BOOLEAN, code: Codes \cup {<<0, 0>>},
          token: TokenIds \cup {0}]
RequestState ==
  [op: AuthOps \cup {"none"}, email: Emails \cup {""}, pc: Nat, input: Input, row: UserRow,
   first: BOOLEAN, late: BOOLEAN, armed: BOOLEAN]

NoRequest ==
  [op |-> "none", email |-> "", pc |-> 0, input |-> NoInput, row |-> NoUser,
   first |-> FALSE,    \* isFirstUser
   late |-> FALSE,     \* history: its token or code was used before it began
   armed |-> FALSE]    \* history: MFA has been on since it began

Registered == {e \in Emails : users[e].role # "none"}
Busy == {r \in Requests : request[r].pc # 0}
CodeSet(n) == {n} \X CodeSlots

-----------------------------------------------------------------------------
(* Initial states: a new database, or one account, signed in and holding a *)
(* link from a mail: without MFA, with an enrollment begun, or with MFA    *)
(* and a challenge to answer.                                              *)

Member(secret, enabled) ==
  [NoUser EXCEPT !.role = "admin", !.password_hash = 1, !.mfa_secret_enc = secret,
                 !.mfa_enabled = enabled,
                 !.mfa_recovery_codes_enc = IF enabled THEN CodeSet(1) ELSE {}]

AccountsInit ==
  /\ port \in Ports
  /\ \/ /\ users = [e \in Emails |-> NoUser] /\ signedIn = {} /\ challenged = {}
        /\ tokens = [t \in TokenIds |-> NoToken]
     \/ \E e \in Emails, m \in {Member(0, FALSE), Member(1, FALSE), Member(1, TRUE)},
            kind \in {"password_reset", "email_verify"} :
          /\ kind = "email_verify" => m = Member(0, FALSE)   \* the address is verified first
          /\ users = [f \in Emails |-> IF f = e THEN m ELSE NoUser]
          /\ signedIn = {e} /\ challenged = {f \in {e} : m.mfa_enabled}
          /\ tokens = [t \in TokenIds |-> IF t = 1 THEN MailedToken(e, kind) ELSE NoToken]
  /\ request = [r \in Requests |-> NoRequest]
  /\ minted = 1 /\ budget = MaxBudget /\ spent = {}
  /\ guesses = [e \in Emails |-> [login |-> 0, mfa |-> 0]]

-----------------------------------------------------------------------------
(* Writing a row that was read earlier *)

\* The columns an UPDATE names.  Sequelize's save() leaves out those that
\* still have the value that was loaded; dates and ciphertexts always differ.
Written(loaded, patch) ==
  IF Behaviour[port].persistence = "columns" THEN DOMAIN patch
  ELSE {c \in DOMAIN patch :
          \/ patch[c] # loaded[c] \/ c = "mfa_recovery_codes_enc"
          \/ c \in {"locked_until", "mfa_locked_until"} /\ patch[c] = "future"}

Merged(row, patch, columns) ==
  [c \in DOMAIN row |-> IF c \in columns THEN patch[c] ELSE row[c]]

\* Fault: the whole row is saved as it was read.
WriteWholeRow(r, patch) ==
  users' = [users EXCEPT ![request[r].email] = Merged(request[r].row, patch, DOMAIN patch)]

\* UPDATE users ... WHERE id, by a request that read the row.
Write(r, patch) ==
  users' = [users EXCEPT ![request[r].email] =
              Merged(@, patch, Written(request[r].row, patch))]

-----------------------------------------------------------------------------
(* Requests *)

\* Bound: a wrong guess costs one unit of the budget, any other request two.
Call(r, op, e, input, cost, late) ==
  /\ r \notin Busy
  /\ cost <= budget /\ budget' = budget - cost
  /\ request' = [request EXCEPT ![r] =
       [NoRequest EXCEPT !.op = op, !.email = e, !.pc = 1, !.input = input,
                         !.late = late, !.armed = users[e].mfa_enabled]]
  /\ UNCHANGED <<port, users, tokens, signedIn, challenged, minted, guesses, spent>>

Password(p) == [NoInput EXCEPT !.password = p]
Totp(p, n) == [Password(p) EXCEPT !.secret = n]
Recovery(p, c) == [Password(p) EXCEPT !.recovery = TRUE, !.code = c]
Cost(guess) == IF guess = 0 THEN 1 ELSE 2

CallSignup(r, e) == Call(r, "signup", e, NoInput, 2, FALSE)

CallLogin(r, e) ==
  \E p \in {users[e].password_hash, 0} :
    Call(r, "login", e, Password(p), Cost(p), FALSE)

\* A challenge is answered with a code of the authenticator or of the paper list.
CallChallenge(r, e) ==
  /\ e \in challenged
  /\ \/ \E n \in {users[e].mfa_secret_enc, 0} :
          Call(r, "verifyChallenge", e, Totp(0, n), Cost(n), FALSE)
     \/ \E c \in users[e].mfa_recovery_codes_enc \cup spent :
          Call(r, "verifyChallenge", e, Recovery(0, c), 2, c \in spent)

\* Requests behind fastify.authenticate or its Express counterpart: an access
\* token stays good for its fifteen minutes whatever happens to the account.
CallAsUser(r, e) ==
  /\ e \in signedIn
  /\ \/ \E op \in {"enroll", "logout", "sessions", "me"} : Call(r, op, e, NoInput, 2, FALSE)
     \/ \E n \in {users[e].mfa_secret_enc, 0} :
          \/ Call(r, "enrollVerify", e, Totp(0, n), Cost(n), FALSE)
          \/ Call(r, "regenerate", e, Totp(0, n), Cost(n), FALSE)
          \/ Call(r, "disable", e, Totp(users[e].password_hash, n), Cost(n), FALSE)
     \/ \E c \in users[e].mfa_recovery_codes_enc \cup spent :
          Call(r, "disable", e, Recovery(users[e].password_hash, c), 2, FALSE)
     \/ \E p \in {users[e].password_hash, 0} : 
          Call(r, "changePassword", e, Password(p), Cost(p), FALSE)

CallByEmail(r, e) ==
  \E op \in {"forgotPassword", "resendVerification"} : Call(r, op, e, NoInput, 2, FALSE)

\* The link in a mail may be followed at any time and more than once.
CallWithToken(r, t) ==
  /\ tokens[t].kind # "none"
  /\ Call(r, IF tokens[t].kind = "password_reset" THEN "resetPassword" ELSE "verifyEmail",
          tokens[t].email, [NoInput EXCEPT !.token = t], 2, tokens[t].consumed)

Program(r) == Behaviour[port].auth[request[r].op]
At(r, step) == request[r].pc # 0 /\ Program(r)[request[r].pc] = step

Reply(r) == request' = [request EXCEPT ![r] = NoRequest]

\* Go on to the next step with what the request now knows, or reply.
Proceed(r, known) ==
  request' = [request EXCEPT ![r] =
    IF @.pc = Len(Program(r)) THEN NoRequest ELSE [known EXCEPT !.pc = @ + 1]]

Account(r) == users[request[r].email]
Mfa(row) == row.mfa_enabled /\ row.mfa_secret_enc # 0

\* A read: the handler goes on with the row, if there is one and it is acceptable.
Read(r, step, acceptable) ==
  /\ At(r, step)
  /\ \/ /\ Account(r).role # "none" /\ acceptable
        /\ Proceed(r, [request[r] EXCEPT !.row = Account(r)])
     \/ ~(Account(r).role # "none" /\ acceptable) /\ Reply(r)
  /\ UNCHANGED <<port, users, tokens, signedIn, challenged, minted, budget, guesses, spent>>

ReadUser(r) == Read(r, "readUser", TRUE)
ReadUnlocked(r) == Read(r, "readUnlocked", Account(r).locked_until # "future")
ReadUnverified(r) == Read(r, "readUnverified", ~Account(r).email_verified)
ReadMfa(r) == Read(r, "readMfa", Mfa(Account(r)))
ReadMfaUnlocked(r) ==
  Read(r, "readMfaUnlocked", Mfa(Account(r)) /\ Account(r).mfa_locked_until # "future")
ReadWithoutMfa(r) == Read(r, "readWithoutMfa", ~Account(r).mfa_enabled)
ReadPending(r) ==
  Read(r, "readPending", Account(r).mfa_secret_enc # 0 /\ ~Account(r).mfa_enabled)

\* Steps on refresh_tokens, whose effects are RefreshRotation's.
SessionRows(r) ==
  /\ \E step \in {"revokeSession", "revokeOtherSessions", "listSessions"} : At(r, step)
  /\ Proceed(r, request[r])
  /\ UNCHANGED <<port, users, tokens, signedIn, challenged, minted, budget, guesses, spent>>

\* issueAuthSession
OpenSession(r) ==
  /\ At(r, "openSession") /\ Proceed(r, request[r])
  /\ signedIn' = signedIn \cup {request[r].email}
  /\ UNCHANGED <<port, users, tokens, challenged, minted, budget, guesses, spent>>

-----------------------------------------------------------------------------
(* POST /auth/signup *)

FindEmail(r) ==
  /\ At(r, "findEmail")
  /\ \/ request[r].email \in Registered /\ Reply(r)
     \/ request[r].email \notin Registered /\ Proceed(r, request[r])
  /\ UNCHANGED <<port, users, tokens, signedIn, challenged, minted, budget, guesses, spent>>

\* Fault: the count is compared as if the new user were in it.
CountUsersOffByOne(r) ==
  /\ At(r, "countUsers")
  /\ Proceed(r, [request[r] EXCEPT !.first = (Cardinality(Registered) = 1)])
  /\ UNCHANGED <<port, users, tokens, signedIn, challenged, minted, budget, guesses, spent>>

CountUsers(r) ==
  /\ At(r, "countUsers")
  /\ Proceed(r, [request[r] EXCEPT !.first = (Registered = {})])
  /\ UNCHANGED <<port, users, tokens, signedIn, challenged, minted, budget, guesses, spent>>

\* Fault: a role is only given to the first user.
InsertUserRoleless(r) ==
  LET e == request[r].email IN
  /\ At(r, "insertUser") /\ e \notin Registered
  /\ users' = [users EXCEPT ![e] = [NoUser EXCEPT !.role = IF request[r].first THEN "admin" ELSE @]]
  /\ Proceed(r, request[r])
  /\ UNCHANGED <<port, tokens, signedIn, challenged, minted, budget, guesses, spent>>

\* users.email is unique: the second of two equal registrations fails.
InsertUser(r) ==
  LET e == request[r].email IN
  /\ At(r, "insertUser")
  /\ \/ /\ e \notin Registered
        /\ users' = [users EXCEPT ![e] =
             [NoUser EXCEPT !.role = IF request[r].first THEN "admin" ELSE "user",
                            !.password_hash = minted + 1]]
        /\ minted' = minted + 1
        /\ Proceed(r, request[r])
     \/ e \in Registered /\ Reply(r) /\ UNCHANGED <<users, minted>>
  /\ UNCHANGED <<port, tokens, signedIn, challenged, budget, guesses, spent>>

-----------------------------------------------------------------------------
(* POST /auth/login *)

\* Fault: the limit is passed before the lock is set.
LoginFailureOffByOne(r) ==
  LET n == request[r].row.failed_login_count + 1 IN
  /\ Write(r, IF n > LoginMax THEN [failed_login_count |-> n, locked_until |-> "future"]
                              ELSE [failed_login_count |-> n])
  /\ guesses' = [guesses EXCEPT ![request[r].email].login = IF n > LoginMax THEN 0 ELSE @ + 1]
  /\ Reply(r)
  /\ UNCHANGED <<challenged, minted>>

\* Fault: below the limit the date is written too.
LoginFailureUnlocks(r) ==
  LET n == request[r].row.failed_login_count + 1 IN
  /\ Write(r, [failed_login_count |-> n, locked_until |-> IF n >= LoginMax THEN "future" ELSE "none"])
  /\ guesses' = [guesses EXCEPT ![request[r].email].login = IF n >= LoginMax THEN 0 ELSE @ + 1]
  /\ Reply(r)
  /\ UNCHANGED <<challenged, minted>>

\* A wrong guess writes the count it read plus one, and a lock at the limit.
LoginFailure(r) ==
  LET e == request[r].email
      n == request[r].row.failed_login_count + 1
  IN
  /\ Write(r, IF n >= LoginMax THEN [failed_login_count |-> n, locked_until |-> "future"]
                               ELSE [failed_login_count |-> n])
  /\ guesses' = [guesses EXCEPT ![e].login = IF n >= LoginMax THEN 0 ELSE @ + 1]
  /\ Reply(r)
  /\ UNCHANGED <<challenged, minted>>

LoginSuccess(r) ==
  /\ Write(r, [failed_login_count |-> 0, locked_until |-> "none"])
  /\ guesses' = [guesses EXCEPT ![request[r].email].login = 0]
  /\ UNCHANGED minted

\* Fault: an account whose MFA is locked passes as one without MFA.
MfaGateUnlocked(r, seen) ==
  LET asked == seen.mfa_enabled /\ seen.mfa_locked_until # "future" IN
  \/ ~asked /\ Proceed(r, request[r]) /\ UNCHANGED challenged
  \/ asked /\ Reply(r) /\ challenged' = challenged \cup {request[r].email}

\* With MFA on, the answer is a challenge, or a refusal while MFA is locked.
MfaGate(r, seen) ==
  \/ ~seen.mfa_enabled /\ Proceed(r, request[r]) /\ UNCHANGED challenged
  \/ /\ seen.mfa_enabled /\ Reply(r)
     /\ challenged' = IF seen.mfa_locked_until = "future" THEN challenged
                      ELSE challenged \cup {request[r].email}

RightPassword(r) ==
  request[r].input.password # 0 /\ request[r].input.password = request[r].row.password_hash

\* The UPDATE returns the row as it now is, and the gate looks at that.
VerifyPasswordReturning(r) ==
  /\ At(r, "verifyPasswordReturning")
  /\ \/ ~RightPassword(r) /\ LoginFailure(r)
     \/ RightPassword(r) /\ LoginSuccess(r) /\ MfaGate(r, users'[request[r].email])
  /\ UNCHANGED <<port, tokens, signedIn, budget, spent>>

\* The gate looks at the instance that was loaded before the hash.
VerifyPasswordSaved(r) ==
  /\ At(r, "verifyPasswordSaved")
  /\ \/ ~RightPassword(r) /\ LoginFailure(r)
     \/ RightPassword(r) /\ LoginSuccess(r) /\ MfaGate(r, request[r].row)
  /\ UNCHANGED <<port, tokens, signedIn, budget, spent>>

\* The gate is a step of its own, on a row read once more.
VerifyPassword(r) ==
  /\ At(r, "verifyPassword")
  /\ \/ ~RightPassword(r) /\ LoginFailure(r)
     \/ RightPassword(r) /\ LoginSuccess(r) /\ Proceed(r, request[r]) /\ UNCHANGED challenged
  /\ UNCHANGED <<port, tokens, signedIn, budget, spent>>

RereadForMfa(r) ==
  /\ At(r, "rereadForMfa") /\ MfaGate(r, users[request[r].email])
  /\ UNCHANGED <<port, users, tokens, signedIn, minted, budget, guesses, spent>>

-----------------------------------------------------------------------------
(* MFA *)

RightFactor(r) ==
  LET in == request[r].input IN
  IF in.recovery THEN in.code \in request[r].row.mfa_recovery_codes_enc
  ELSE in.secret # 0 /\ in.secret = request[r].row.mfa_secret_enc

\* recordMfaFailure
MfaFailure(r) ==
  LET n == request[r].row.mfa_failed_count + 1 IN
  /\ Write(r, IF n >= MfaMax THEN [mfa_failed_count |-> n, mfa_locked_until |-> "future"]
                             ELSE [mfa_failed_count |-> n])
  /\ guesses' = [guesses EXCEPT ![request[r].email].mfa = IF n >= MfaMax THEN 0 ELSE @ + 1]
  /\ Reply(r)
  /\ UNCHANGED <<minted, spent>>

MfaProven(r) == guesses' = [guesses EXCEPT ![request[r].email].mfa = 0]

\* A recovery code is taken out of the list as it was read.
VerifyFactor(r) ==
  LET in == request[r].input
      left == request[r].row.mfa_recovery_codes_enc \ {in.code}
  IN
  /\ At(r, "verifyFactor")
  /\ \/ ~RightFactor(r) /\ MfaFailure(r)
     \/ /\ RightFactor(r) /\ MfaProven(r) /\ Proceed(r, request[r])
        /\ Write(r, IF in.recovery
                    THEN [mfa_recovery_codes_enc |-> left,
                          mfa_failed_count |-> 0, mfa_locked_until |-> "none"]
                    ELSE [mfa_failed_count |-> 0, mfa_locked_until |-> "none"])
        /\ spent' = IF in.recovery THEN spent \cup {in.code} ELSE spent
        /\ UNCHANGED minted
  /\ UNCHANGED <<port, tokens, signedIn, challenged, budget>>

WriteSecret(r) ==
  /\ At(r, "writeSecret") /\ Proceed(r, request[r])
  /\ Write(r, [mfa_secret_enc |-> minted + 1])
  /\ minted' = minted + 1
  /\ UNCHANGED <<port, tokens, signedIn, challenged, budget, guesses, spent>>

EnableMfa(r) ==
  /\ At(r, "enableMfa") /\ Proceed(r, request[r])
  /\ \/ /\ RightFactor(r) /\ MfaProven(r)
        /\ Write(r, [mfa_enabled |-> TRUE, mfa_recovery_codes_enc |-> CodeSet(minted + 1),
                     mfa_failed_count |-> 0, mfa_locked_until |-> "none"])
        /\ minted' = minted + 1
     \/ ~RightFactor(r) /\ UNCHANGED <<users, minted, guesses>>
  /\ UNCHANGED <<port, tokens, signedIn, challenged, budget, spent>>

DisableMfa(r) ==
  /\ At(r, "disableMfa")
  /\ \/ ~RightPassword(r) /\ Reply(r) /\ UNCHANGED <<users, guesses, minted, spent>>
     \/ RightPassword(r) /\ ~RightFactor(r) /\ MfaFailure(r)
     \/ /\ RightPassword(r) /\ RightFactor(r) /\ MfaProven(r)
        /\ Write(r, [mfa_enabled |-> FALSE, mfa_secret_enc |-> 0,
                     mfa_recovery_codes_enc |-> {},
                     mfa_failed_count |-> 0, mfa_locked_until |-> "none"])
        /\ request' = [q \in Requests |->
             IF q = r THEN NoRequest
             ELSE [request[q] EXCEPT !.armed = @ /\ request[q].email # request[r].email]]
        /\ UNCHANGED <<minted, spent>>
  /\ UNCHANGED <<port, tokens, signedIn, challenged, budget>>

RegenerateCodes(r) ==
  /\ At(r, "regenerateCodes")
  /\ \/ ~RightFactor(r) /\ MfaFailure(r)
     \/ /\ RightFactor(r) /\ MfaProven(r) /\ Proceed(r, request[r])
        /\ Write(r, [mfa_recovery_codes_enc |-> CodeSet(minted + 1),
                     mfa_failed_count |-> 0, mfa_locked_until |-> "none"])
        /\ minted' = minted + 1
        /\ UNCHANGED spent
  /\ UNCHANGED <<port, tokens, signedIn, challenged, budget>>

-----------------------------------------------------------------------------
(* Passwords and e-mail addresses *)

ChangePassword(r) ==
  /\ At(r, "changePassword")
  /\ \/ /\ RightPassword(r) /\ Proceed(r, request[r])
        /\ Write(r, [password_hash |-> minted + 1])
        /\ minted' = minted + 1
     \/ ~RightPassword(r) /\ Reply(r) /\ UNCHANGED <<users, minted>>
  /\ UNCHANGED <<port, tokens, signedIn, challenged, budget, guesses, spent>>

\* verificationToken.create; the mail that follows may be lost.
Mint(r, step, kind) ==
  /\ At(r, step) /\ Proceed(r, request[r])
  /\ \E t \in TokenIds :
       /\ tokens[t] = NoToken /\ \A u \in 1..(t - 1) : tokens[u] # NoToken
       /\ tokens' = [tokens EXCEPT ![t] = MailedToken(request[r].email, kind)]
  /\ UNCHANGED <<port, users, signedIn, challenged, minted, budget, guesses, spent>>

MintReset(r) == Mint(r, "mintReset", "password_reset")
MintVerification(r) == Mint(r, "mintVerification", "email_verify")

\* Fault: only the date is checked.
FindTokenUnconsumed(r) ==
  LET token == tokens[request[r].input.token] IN
  /\ At(r, "findToken")
  /\ \/ token.state = "live" /\ Proceed(r, request[r])
     \/ token.state # "live" /\ Reply(r)
  /\ UNCHANGED <<port, users, tokens, signedIn, challenged, minted, budget, guesses, spent>>

FindToken(r) ==
  LET token == tokens[request[r].input.token] IN
  /\ At(r, "findToken")
  /\ \/ token.state = "live" /\ ~token.consumed /\ Proceed(r, request[r])
     \/ ~(token.state = "live" /\ ~token.consumed) /\ Reply(r)
  /\ UNCHANGED <<port, users, tokens, signedIn, challenged, minted, budget, guesses, spent>>

\* What a token is good for: a new password, or a verified address.
Redeem(r) ==
  LET t == request[r].input.token
      e == request[r].email
  IN
  /\ IF tokens[t].kind = "password_reset"
     THEN /\ users' = [users EXCEPT ![e].password_hash = minted + 1]
          /\ minted' = minted + 1
     ELSE /\ users' = [users EXCEPT ![e].email_verified = TRUE]
          /\ UNCHANGED minted
  /\ tokens' = [tokens EXCEPT ![t].consumed = @ \/ tokens[t].state # "deleted"]

\* One transaction.  Prisma's update by id fails, and rolls it back, when the
\* token's row is gone ...
RedeemOrRollback(r) ==
  /\ At(r, "redeemOrRollback") /\ Proceed(r, request[r])
  /\ \/ tokens[request[r].input.token].state # "deleted" /\ Redeem(r)
     \/ tokens[request[r].input.token].state = "deleted" /\ UNCHANGED <<users, tokens, minted>>
  /\ UNCHANGED <<port, signedIn, challenged, budget, guesses, spent>>

\* ... the other ORMs update the rows that match, be they none, and commit.
RedeemMatching(r) ==
  /\ At(r, "redeemMatching") /\ Proceed(r, request[r]) /\ Redeem(r)
  /\ UNCHANGED <<port, signedIn, challenged, budget, guesses, spent>>

-----------------------------------------------------------------------------
(* Environment *)

LocksExpire(e) ==
  /\ \E c \in {"locked_until", "mfa_locked_until"} :
       users[e][c] = "future" /\ users' = [users EXCEPT ![e][c] = "past"]
  /\ UNCHANGED <<port, tokens, request, signedIn, challenged, minted, budget, guesses, spent>>

TokenExpires(t) ==
  /\ tokens[t].state = "live" /\ tokens' = [tokens EXCEPT ![t].state = "expired"]
  /\ UNCHANGED <<port, users, request, signedIn, challenged, minted, budget, guesses, spent>>

\* cleanupAuthArtifacts: consumed rows are kept longer than tokens live.
CleanupTokens ==
  /\ "verification_tokens" \in Behaviour[port].cleanup
  /\ \E t \in TokenIds : tokens[t].state = "expired"
  /\ tokens' = [t \in TokenIds |-> [tokens[t] EXCEPT !.state =
                                      IF @ = "expired" THEN "deleted" ELSE @]]
  /\ UNCHANGED <<port, users, request, signedIn, challenged, minted, budget, guesses, spent>>

\* The server stops: requests in flight go no further.
AccountsCrash ==
  /\ Busy # {} /\ request' = [r \in Requests |-> NoRequest]
  /\ UNCHANGED <<port, users, tokens, signedIn, challenged, minted, budget, guesses, spent>>

Arrive(r) ==
  \/ \E e \in Emails : \/ CallSignup(r, e) \/ CallLogin(r, e) \/ CallChallenge(r, e)
                       \/ CallAsUser(r, e) \/ CallByEmail(r, e)
  \/ \E t \in TokenIds : CallWithToken(r, t)

Handle(r) ==
  \/ ReadUser(r) \/ ReadUnlocked(r) \/ ReadUnverified(r) \/ ReadMfa(r)
  \/ ReadMfaUnlocked(r) \/ ReadWithoutMfa(r) \/ ReadPending(r)
  \/ SessionRows(r) \/ OpenSession(r)
  \/ FindEmail(r) \/ CountUsers(r) \/ InsertUser(r)
  \/ VerifyPasswordReturning(r) \/ VerifyPasswordSaved(r) \/ VerifyPassword(r)
  \/ RereadForMfa(r) \/ VerifyFactor(r) \/ WriteSecret(r) \/ EnableMfa(r)
  \/ DisableMfa(r) \/ RegenerateCodes(r) \/ ChangePassword(r)
  \/ MintReset(r) \/ MintVerification(r) \/ FindToken(r)
  \/ RedeemOrRollback(r) \/ RedeemMatching(r)

AccountsNext ==
  \/ \E r \in Requests : Arrive(r) \/ Handle(r)
  \/ \E e \in Emails : LocksExpire(e)
  \/ \E t \in TokenIds : TokenExpires(t)
  \/ CleanupTokens \/ AccountsCrash

AccountsSpec == AccountsInit /\ [][AccountsNext]_accountVars

-----------------------------------------------------------------------------
(* Properties *)

AccountsTypeOK ==
  /\ users \in [Emails -> UserRow] /\ tokens \in [TokenIds -> TokenRow]
  /\ request \in [Requests -> RequestState]
  /\ minted \in Nat /\ spent \subseteq Codes
  /\ signedIn \subseteq Registered /\ challenged \subseteq Registered
  /\ \A r \in Busy : /\ request[r].email \in Emails /\ request[r].op \in AuthOps
                      /\ request[r].pc \in 1..Len(Program(r))

\* README: "first user auto-promoted to admin".  However registrations race,
\* a database with users has an administrator (there may be several).
SomeAdmin == Registered # {} => \E e \in Emails : users[e].role = "admin"

\* README: "Account lockout after 5 failed logins".  The counter is read
\* before a slow hash and written after it, so concurrent guesses overwrite
\* each other's counts.  This is how many wrong guesses k concurrent requests
\* can get answered before one of them sets the lock, for passwords and codes.
GuessBound(max) == choose(max - 1 + Cardinality(Requests), Cardinality(Requests)) - 1

GuessesBounded ==
  \A e \in Emails : /\ guesses[e].login <= GuessBound(LoginMax)
                    /\ guesses[e].mfa <= GuessBound(MfaMax)

\* A guess that was in flight when the account got locked writes its stale
\* count but never lifts the lock: only time or a proven credential does.
LocksHold ==
  [][LET Acting == {r \in Requests : request'[r] # request[r]} IN
     \A e \in Emails :
       /\ users[e].locked_until = "future" /\ users'[e].locked_until # "future" =>
            LocksExpire(e) \/ \E r \in Acting : request[r].email = e /\ RightPassword(r)
       /\ users[e].mfa_locked_until = "future" /\ users'[e].mfa_locked_until # "future" =>
            LocksExpire(e) \/ \E r \in Acting : request[r].email = e /\ RightFactor(r)
    ]_accountVars

\* Logins and MFA requests write a row they read before a hash or a mail.  A
\* password that was changed or reset meanwhile never comes back: hashes are
\* numbered in the order in which they are drawn.
PasswordNeverReverts ==
  [][\A e \in Emails : users'[e].password_hash >= users[e].password_hash]_accountVars

\* A login that finds MFA on from its first step to its last is never given
\* a session, in whichever of the three ways the port looks at the row.
FactorRequired ==
  \A r \in Requests : At(r, "openSession") /\ request[r].op = "login" => ~request[r].armed

\* A reset or verification link that somebody has used does nothing for a
\* request that arrives later.  (Two overlapping requests may both use it.)
UsedLinkRefused ==
  \A r \in Requests : request[r].late =>
    ~At(r, "redeemOrRollback") /\ ~At(r, "redeemMatching")

\* README: "MFA recovery codes - generate, single-use consume, regenerate".
\* A code that has let somebody in lets nobody in again.
RecoveryCodesSingleUse ==
  \A r \in Requests : At(r, "openSession") => ~request[r].late

=============================================================================

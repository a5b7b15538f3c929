------------------------- MODULE AuthAccountsProofs -------------------------
(***************************************************************************)
(* Proofs about AuthAccounts, for every port whose programs have the shape *)
(* ProgramsAssumption states and any number of accounts and requests: type *)
(* correctness, SomeAdmin, FactorRequired, UsedLinkRefused, LocksHold and  *)
(* PasswordNeverReverts.                                                   *)
(*                                                                         *)
(* The inductive invariant says, besides the types, what a request in      *)
(* flight may rely on: rows only appear, roles do not change, consumed     *)
(* tokens stay consumed, and MFA that was on stays on unless a request     *)
(* turns it off, which disarms the others.  For locks and passwords it     *)
(* adds that passwords are numbered as drawn and only rows are locked.     *)
(***************************************************************************)
EXTENDS AuthAccounts, TLAPS

Types ==
  /\ port \in Ports
  /\ users \in [Emails -> UserRow] /\ tokens \in [TokenIds -> TokenRow]
  /\ request \in [Requests -> RequestState]
  /\ minted \in Nat /\ spent \subseteq Codes

\* What an account without a row has, and who may hold a token.
Accounts ==
  /\ \A e \in Emails : users[e].mfa_enabled => users[e].role # "none"
  /\ signedIn \subseteq Registered /\ challenged \subseteq Registered
  /\ \A t \in TokenIds : tokens[t].kind # "none" => tokens[t].email \in Emails

\* Where a request stands in its program.
Placed(r) ==
  /\ request[r].email \in Emails /\ request[r].op \in AuthOps
  /\ request[r].pc \in 1..Len(Program(r))

\* The link a request came with.
Linked(r) ==
  request[r].op \in {"resetPassword", "verifyEmail"} =>
    /\ request[r].input.token \in TokenIds
    /\ request[r].late => tokens[request[r].input.token].consumed

\* The row a request has read, against the row there is now.
Informed(r) ==
  /\ request[r].row.role # "none" => request[r].email \in Registered
  /\ request[r].armed => users[request[r].email].mfa_enabled
  /\ request[r].pc > 1 /\ request[r].op \notin Anonymous =>
       /\ request[r].row.role # "none"
       /\ request[r].op = "login" /\ request[r].armed => request[r].row.mfa_enabled

\* What a request has found out when it comes to one of these steps.
Entitled(r) ==
  /\ At(r, "insertUser") => request[r].first \/ Registered # {}
  /\ At(r, "openSession") =>
       /\ request[r].email \in Registered
       /\ request[r].op = "login" => ~request[r].armed
  /\ \A step \in Redeeming : At(r, step) => ~request[r].late

Sound(r) == request[r].pc # 0 => Placed(r) /\ Linked(r) /\ Informed(r) /\ Entitled(r)

AccountsInv == Types /\ Accounts /\ SomeAdmin /\ \A r \in Requests : Sound(r)

-----------------------------------------------------------------------------
(* The programs *)

LEMMA ProgramShape ==
  ASSUME NEW r \in Requests, Types, request[r].pc # 0, Placed(r)
  PROVE  /\ Program(r) \in Seq(STRING) /\ Len(Program(r)) \in Nat \ {0}
         /\ request[r].op \notin Anonymous => Program(r)[1] \in Reads
         /\ \A i \in 1..Len(Program(r)) :
              /\ Program(r)[i] \in OnRow => request[r].op \notin Anonymous
              /\ Program(r)[i] = "insertUser" => request[r].op = "signup"
              /\ Program(r)[i] \in {"findToken"} \cup Redeeming =>
                   request[r].op \in {"resetPassword", "verifyEmail"}
              /\ Program(r)[i] = "openSession" =>
                   request[r].op = "signup" \/ request[r].op \notin Anonymous
<1> DEFINE p == Program(r)  op == request[r].op
<1>1. op \in AuthOps /\ port \in Ports
  BY DEF Types, Placed
<1>2. /\ p \in Seq(STRING) /\ p # <<>>
      /\ op \notin Anonymous => p[1] \in Reads
      /\ Within(p, OnRow, op \notin Anonymous)
      /\ Within(p, {"insertUser"}, op = "signup")
      /\ Within(p, {"findToken"} \cup Redeeming, op \in {"resetPassword", "verifyEmail"})
      /\ Within(p, {"openSession"}, op = "signup" \/ op \notin Anonymous)
  BY <1>1, ProgramsAssumption DEF Program
<1>3. Len(p) \in Nat \ {0}
  BY <1>2
<1> QED
  BY <1>2, <1>3 DEF Within

LEMMA ProgramOrder ==
  ASSUME NEW r \in Requests, Types, request[r].pc # 0, Placed(r),
         NEW i \in 1..Len(Program(r))
  PROVE  /\ Program(r)[i] = "insertUser" => i > 1 /\ Program(r)[i - 1] = "countUsers"
         /\ Program(r)[i] \in Redeeming => i > 1 /\ Program(r)[i - 1] = "findToken"
         /\ Program(r)[i] = "openSession" /\ request[r].op = "signup" =>
              i > 1 /\ Program(r)[i - 1] = "insertUser"
         /\ Program(r)[i] = "openSession" /\ request[r].op = "login" =>
              i > 1 /\ Program(r)[i - 1] \in Gates
<1> DEFINE p == Program(r)  op == request[r].op
<1>1. op \in AuthOps /\ port \in Ports
  BY DEF Types, Placed
<1>2. /\ Preceded(p, "insertUser", {"countUsers"})
      /\ \A step \in Redeeming : Preceded(p, step, {"findToken"})
      /\ op = "signup" => Preceded(p, "openSession", {"insertUser"})
      /\ op = "login" => Preceded(p, "openSession", Gates)
  BY <1>1, ProgramsAssumption DEF Program
<1> QED
  BY <1>2 DEF Preceded


-----------------------------------------------------------------------------
(* Requests from one step to the next *)

\* What no step takes away from a request that rests.
Kept ==
  /\ port' = port
  /\ \A e \in Emails : users[e].role # "none" => users'[e].role # "none"
  /\ \A t \in TokenIds : tokens[t].consumed => tokens'[t].consumed

\* A request that rests, or is disarmed.
Resting(q) ==
  /\ \A f \in {"op", "email", "pc", "input", "row", "first", "late"} :
       request'[q][f] = request[q][f]
  /\ request[q].pc # 0 /\ request'[q].armed =>
       request[q].armed /\ users'[request[q].email].mfa_enabled

LEMMA RestingFields ==
  ASSUME NEW q, Resting(q)
  PROVE  /\ request'[q].op = request[q].op /\ request'[q].email = request[q].email
         /\ request'[q].pc = request[q].pc /\ request'[q].input = request[q].input
         /\ request'[q].row = request[q].row /\ request'[q].first = request[q].first
         /\ request'[q].late = request[q].late
  BY DEF Resting

LEMMA RestingSound ==
  ASSUME NEW q \in Requests, Types, Kept, Sound(q), Resting(q)
  PROVE  Sound(q)'
<1> SUFFICES ASSUME request[q].pc # 0
             PROVE  (Placed(q) /\ Linked(q) /\ Informed(q) /\ Entitled(q))'
  BY RestingFields DEF Sound
<1> USE RestingFields
<1>1. Placed(q) /\ Linked(q) /\ Informed(q) /\ Entitled(q)
  BY DEF Sound
<1>2. Program(q)' = Program(q)
  BY DEF Program, Kept
<1>3. \A step : At(q, step)' = At(q, step)
  BY <1>2 DEF At
<1>4. Registered \subseteq Registered'
  BY DEF Registered, Kept
<1>5. Placed(q)'
  BY <1>1, <1>2 DEF Placed
<1>6. Linked(q)'
  BY <1>1 DEF Linked, Kept
<1>7. Informed(q)'
  BY <1>1, <1>4 DEF Informed, Resting
<1>8. Entitled(q)'
  BY <1>1, <1>3, <1>4 DEF Entitled, Resting
<1> QED
  BY <1>5, <1>6, <1>7, <1>8

LEMMA NoRequestAtRest == NoRequest.pc = 0 /\ NoRequest.row = NoUser
  BY DEF NoRequest

LEMMA RepliedSound ==
  ASSUME NEW r \in Requests, Types, request'[r] = NoRequest
  PROVE  Sound(r)'
<1>1. request'[r].pc = 0
  BY NoRequestAtRest
<1> QED
  BY <1>1 DEF Sound

\* A request goes on with what it knows.
Learnt(r, known) ==
  /\ \A f \in {"op", "email", "pc", "input", "late", "armed"} : known[f] = request[r][f]
  /\ known.row.role # "none" => request[r].email \in Registered'
  /\ request[r].armed => users'[request[r].email].mfa_enabled
  /\ request[r].op \notin Anonymous =>
       /\ known.row.role # "none"
       /\ request[r].op = "login" /\ request[r].armed => known.row.mfa_enabled
  /\ At(r, "countUsers") => known.first \/ Registered' # {}
  /\ At(r, "insertUser") => request[r].email \in Registered'
  /\ At(r, "findToken") => ~request[r].late
  /\ request[r].op = "login" /\ (\E step \in Gates : At(r, step)) => ~request[r].armed

LEMMA ProceedSound ==
  ASSUME NEW r \in Requests, Types, Kept, Sound(r), request[r].pc # 0,
         NEW known \in RequestState, Learnt(r, known),
         request'[r] = IF request[r].pc = Len(Program(r)) THEN NoRequest
                       ELSE [known EXCEPT !.pc = @ + 1]
  PROVE  Sound(r)'
<1>1. CASE request[r].pc = Len(Program(r))
  BY <1>1, RepliedSound
<1>2. CASE request[r].pc # Len(Program(r))
  <2> DEFINE n == request[r].pc + 1
  <2>1. Placed(r) /\ Linked(r) /\ Informed(r) /\ Entitled(r)
    BY DEF Sound
  <2>2. /\ known.op = request[r].op /\ known.email = request[r].email
        /\ known.pc = request[r].pc /\ known.input = request[r].input
        /\ known.late = request[r].late /\ known.armed = request[r].armed
    BY DEF Learnt
  <2>3. /\ request'[r].op = request[r].op /\ request'[r].email = request[r].email
        /\ request'[r].pc = n /\ request'[r].input = request[r].input
        /\ request'[r].row = known.row /\ request'[r].first = known.first
        /\ request'[r].late = request[r].late /\ request'[r].armed = request[r].armed
    BY <1>2, <2>2 DEF RequestState
  <2>4. Program(r)' = Program(r)
    BY <2>3 DEF Program, Kept
  <2>5. Len(Program(r)) \in Nat \ {0} /\ request[r].pc \in 1..Len(Program(r))
    BY <2>1, ProgramShape DEF Placed
  <2>6. n \in 1..Len(Program(r)) /\ n > 1 /\ n - 1 = request[r].pc
    BY <1>2, <2>5
  <2>7. Placed(r)'
    BY <2>1, <2>3, <2>4, <2>6 DEF Placed
  <2>8. Linked(r)'
    BY <2>1, <2>3 DEF Linked, Kept
  <2>9. Informed(r)'
    BY <2>3, <2>1 DEF Informed, Learnt
  <2>10. \A step : At(r, step)' <=> Program(r)[n] = step
    BY <2>3, <2>4, <2>6 DEF At
  <2>11. \A step : At(r, step) <=> Program(r)[n - 1] = step
    BY <2>6 DEF At
  <2>12. Registered \subseteq Registered'
    BY DEF Registered, Kept
  <2>13. At(r, "insertUser")' => request'[r].first \/ Registered' # {}
    BY <2>1, <2>3, <2>6, <2>10, <2>11, ProgramOrder DEF Learnt
  <2>14. \A step \in Redeeming : At(r, step)' => ~request'[r].late
    BY <2>1, <2>3, <2>6, <2>10, <2>11, ProgramOrder DEF Learnt
  <2>15. ASSUME At(r, "openSession")'
         PROVE  request'[r].email \in Registered'
    <3>1. request[r].op = "signup" \/ request[r].op \notin Anonymous
      BY <2>1, <2>6, <2>10, <2>15, ProgramShape
    <3>2. CASE request[r].op = "signup"
      BY <2>1, <2>3, <2>6, <2>10, <2>11, <2>15, <3>2, ProgramOrder DEF Learnt
    <3>3. CASE request[r].op \notin Anonymous
      BY <2>3, <3>3 DEF Learnt
    <3> QED
      BY <3>1, <3>2, <3>3
  <2>16. ASSUME At(r, "openSession")', request'[r].op = "login"
         PROVE  ~request'[r].armed
    BY <2>1, <2>3, <2>6, <2>10, <2>11, <2>16, ProgramOrder DEF Learnt
  <2>17. Entitled(r)'
    BY <2>13, <2>14, <2>15, <2>16 DEF Entitled
  <2> QED
    BY <2>7, <2>8, <2>9, <2>17 DEF Sound
<1> QED
  BY <1>1, <1>2

\* A step that acts on the row comes after the read of a registered account.
LEMMA OnRowInformed ==
  ASSUME NEW r \in Requests, Types, Sound(r), NEW step \in OnRow, At(r, step)
  PROVE  /\ request[r].pc > 1 /\ request[r].op \notin Anonymous
         /\ request[r].row.role # "none" /\ request[r].email \in Registered
         /\ request[r].op = "login" /\ request[r].armed => request[r].row.mfa_enabled
<1>1. request[r].pc # 0 /\ Program(r)[request[r].pc] = step
  BY DEF At
<1>2. Placed(r) /\ Informed(r)
  BY <1>1 DEF Sound
<1>3. request[r].op \notin Anonymous
  BY <1>1, <1>2, ProgramShape DEF Placed
<1>4. request[r].pc # 1
  BY <1>1, <1>2, <1>3, ProgramShape DEF Reads, OnRow, Gates
<1>5. request[r].pc > 1
  BY <1>1, <1>2, <1>4, ProgramShape DEF Placed
<1> QED
  BY <1>2, <1>3, <1>5 DEF Informed

-----------------------------------------------------------------------------
(* What a step may do to the two tables *)

Grows ==
  /\ port' = port
  /\ users' \in [Emails -> UserRow] /\ tokens' \in [TokenIds -> TokenRow]
  /\ minted' \in Nat /\ spent' \subseteq Codes
  /\ \A e \in Emails : /\ users[e].role # "none" => users'[e].role = users[e].role
                       /\ users'[e].mfa_enabled => users'[e].role # "none"
  /\ \A t \in TokenIds : /\ tokens[t].consumed => tokens'[t].consumed
                         /\ tokens'[t].kind # "none" => tokens'[t].email \in Emails
  /\ signedIn' \subseteq Registered' /\ challenged' \subseteq Registered'
  /\ SomeAdmin'

\* MFA that is on stays on.
Armed == \A e \in Emails : users[e].mfa_enabled => users'[e].mfa_enabled

LEMMA GrowsKept ==
  ASSUME AccountsInv, Grows
  PROVE  Kept /\ Registered \subseteq Registered'
  BY DEF AccountsInv, Types, Grows, Kept, Registered

LEMMA TablesSame ==
  ASSUME AccountsInv, UNCHANGED <<port, users, tokens, signedIn, challenged, minted, spent>>
  PROVE  Grows /\ Armed
<1>1. Registered' = Registered /\ (SomeAdmin' <=> SomeAdmin)
  BY DEF Registered, SomeAdmin
<1> QED
  BY <1>1 DEF AccountsInv, Types, Accounts, Grows, Armed

LEMMA OthersSound ==
  ASSUME AccountsInv, Grows, Armed, NEW q \in Requests, request'[q] = request[q]
  PROVE  Sound(q)'
<1>1. Types /\ Sound(q) /\ Kept
  BY GrowsKept DEF AccountsInv
<1>2. Resting(q)
  BY <1>1 DEF Resting, Sound, Placed, Informed, Armed
<1> QED
  BY <1>1, <1>2, RestingSound

LEMMA NoRequestTyped == NoRequest \in RequestState /\ NoUser \in UserRow /\ NoInput \in Input
<1>1. NoUser \in UserRow
  BY DEF NoUser, UserRow, Locks
<1>2. NoInput \in Input
  BY DEF NoInput, Input
<1>3. NoRequest \in RequestState
  BY <1>1, <1>2 DEF NoRequest, RequestState
<1> QED
  BY <1>1, <1>2, <1>3

LEMMA Settled ==
  ASSUME AccountsInv, Grows, Armed, NEW r \in Requests,
         request' \in [Requests -> RequestState],
         \A q \in Requests \ {r} : request'[q] = request[q], Sound(r)'
  PROVE  AccountsInv'
<1>1. \A q \in Requests : Sound(q)'
  BY OthersSound
<1>2. Types' /\ Accounts' /\ SomeAdmin'
  BY DEF AccountsInv, Grows, Types, Accounts
<1> QED
  BY <1>1, <1>2 DEF AccountsInv

LEMMA Replied ==
  ASSUME AccountsInv, Grows, Armed, NEW r \in Requests, Reply(r)
  PROVE  AccountsInv'
<1>1. /\ request' \in [Requests -> RequestState] /\ request'[r] = NoRequest
      /\ \A q \in Requests \ {r} : request'[q] = request[q]
  BY NoRequestTyped DEF Reply, AccountsInv, Types
<1>2. Sound(r)'
  BY <1>1, RepliedSound DEF AccountsInv
<1> QED
  BY <1>1, <1>2, Settled

LEMMA Proceeded ==
  ASSUME AccountsInv, Grows, Armed, NEW r \in Requests, request[r].pc # 0,
         NEW known \in RequestState, Learnt(r, known), Proceed(r, known)
  PROVE  AccountsInv'
<1> DEFINE next == IF request[r].pc = Len(Program(r)) THEN NoRequest
                   ELSE [known EXCEPT !.pc = @ + 1]
<1>1. next \in RequestState
  <2>1. known.pc \in Nat
    BY DEF RequestState
  <2>2. [known EXCEPT !.pc = known.pc + 1] \in RequestState
    <3> DEFINE n == known.pc + 1
    <3>1. n \in Nat
      BY <2>1
    <3> HIDE DEF n
    <3>2. [known EXCEPT !.pc = n] \in RequestState
      BY <3>1 DEF RequestState
    <3> QED
      BY <3>2 DEF n
  <2> QED
    BY <2>2, NoRequestTyped
<1>2. request \in [Requests -> RequestState] /\ request' = [request EXCEPT ![r] = next]
  BY DEF AccountsInv, Types, Proceed
<1> HIDE DEF next
<1>3. /\ request' \in [Requests -> RequestState] /\ request'[r] = next
      /\ \A q \in Requests \ {r} : request'[q] = request[q]
  BY <1>1, <1>2
<1>4. Types /\ Kept /\ Sound(r)
  BY GrowsKept DEF AccountsInv
<1>5. Sound(r)'
  BY <1>3, <1>4, ProceedSound DEF next
<1> QED
  BY <1>3, <1>5, Settled

\* What a request knows after a step that is not a read.
LEMMA StepLearnt ==
  ASSUME AccountsInv, Grows, Armed, NEW r \in Requests, NEW known,
         NEW step, step \notin Reads, At(r, step),
         \A f \in {"op", "email", "pc", "input", "late", "armed", "row"} : known[f] = request[r][f],
         step = "countUsers" => known.first \/ Registered' # {},
         step = "insertUser" => request[r].email \in Registered',
         step = "findToken" => ~request[r].late,
         step \in Gates /\ request[r].op = "login" => ~request[r].armed
  PROVE  Learnt(r, known)
<1>1. request[r].pc # 0 /\ Program(r)[request[r].pc] = step
  BY DEF At
<1>2. Types /\ Placed(r) /\ Informed(r)
  BY <1>1 DEF AccountsInv, Sound
<1>3. /\ request[r].op \notin Anonymous => request[r].pc # 1
      /\ request[r].pc \in 1..Len(Program(r)) /\ Len(Program(r)) \in Nat
  BY <1>1, <1>2, ProgramShape DEF Placed
<1>4. request[r].op \notin Anonymous => request[r].pc > 1
  BY <1>3
<1>5. known.row = request[r].row
  OBVIOUS
<1>6. request[r].row.role # "none" => request[r].email \in Registered'
  BY <1>2, GrowsKept DEF Informed
<1>7. request[r].armed => users'[request[r].email].mfa_enabled
  BY <1>2 DEF Informed, Placed, Armed
<1>8. request[r].op \notin Anonymous =>
        /\ request[r].row.role # "none"
        /\ request[r].op = "login" /\ request[r].armed => request[r].row.mfa_enabled
  BY <1>2, <1>4 DEF Informed
<1>9. \A other : At(r, other) => other = step
  BY <1>1 DEF At
<1> QED
  BY <1>5, <1>6, <1>7, <1>8, <1>9 DEF Learnt

\* A step after which the request goes on with what it knew before.
LEMMA WentOn ==
  ASSUME AccountsInv, Grows, Armed, NEW r \in Requests, NEW step, step \notin Reads, At(r, step),
         Proceed(r, request[r]), step # "countUsers",
         step = "insertUser" => request[r].email \in Registered',
         step = "findToken" => ~request[r].late,
         step \in Gates /\ request[r].op = "login" => ~request[r].armed
  PROVE  AccountsInv'
<1>1. request[r] \in RequestState /\ request[r].pc # 0
  BY DEF AccountsInv, Types, At
<1>2. Learnt(r, request[r])
  BY StepLearnt
<1> QED
  BY <1>1, <1>2, Proceeded

-----------------------------------------------------------------------------
(* Writing a row *)

\* Any columns of the patch may be written to any row.
Fits(patch) ==
  \A row \in UserRow : \A cols \in SUBSET DOMAIN patch : Merged(row, patch, cols) \in UserRow

LEMMA MergedColumn ==
  ASSUME NEW row \in UserRow, NEW patch, NEW cols
  PROVE  /\ "role" \notin cols => Merged(row, patch, cols).role = row.role
         /\ "mfa_enabled" \notin cols => Merged(row, patch, cols).mfa_enabled = row.mfa_enabled
         /\ "mfa_enabled" \in cols => Merged(row, patch, cols).mfa_enabled = patch["mfa_enabled"]
  BY DEF Merged, UserRow

LEMMA RowWritten ==
  ASSUME AccountsInv, NEW r \in Requests, request[r].email \in Registered,
         NEW patch, Fits(patch), "role" \notin DOMAIN patch, Write(r, patch),
         UNCHANGED <<port, tokens>>, minted' \in Nat, spent' \subseteq Codes,
         signedIn' = signedIn, challenged' \subseteq challenged \cup {request[r].email}
  PROVE  /\ Grows
         /\ \A e \in Emails \ {request[r].email} : users'[e] = users[e]
         /\ "mfa_enabled" \notin DOMAIN patch =>
              users'[request[r].email].mfa_enabled = users[request[r].email].mfa_enabled
         /\ "mfa_enabled" \notin DOMAIN patch \/ patch["mfa_enabled"] = TRUE => Armed
<1> DEFINE mine == request[r].email
           cols == Written(request[r].row, patch)
           new == Merged(users[mine], patch, cols)
<1>1. /\ Types /\ Accounts /\ SomeAdmin /\ mine \in Emails
      /\ users \in [Emails -> UserRow] /\ users[mine] \in UserRow /\ users[mine].role # "none"
  BY DEF AccountsInv, Types, Registered
<1>2. cols \in SUBSET DOMAIN patch
  BY DEF Written
<1>3. new \in UserRow
  BY <1>1, <1>2 DEF Fits
<1>4. /\ new.role = users[mine].role
      /\ "mfa_enabled" \notin DOMAIN patch => new.mfa_enabled = users[mine].mfa_enabled
      /\ patch["mfa_enabled"] = TRUE /\ users[mine].mfa_enabled => new.mfa_enabled
  BY <1>1, <1>2, MergedColumn
<1>5. users' = [users EXCEPT ![mine] = new]
  BY DEF Write
<1> HIDE DEF new, cols
<1>6. /\ users' \in [Emails -> UserRow] /\ users'[mine] = new
      /\ \A e \in Emails \ {mine} : users'[e] = users[e]
  BY <1>1, <1>3, <1>5
<1>7. \A e \in Emails : users'[e].role = users[e].role
  BY <1>4, <1>6
<1>8. Registered' = Registered /\ SomeAdmin'
  BY <1>1, <1>7 DEF Registered, SomeAdmin
<1>9. \A e \in Emails : users'[e].mfa_enabled => users'[e].role # "none"
  BY <1>1, <1>6, <1>7 DEF Accounts
<1>10. Grows
  BY <1>1, <1>6, <1>7, <1>8, <1>9 DEF Grows, Types, Accounts
<1>11. "mfa_enabled" \notin DOMAIN patch \/ patch["mfa_enabled"] = TRUE => Armed
  BY <1>4, <1>6 DEF Armed
<1> QED
  BY <1>4, <1>6, <1>10, <1>11

\* The patches of the handlers.
LEMMA LoginPatches ==
  ASSUME NEW n \in Nat, NEW lock \in Locks
  PROVE  Fits([failed_login_count |-> n, locked_until |-> lock]) /\ Fits([failed_login_count |-> n])
  BY DEF Fits, Merged, UserRow, Locks

LEMMA MfaPatches ==
  ASSUME NEW n \in Nat, NEW lock \in Locks
  PROVE  Fits([mfa_failed_count |-> n, mfa_locked_until |-> lock]) /\ Fits([mfa_failed_count |-> n])
  BY DEF Fits, Merged, UserRow, Locks

LEMMA CodesPatch ==
  ASSUME NEW codes \in SUBSET Codes
  PROVE  Fits([mfa_recovery_codes_enc |-> codes, mfa_failed_count |-> 0, mfa_locked_until |-> "none"])
  BY DEF Fits, Merged, UserRow, Locks

LEMMA EnablePatch ==
  ASSUME NEW on \in BOOLEAN, NEW codes \in SUBSET Codes
  PROVE  Fits([mfa_enabled |-> on, mfa_recovery_codes_enc |-> codes,
               mfa_failed_count |-> 0, mfa_locked_until |-> "none"])
  BY DEF Fits, Merged, UserRow, Locks

LEMMA DisablePatch ==
  ASSUME NEW on \in BOOLEAN, NEW codes \in SUBSET Codes
  PROVE  Fits([mfa_enabled |-> on, mfa_secret_enc |-> 0, mfa_recovery_codes_enc |-> codes,
               mfa_failed_count |-> 0, mfa_locked_until |-> "none"])
  BY DEF Fits, Merged, UserRow, Locks

LEMMA ColumnPatches ==
  ASSUME NEW n \in Nat
  PROVE  Fits([mfa_secret_enc |-> n]) /\ Fits([password_hash |-> n])
  BY DEF Fits, Merged, UserRow

-----------------------------------------------------------------------------
(* Reads *)

LEMMA ReadKeepsInv ==
  ASSUME AccountsInv, NEW r \in Requests, NEW step \in Reads, NEW acceptable,
         Read(r, step, acceptable)
  PROVE  AccountsInv'
<1>1. Grows /\ Armed
  BY TablesSame DEF Read
<1>2. CASE Reply(r)
  BY <1>1, <1>2, Replied
<1>3. CASE Account(r).role # "none" /\ Proceed(r, [request[r] EXCEPT !.row = Account(r)])
  <2> DEFINE known == [request[r] EXCEPT !.row = Account(r)]
  <2>1. request[r].pc # 0 /\ Program(r)[request[r].pc] = step
    BY DEF Read, At
  <2>2. Types /\ Placed(r) /\ Informed(r) /\ request[r] \in RequestState
    BY <2>1 DEF AccountsInv, Sound, Types
  <2>3. Account(r) \in UserRow /\ users[request[r].email] = Account(r)
    BY <2>2 DEF Account, Types, Placed
  <2>4. known \in RequestState /\ known.row = Account(r)
    BY <2>2, <2>3 DEF RequestState
  <2>5. \A f \in {"op", "email", "pc", "input", "late", "armed"} : known[f] = request[r][f]
    BY <2>2 DEF RequestState
  <2> HIDE DEF known
  <2>6. request[r].email \in Registered'
    BY <1>1, <1>3, <2>2, <2>3, GrowsKept DEF Registered, Placed
  <2>7. request[r].armed => Account(r).mfa_enabled /\ users'[request[r].email].mfa_enabled
    BY <1>1, <2>2, <2>3 DEF Informed, Armed, Placed
  <2>8. \A other : At(r, other) => other = step
    BY <2>1 DEF At
  <2>9. Learnt(r, known)
    BY <1>3, <2>4, <2>5, <2>6, <2>7, <2>8 DEF Learnt, Reads, Gates
  <2> QED
    BY <1>1, <1>3, <2>1, <2>4, <2>9, Proceeded DEF known
<1> QED
  BY <1>2, <1>3 DEF Read

LEMMA ReadsKeepInv ==
  ASSUME AccountsInv, NEW r \in Requests,
         \/ ReadUser(r) \/ ReadUnlocked(r) \/ ReadUnverified(r) \/ ReadMfa(r)
         \/ ReadMfaUnlocked(r) \/ ReadWithoutMfa(r) \/ ReadPending(r)
  PROVE  AccountsInv'
<1>1. CASE ReadUser(r)
  BY <1>1, ReadKeepsInv DEF ReadUser, Reads
<1>2. CASE ReadUnlocked(r)
  BY <1>2, ReadKeepsInv DEF ReadUnlocked, Reads
<1>3. CASE ReadUnverified(r)
  BY <1>3, ReadKeepsInv DEF ReadUnverified, Reads
<1>4. CASE ReadMfa(r)
  BY <1>4, ReadKeepsInv DEF ReadMfa, Reads
<1>5. CASE ReadMfaUnlocked(r)
  BY <1>5, ReadKeepsInv DEF ReadMfaUnlocked, Reads
<1>6. CASE ReadWithoutMfa(r)
  BY <1>6, ReadKeepsInv DEF ReadWithoutMfa, Reads
<1>7. CASE ReadPending(r)
  BY <1>7, ReadKeepsInv DEF ReadPending, Reads
<1> QED
  BY <1>1, <1>2, <1>3, <1>4, <1>5, <1>6, <1>7

-----------------------------------------------------------------------------
(* Sessions and registration *)

LEMMA SessionRowsKeepsInv ==
  ASSUME AccountsInv, NEW r \in Requests, SessionRows(r)
  PROVE  AccountsInv'
<1>1. Grows /\ Armed
  BY TablesSame DEF SessionRows
<1>2. PICK step \in {"revokeSession", "revokeOtherSessions", "listSessions"} : At(r, step)
  BY DEF SessionRows
<1> QED
  BY <1>1, <1>2, WentOn DEF SessionRows, Reads, Gates

LEMMA OpenSessionKeepsInv ==
  ASSUME AccountsInv, NEW r \in Requests, OpenSession(r)
  PROVE  AccountsInv'
<1>1. request[r].email \in Registered
  BY DEF OpenSession, At, AccountsInv, Sound, Entitled
<1>2. Registered' = Registered /\ (SomeAdmin' <=> SomeAdmin)
  BY DEF OpenSession, Registered, SomeAdmin
<1>3. Grows /\ Armed
  BY <1>1, <1>2 DEF OpenSession, AccountsInv, Types, Accounts, Grows, Armed
<1> QED
  BY <1>3, WentOn DEF OpenSession, Reads, Gates

LEMMA FindEmailKeepsInv ==
  ASSUME AccountsInv, NEW r \in Requests, FindEmail(r)
  PROVE  AccountsInv'
<1>1. Grows /\ Armed
  BY TablesSame DEF FindEmail
<1> QED
  BY <1>1, Replied, WentOn DEF FindEmail, Reads, Gates

\* The count is right when it is taken, and rows only appear afterwards.
LEMMA CountUsersKeepsInv ==
  ASSUME AccountsInv, NEW r \in Requests, CountUsers(r)
  PROVE  AccountsInv'
<1>1. Grows /\ Armed
  BY TablesSame DEF CountUsers
<1> DEFINE known == [request[r] EXCEPT !.first = (Registered = {})]
<1>2. request[r] \in RequestState /\ At(r, "countUsers") /\ request[r].pc # 0
  BY DEF AccountsInv, Types, CountUsers, At
<1>3. Proceed(r, known)
  BY DEF CountUsers
<1>4. known \in RequestState /\ known.first = (Registered = {})
  BY <1>2 DEF RequestState
<1>5. \A f \in {"op", "email", "pc", "input", "late", "armed", "row"} : known[f] = request[r][f]
  BY <1>2 DEF RequestState
<1> HIDE DEF known
<1>6. known.first \/ Registered' # {}
  BY <1>1, <1>4, GrowsKept
<1>7. Learnt(r, known)
  BY <1>1, <1>2, <1>5, <1>6, StepLearnt DEF Reads, Gates
<1> QED
  BY <1>1, <1>2, <1>3, <1>4, <1>7, Proceeded

\* The first row is an administrator's; so somebody is one as soon as there
\* are rows.
LEMMA InsertUserKeepsInv ==
  ASSUME AccountsInv, NEW r \in Requests, InsertUser(r)
  PROVE  AccountsInv'
<1> DEFINE mine == request[r].email
           role == IF request[r].first THEN "admin" ELSE "user"
<1>1. At(r, "insertUser") /\ request[r].pc # 0 /\ Types /\ SomeAdmin /\ Accounts
  BY DEF InsertUser, At, AccountsInv
<1>2. mine \in Emails /\ (request[r].first \/ Registered # {})
  BY <1>1 DEF AccountsInv, Sound, Placed, Entitled
<1>3. CASE mine \in Registered
  <2>1. Grows /\ Armed /\ Reply(r)
    BY <1>3, TablesSame DEF InsertUser
  <2> QED
    BY <2>1, Replied
<1>4. CASE mine \notin Registered
  <2> DEFINE new == [NoUser EXCEPT !.role = role, !.password_hash = minted + 1]
  <2>1. /\ users' = [users EXCEPT ![mine] = new] /\ minted' = minted + 1
        /\ Proceed(r, request[r])
        /\ UNCHANGED <<port, tokens, signedIn, challenged, spent>>
    BY <1>4 DEF InsertUser
  <2>2. minted \in Nat /\ users \in [Emails -> UserRow]
    BY <1>1 DEF Types
  <2>3. new \in UserRow /\ new.role = role /\ ~new.mfa_enabled /\ role \in {"admin", "user"}
    <3>1. NoUser \in UserRow /\ NoUser.mfa_enabled = FALSE
      BY NoRequestTyped DEF NoUser
    <3>2. role \in {"admin", "user"} /\ minted + 1 \in Nat
      BY <2>2
    <3> HIDE DEF role
    <3>3. new \in UserRow /\ new.role = role
      BY <3>1, <3>2 DEF UserRow
    <3>4. new.mfa_enabled = NoUser.mfa_enabled
      BY <3>1 DEF UserRow
    <3> QED
      BY <3>1, <3>2, <3>3, <3>4
  <2> HIDE DEF new
  <2>4. /\ users' \in [Emails -> UserRow] /\ users'[mine] = new
        /\ \A e \in Emails \ {mine} : users'[e] = users[e]
    BY <1>2, <2>1, <2>2, <2>3
  <2>5. users[mine].role = "none" /\ ~users[mine].mfa_enabled
    BY <1>1, <1>2, <1>4 DEF Registered, Accounts
  <2>6. Registered' = Registered \cup {mine}
    BY <1>2, <2>3, <2>4 DEF Registered
  <2>7. SomeAdmin'
    BY <1>1, <1>2, <2>3, <2>4, <2>5 DEF SomeAdmin, Registered
  <2>8. Grows /\ Armed
    BY <1>1, <2>1, <2>2, <2>3, <2>4, <2>5, <2>6, <2>7 DEF Grows, Armed, Types, Accounts
  <2> QED
    BY <1>1, <2>1, <2>6, <2>8, WentOn DEF Reads, Gates
<1> QED
  BY <1>3, <1>4

-----------------------------------------------------------------------------
(* Login *)

\* The request that acts on a row, as the lemmas below need it.
LEMMA OnRowReady ==
  ASSUME AccountsInv, NEW r \in Requests, NEW step \in OnRow, At(r, step)
  PROVE  /\ request[r].email \in Registered /\ request[r].email \in Emails
         /\ request[r].row \in UserRow /\ request[r].input \in Input
         /\ request[r].op = "login" /\ request[r].armed =>
              request[r].row.mfa_enabled /\ users[request[r].email].mfa_enabled
         /\ step \notin Reads
         /\ minted \in Nat /\ spent \subseteq Codes
<1>1. Types /\ Sound(r) /\ request[r].pc # 0
  BY DEF AccountsInv, At
<1>2. request[r] \in RequestState
  BY <1>1 DEF Types
<1>3. Informed(r)
  BY <1>1 DEF Sound
<1>4. request[r].row \in UserRow /\ request[r].input \in Input
  BY <1>2 DEF RequestState
<1>5. step \notin Reads
  BY DEF OnRow, Gates, Reads
<1> QED
  BY <1>1, <1>3, <1>4, <1>5, OnRowInformed DEF Types, Informed, Registered

LEMMA LoginFailureKeepsInv ==
  ASSUME AccountsInv, NEW r \in Requests, NEW step \in OnRow, At(r, step), LoginFailure(r),
         UNCHANGED <<port, tokens, signedIn, spent>>
  PROVE  AccountsInv'
<1> DEFINE n == request[r].row.failed_login_count + 1
<1>1. request[r].email \in Registered /\ minted \in Nat /\ spent \subseteq Codes
  BY OnRowReady
<1>2. request[r].row \in UserRow
  BY OnRowReady
<1>3. request[r].row.failed_login_count \in Nat
  BY <1>2 DEF UserRow
<1>4. n \in Nat
  BY <1>3
<1>5. /\ Write(r, IF n >= LoginMax THEN [failed_login_count |-> n, locked_until |-> "future"]
                                    ELSE [failed_login_count |-> n])
      /\ Reply(r) /\ UNCHANGED <<challenged, minted>>
  BY DEF LoginFailure
<1> HIDE DEF n
<1>6. PICK patch : /\ Write(r, patch) /\ Fits(patch)
                   /\ "role" \notin DOMAIN patch /\ "mfa_enabled" \notin DOMAIN patch
  <2>1. CASE n >= LoginMax
    <3> DEFINE patch == [failed_login_count |-> n, locked_until |-> "future"]
    <3>1. Write(r, patch)
      BY <1>5, <2>1
    <3>2. Fits(patch)
      BY <1>4, LoginPatches DEF Locks
    <3>3. "role" \notin DOMAIN patch /\ "mfa_enabled" \notin DOMAIN patch
      OBVIOUS
    <3> QED
      BY <3>1, <3>2, <3>3
  <2>2. CASE ~(n >= LoginMax)
    <3> DEFINE patch == [failed_login_count |-> n]
    <3>1. Write(r, patch)
      BY <1>5, <2>2
    <3>2. Fits(patch)
      BY <1>4, LoginPatches DEF Locks
    <3>3. "role" \notin DOMAIN patch /\ "mfa_enabled" \notin DOMAIN patch
      OBVIOUS
    <3> QED
      BY <3>1, <3>2, <3>3
  <2> QED
    BY <2>1, <2>2
<1>7. Grows /\ Armed
  BY <1>1, <1>5, <1>6, RowWritten
<1> QED
  BY <1>5, <1>7, Replied

LEMMA LoginSuccessGrows ==
  ASSUME AccountsInv, NEW r \in Requests, NEW step \in OnRow, At(r, step), LoginSuccess(r),
         UNCHANGED <<port, tokens, signedIn, spent>>,
         challenged' \subseteq challenged \cup {request[r].email}
  PROVE  Grows /\ Armed
<1> DEFINE patch == [failed_login_count |-> 0, locked_until |-> "none"]
<1>1. request[r].email \in Registered /\ minted \in Nat /\ spent \subseteq Codes
  BY OnRowReady
<1>2. Write(r, patch) /\ minted' = minted
  BY DEF LoginSuccess
<1>3. Fits(patch)
  BY LoginPatches DEF Locks
<1>4. "role" \notin DOMAIN patch /\ "mfa_enabled" \notin DOMAIN patch
  OBVIOUS
<1> QED
  BY <1>1, <1>2, <1>3, <1>4, RowWritten

\* Whichever row the gate looks at, it has MFA on if that was on throughout.
LEMMA MfaGateKeepsInv ==
  ASSUME AccountsInv, Grows, Armed, NEW r \in Requests, NEW step \in Gates, At(r, step),
         NEW seen, MfaGate(r, seen),
         request[r].op = "login" /\ request[r].armed => seen.mfa_enabled
  PROVE  AccountsInv'
<1>1. CASE Reply(r)
  BY <1>1, Replied
<1>2. CASE ~seen.mfa_enabled /\ Proceed(r, request[r])
  BY <1>2, WentOn DEF Gates, Reads
<1> QED
  BY <1>1, <1>2 DEF MfaGate

LEMMA LoginKeepsInv ==
  ASSUME AccountsInv, NEW r \in Requests,
         VerifyPasswordReturning(r) \/ VerifyPasswordSaved(r) \/ VerifyPassword(r) \/ RereadForMfa(r)
  PROVE  AccountsInv'
<1>1. CASE VerifyPasswordReturning(r)
  <2> DEFINE step == "verifyPasswordReturning"
  <2>1. At(r, step) /\ step \in Gates /\ step \in OnRow /\ UNCHANGED <<port, tokens, signedIn, spent>>
    BY <1>1 DEF VerifyPasswordReturning, Gates, OnRow
  <2>2. CASE LoginFailure(r)
    BY <2>1, <2>2, LoginFailureKeepsInv
  <2>3. CASE LoginSuccess(r) /\ MfaGate(r, users'[request[r].email])
    <3>1. challenged' \subseteq challenged \cup {request[r].email}
      BY <2>3 DEF MfaGate
    <3>2. Grows /\ Armed
      BY <2>1, <2>3, <3>1, LoginSuccessGrows
    <3>3. request[r].op = "login" /\ request[r].armed => users'[request[r].email].mfa_enabled
      BY <2>1, <3>2, OnRowReady DEF Armed
    <3> QED
      BY <2>1, <2>3, <3>2, <3>3, MfaGateKeepsInv
  <2> QED
    BY <1>1, <2>2, <2>3 DEF VerifyPasswordReturning
<1>2. CASE VerifyPasswordSaved(r)
  <2> DEFINE step == "verifyPasswordSaved"
  <2>1. At(r, step) /\ step \in Gates /\ step \in OnRow /\ UNCHANGED <<port, tokens, signedIn, spent>>
    BY <1>2 DEF VerifyPasswordSaved, Gates, OnRow
  <2>2. CASE LoginFailure(r)
    BY <2>1, <2>2, LoginFailureKeepsInv
  <2>3. CASE LoginSuccess(r) /\ MfaGate(r, request[r].row)
    <3>1. challenged' \subseteq challenged \cup {request[r].email}
      BY <2>3 DEF MfaGate
    <3>2. Grows /\ Armed
      BY <2>1, <2>3, <3>1, LoginSuccessGrows
    <3>3. request[r].op = "login" /\ request[r].armed => request[r].row.mfa_enabled
      BY <2>1, OnRowReady
    <3> QED
      BY <2>1, <2>3, <3>2, <3>3, MfaGateKeepsInv
  <2> QED
    BY <1>2, <2>2, <2>3 DEF VerifyPasswordSaved
<1>3. CASE VerifyPassword(r)
  <2> DEFINE step == "verifyPassword"
  <2>1. At(r, step) /\ step \notin Gates /\ step \in OnRow /\ UNCHANGED <<port, tokens, signedIn, spent>>
    BY <1>3 DEF VerifyPassword, Gates, OnRow
  <2>2. CASE LoginFailure(r)
    BY <2>1, <2>2, LoginFailureKeepsInv
  <2>3. CASE LoginSuccess(r) /\ Proceed(r, request[r]) /\ UNCHANGED challenged
    <3>1. Grows /\ Armed
      BY <2>1, <2>3, LoginSuccessGrows
    <3> QED
      BY <2>1, <2>3, <3>1, WentOn DEF Gates, Reads
  <2> QED
    BY <1>3, <2>2, <2>3 DEF VerifyPassword
<1>4. CASE RereadForMfa(r)
  <2> DEFINE step == "rereadForMfa"
  <2>1. /\ At(r, step) /\ step \in Gates /\ step \in OnRow
        /\ UNCHANGED <<port, users, tokens, signedIn, minted, spent>>
        /\ MfaGate(r, users[request[r].email])
    BY <1>4 DEF RereadForMfa, Gates, OnRow
  <2>2. challenged' \subseteq challenged \cup {request[r].email} /\ request[r].email \in Registered
    BY <2>1, OnRowReady DEF MfaGate
  <2>3. Registered' = Registered /\ (SomeAdmin' <=> SomeAdmin)
    BY <2>1 DEF Registered, SomeAdmin
  <2>4. Grows /\ Armed
    BY <2>1, <2>2, <2>3 DEF AccountsInv, Types, Accounts, Grows, Armed
  <2>5. request[r].op = "login" /\ request[r].armed => users[request[r].email].mfa_enabled
    BY <2>1, OnRowReady
  <2> QED
    BY <2>1, <2>4, <2>5, MfaGateKeepsInv
<1> QED
  BY <1>1, <1>2, <1>3, <1>4

-----------------------------------------------------------------------------
(* MFA *)

LEMMA MfaFailureKeepsInv ==
  ASSUME AccountsInv, NEW r \in Requests, NEW step \in OnRow, At(r, step), MfaFailure(r),
         UNCHANGED <<port, tokens, signedIn, challenged>>
  PROVE  AccountsInv'
<1> DEFINE n == request[r].row.mfa_failed_count + 1
<1>1. request[r].email \in Registered /\ minted \in Nat /\ spent \subseteq Codes
  BY OnRowReady
<1>2. request[r].row \in UserRow
  BY OnRowReady
<1>3. request[r].row.mfa_failed_count \in Nat
  BY <1>2 DEF UserRow
<1>4. n \in Nat
  BY <1>3
<1>5. /\ Write(r, IF n >= MfaMax THEN [mfa_failed_count |-> n, mfa_locked_until |-> "future"]
                                  ELSE [mfa_failed_count |-> n])
      /\ Reply(r) /\ UNCHANGED <<minted, spent>>
  BY DEF MfaFailure
<1> HIDE DEF n
<1>6. PICK patch : /\ Write(r, patch) /\ Fits(patch)
                   /\ "role" \notin DOMAIN patch /\ "mfa_enabled" \notin DOMAIN patch
  <2>1. CASE n >= MfaMax
    <3> DEFINE patch == [mfa_failed_count |-> n, mfa_locked_until |-> "future"]
    <3>1. Write(r, patch)
      BY <1>5, <2>1
    <3>2. Fits(patch)
      BY <1>4, MfaPatches DEF Locks
    <3>3. "role" \notin DOMAIN patch /\ "mfa_enabled" \notin DOMAIN patch
      OBVIOUS
    <3> QED
      BY <3>1, <3>2, <3>3
  <2>2. CASE ~(n >= MfaMax)
    <3> DEFINE patch == [mfa_failed_count |-> n]
    <3>1. Write(r, patch)
      BY <1>5, <2>2
    <3>2. Fits(patch)
      BY <1>4, MfaPatches DEF Locks
    <3>3. "role" \notin DOMAIN patch /\ "mfa_enabled" \notin DOMAIN patch
      OBVIOUS
    <3> QED
      BY <3>1, <3>2, <3>3
  <2> QED
    BY <2>1, <2>2
<1>7. Grows /\ Armed
  BY <1>1, <1>5, <1>6, RowWritten
<1> QED
  BY <1>5, <1>7, Replied

LEMMA NewCodes ==
  ASSUME NEW n \in Nat
  PROVE  CodeSet(n) \in SUBSET Codes
  BY DEF CodeSet, Codes

LEMMA VerifyFactorKeepsInv ==
  ASSUME AccountsInv, NEW r \in Requests, VerifyFactor(r)
  PROVE  AccountsInv'
<1> DEFINE step == "verifyFactor"
           input == request[r].input
           left == request[r].row.mfa_recovery_codes_enc \ {input.code}
<1>1. At(r, step) /\ step \in OnRow /\ step \notin Gates /\ UNCHANGED <<port, tokens, signedIn, challenged>>
  BY DEF VerifyFactor, Gates, OnRow
<1>2. /\ request[r].email \in Registered /\ minted \in Nat /\ spent \subseteq Codes
      /\ request[r].row \in UserRow
  BY <1>1, OnRowReady
<1>3. CASE MfaFailure(r)
  BY <1>1, <1>3, MfaFailureKeepsInv
<1>4. CASE ~MfaFailure(r)
  <2>1. /\ RightFactor(r) /\ Proceed(r, request[r]) /\ UNCHANGED minted
        /\ Write(r, IF input.recovery
                    THEN [mfa_recovery_codes_enc |-> left,
                          mfa_failed_count |-> 0, mfa_locked_until |-> "none"]
                    ELSE [mfa_failed_count |-> 0, mfa_locked_until |-> "none"])
        /\ spent' = IF input.recovery THEN spent \cup {input.code} ELSE spent
    BY <1>4 DEF VerifyFactor
  <2>2. request[r].row.mfa_recovery_codes_enc \subseteq Codes
    BY <1>2 DEF UserRow
  <2>3. left \in SUBSET Codes /\ spent' \subseteq Codes
    BY <1>2, <2>1, <2>2 DEF RightFactor
  <2>4. PICK patch : /\ Write(r, patch) /\ Fits(patch)
                     /\ "role" \notin DOMAIN patch /\ "mfa_enabled" \notin DOMAIN patch
    <3> HIDE DEF left, input
    <3>1. CASE input.recovery
      <4> DEFINE patch == [mfa_recovery_codes_enc |-> left,
                           mfa_failed_count |-> 0, mfa_locked_until |-> "none"]
      <4>1. Write(r, patch)
        BY <2>1, <3>1
      <4>2. Fits(patch)
        BY <2>3, CodesPatch
      <4>3. "role" \notin DOMAIN patch /\ "mfa_enabled" \notin DOMAIN patch
        OBVIOUS
      <4> QED
        BY <4>1, <4>2, <4>3
    <3>2. CASE ~input.recovery
      <4> DEFINE patch == [mfa_failed_count |-> 0, mfa_locked_until |-> "none"]
      <4>1. Write(r, patch)
        BY <2>1, <3>2
      <4>2. Fits(patch)
        BY MfaPatches DEF Locks
      <4>3. "role" \notin DOMAIN patch /\ "mfa_enabled" \notin DOMAIN patch
        OBVIOUS
      <4> QED
        BY <4>1, <4>2, <4>3
    <3> QED
      BY <3>1, <3>2
  <2>5. Grows /\ Armed
    BY <1>1, <1>2, <2>1, <2>3, <2>4, RowWritten
  <2> QED
    BY <1>1, <2>1, <2>5, WentOn DEF Reads
<1> QED
  BY <1>3, <1>4

LEMMA WriteSecretKeepsInv ==
  ASSUME AccountsInv, NEW r \in Requests, WriteSecret(r)
  PROVE  AccountsInv'
<1> DEFINE step == "writeSecret"
           patch == [mfa_secret_enc |-> minted + 1]
<1>1. /\ At(r, step) /\ step \in OnRow /\ step \notin Gates /\ Proceed(r, request[r])
      /\ Write(r, patch) /\ minted' = minted + 1
      /\ UNCHANGED <<port, tokens, signedIn, challenged, spent>>
  BY DEF WriteSecret, Gates, OnRow
<1>2. request[r].email \in Registered /\ minted \in Nat /\ spent \subseteq Codes
  BY <1>1, OnRowReady
<1>3. minted + 1 \in Nat
  BY <1>2
<1>4. Fits(patch)
  BY <1>3, ColumnPatches
<1>5. "role" \notin DOMAIN patch /\ "mfa_enabled" \notin DOMAIN patch
  OBVIOUS
<1> HIDE DEF patch
<1>6. Grows /\ Armed
  BY <1>1, <1>2, <1>3, <1>4, <1>5, RowWritten
<1> QED
  BY <1>1, <1>6, WentOn DEF Reads

LEMMA EnableMfaKeepsInv ==
  ASSUME AccountsInv, NEW r \in Requests, EnableMfa(r)
  PROVE  AccountsInv'
<1> DEFINE step == "enableMfa"
           patch == [mfa_enabled |-> TRUE, mfa_recovery_codes_enc |-> CodeSet(minted + 1),
                     mfa_failed_count |-> 0, mfa_locked_until |-> "none"]
<1>1. /\ At(r, step) /\ step \in OnRow /\ step \notin Gates /\ Proceed(r, request[r])
      /\ UNCHANGED <<port, tokens, signedIn, challenged, spent>>
  BY DEF EnableMfa, Gates, OnRow
<1>2. Grows /\ Armed
  <2>1. CASE UNCHANGED <<users, minted>>
    BY <1>1, <2>1, TablesSame
  <2>2. CASE Write(r, patch) /\ minted' = minted + 1
    <3>1. request[r].email \in Registered /\ minted \in Nat /\ spent \subseteq Codes
      BY <1>1, OnRowReady
    <3>2. minted + 1 \in Nat
      BY <3>1
    <3>3. CodeSet(minted + 1) \in SUBSET Codes
      BY <3>2, NewCodes
    <3>4. Fits(patch)
      BY <3>3, EnablePatch
    <3>5. "role" \notin DOMAIN patch /\ patch["mfa_enabled"] = TRUE
      OBVIOUS
    <3> HIDE DEF patch
    <3> QED
      BY <1>1, <2>2, <3>1, <3>2, <3>4, <3>5, RowWritten
  <2> QED
    BY <2>1, <2>2 DEF EnableMfa
<1> QED
  BY <1>1, <1>2, WentOn DEF Reads

\* Switching MFA off disarms everybody else who is working on the account.
LEMMA DisableMfaKeepsInv ==
  ASSUME AccountsInv, NEW r \in Requests, DisableMfa(r)
  PROVE  AccountsInv'
<1> DEFINE step == "disableMfa"
           mine == request[r].email
           patch == [mfa_enabled |-> FALSE, mfa_secret_enc |-> 0,
                     mfa_recovery_codes_enc |-> {},
                     mfa_failed_count |-> 0, mfa_locked_until |-> "none"]
           others == [q \in Requests |->
             IF q = r THEN NoRequest
             ELSE [request[q] EXCEPT !.armed = @ /\ request[q].email # request[r].email]]
<1>1. At(r, step) /\ step \in OnRow /\ step \notin Gates /\ UNCHANGED <<port, tokens, signedIn, challenged>>
  BY DEF DisableMfa, Gates, OnRow
<1>2. mine \in Registered /\ minted \in Nat /\ spent \subseteq Codes
  BY <1>1, OnRowReady
<1>3. CASE MfaFailure(r)
  BY <1>1, <1>3, MfaFailureKeepsInv
<1>4. CASE Reply(r) /\ UNCHANGED <<users, minted, spent>>
  BY <1>1, <1>4, TablesSame, Replied
<1>5. CASE Write(r, patch) /\ request' = others /\ UNCHANGED <<minted, spent>>
  <2>1. Fits(patch)
    BY DisablePatch
  <2>2. "role" \notin DOMAIN patch
    OBVIOUS
  <2> HIDE DEF patch
  <2>3. Grows /\ \A e \in Emails \ {mine} : users'[e] = users[e]
    BY <1>1, <1>2, <1>5, <2>1, <2>2, RowWritten
  <2>4. Types /\ Kept /\ request \in [Requests -> RequestState]
    BY <2>3, GrowsKept DEF AccountsInv, Types
  <2>5. ASSUME NEW q \in Requests \ {r}
        PROVE  request'[q] \in RequestState /\ Sound(q)'
    <3> DEFINE armed == request[q].armed /\ request[q].email # mine
    <3>1. request[q] \in RequestState /\ request'[q] = [request[q] EXCEPT !.armed = armed]
      BY <1>5, <2>4, <2>5
    <3>2. armed \in BOOLEAN /\ (armed => request[q].armed /\ request[q].email # mine)
      OBVIOUS
    <3> HIDE DEF armed
    <3>3. request'[q] \in RequestState /\ request'[q].armed = armed
      BY <3>1, <3>2 DEF RequestState
    <3>4. \A f \in {"op", "email", "pc", "input", "row", "first", "late"} :
            request'[q][f] = request[q][f]
      BY <3>1 DEF RequestState
    <3>5. request[q].pc # 0 /\ armed => request[q].armed /\ users'[request[q].email].mfa_enabled
      BY <2>3, <2>5, <3>2 DEF AccountsInv, Sound, Placed, Informed
    <3>6. Resting(q)
      BY <3>3, <3>4, <3>5 DEF Resting
    <3> QED
      BY <2>4, <2>5, <3>3, <3>6, RestingSound DEF AccountsInv
  <2>6. request'[r] = NoRequest
    BY <1>5
  <2>7. request' \in [Requests -> RequestState]
    <3>1. \A q \in Requests : request'[q] \in RequestState
      BY <2>5, <2>6, NoRequestTyped
    <3> QED
      BY <1>5, <3>1
  <2>8. \A q \in Requests : Sound(q)'
    BY <2>4, <2>5, <2>6, RepliedSound
  <2>9. Types' /\ Accounts' /\ SomeAdmin'
    BY <2>3, <2>4, <2>7 DEF Grows, Types, Accounts
  <2> QED
    BY <2>8, <2>9 DEF AccountsInv
<1> QED
  BY <1>3, <1>4, <1>5 DEF DisableMfa

LEMMA RegenerateKeepsInv ==
  ASSUME AccountsInv, NEW r \in Requests, RegenerateCodes(r)
  PROVE  AccountsInv'
<1> DEFINE step == "regenerateCodes"
           patch == [mfa_recovery_codes_enc |-> CodeSet(minted + 1),
                     mfa_failed_count |-> 0, mfa_locked_until |-> "none"]
<1>1. At(r, step) /\ step \in OnRow /\ step \notin Gates /\ UNCHANGED <<port, tokens, signedIn, challenged>>
  BY DEF RegenerateCodes, Gates, OnRow
<1>2. CASE MfaFailure(r)
  BY <1>1, <1>2, MfaFailureKeepsInv
<1>3. CASE Write(r, patch) /\ Proceed(r, request[r]) /\ minted' = minted + 1 /\ UNCHANGED spent
  <2>1. request[r].email \in Registered /\ minted \in Nat /\ spent \subseteq Codes
    BY <1>1, OnRowReady
  <2>2. minted + 1 \in Nat
    BY <2>1
  <2>3. Fits(patch)
    BY <2>2, NewCodes, CodesPatch
  <2>4. "role" \notin DOMAIN patch /\ "mfa_enabled" \notin DOMAIN patch
    OBVIOUS
  <2> HIDE DEF patch
  <2>5. Grows /\ Armed
    BY <1>1, <1>3, <2>1, <2>2, <2>3, <2>4, RowWritten
  <2> QED
    BY <1>1, <1>3, <2>5, WentOn DEF Reads
<1> QED
  BY <1>2, <1>3 DEF RegenerateCodes

LEMMA ChangePasswordKeepsInv ==
  ASSUME AccountsInv, NEW r \in Requests, ChangePassword(r)
  PROVE  AccountsInv'
<1> DEFINE step == "changePassword"
           patch == [password_hash |-> minted + 1]
<1>1. /\ At(r, step) /\ step \in OnRow /\ step \notin Gates
      /\ UNCHANGED <<port, tokens, signedIn, challenged, spent>>
  BY DEF ChangePassword, Gates, OnRow
<1>2. CASE Reply(r) /\ UNCHANGED <<users, minted>>
  BY <1>1, <1>2, TablesSame, Replied
<1>3. CASE Write(r, patch) /\ Proceed(r, request[r]) /\ minted' = minted + 1
  <2>1. request[r].email \in Registered /\ minted \in Nat /\ spent \subseteq Codes
    BY <1>1, OnRowReady
  <2>2. minted + 1 \in Nat
    BY <2>1
  <2>3. Fits(patch)
    BY <2>2, ColumnPatches
  <2>4. "role" \notin DOMAIN patch /\ "mfa_enabled" \notin DOMAIN patch
    OBVIOUS
  <2> HIDE DEF patch
  <2>5. Grows /\ Armed
    BY <1>1, <1>3, <2>1, <2>2, <2>3, <2>4, RowWritten
  <2> QED
    BY <1>1, <1>3, <2>5, WentOn DEF Reads
<1> QED
  BY <1>2, <1>3 DEF ChangePassword

-----------------------------------------------------------------------------
(* Links *)

LEMMA MintKeepsInv ==
  ASSUME AccountsInv, NEW r \in Requests, MintReset(r) \/ MintVerification(r)
  PROVE  AccountsInv'
<1>1. PICK step \in {"mintReset", "mintVerification"},
           kind \in {"password_reset", "email_verify"} : Mint(r, step, kind)
  BY DEF MintReset, MintVerification
<1>2. PICK t \in TokenIds : /\ tokens[t] = NoToken
                            /\ tokens' = [tokens EXCEPT ![t] = MailedToken(request[r].email, kind)]
  BY <1>1 DEF Mint
<1>3. /\ At(r, step) /\ Proceed(r, request[r])
      /\ UNCHANGED <<port, users, signedIn, challenged, minted, spent>>
  BY <1>1 DEF Mint
<1>4. request[r].email \in Emails
  BY <1>3 DEF AccountsInv, At, Sound, Placed
<1> DEFINE new == MailedToken(request[r].email, kind)
<1>5. new \in TokenRow /\ new.email \in Emails
  BY <1>4 DEF MailedToken, TokenRow
<1> HIDE DEF new
<1>6. ~tokens[t].consumed
  <2>1. NoToken.consumed = FALSE
    BY DEF NoToken
  <2> QED
    BY <1>2, <2>1
<1>7. tokens \in [TokenIds -> TokenRow] /\ tokens' = [tokens EXCEPT ![t] = new]
  BY <1>2 DEF AccountsInv, Types, new
<1>8. tokens' \in [TokenIds -> TokenRow]
  BY <1>5, <1>7
<1>9. \A u \in TokenIds : /\ tokens[u].consumed => tokens'[u].consumed
                          /\ tokens'[u].kind # "none" => tokens'[u].email \in Emails
  BY <1>5, <1>6, <1>7 DEF AccountsInv, Accounts
<1>10. Registered' = Registered /\ (SomeAdmin' <=> SomeAdmin)
  BY <1>3 DEF Registered, SomeAdmin
<1>11. Grows /\ Armed
  BY <1>3, <1>8, <1>9, <1>10 DEF AccountsInv, Types, Accounts, Grows, Armed
<1> QED
  BY <1>3, <1>11, WentOn DEF Reads, Gates

\* A request that comes to look at a link has one.
LEMMA LinkHeld ==
  ASSUME AccountsInv, NEW r \in Requests, NEW step \in {"findToken"} \cup Redeeming, At(r, step)
  PROVE  /\ request[r].input.token \in TokenIds /\ request[r].email \in Emails
         /\ request[r].late => tokens[request[r].input.token].consumed
<1>1. request[r].pc # 0 /\ Program(r)[request[r].pc] = step
  BY DEF At
<1>2. Types /\ Placed(r) /\ Linked(r)
  BY <1>1 DEF AccountsInv, Sound
<1>3. request[r].op \in {"resetPassword", "verifyEmail"}
  BY <1>1, <1>2, ProgramShape DEF Placed
<1> QED
  BY <1>2, <1>3 DEF Linked, Placed

LEMMA FindTokenKeepsInv ==
  ASSUME AccountsInv, NEW r \in Requests, FindToken(r)
  PROVE  AccountsInv'
<1>1. Grows /\ Armed /\ At(r, "findToken")
  BY TablesSame DEF FindToken
<1>2. CASE Reply(r)
  BY <1>1, <1>2, Replied
<1>3. CASE ~tokens[request[r].input.token].consumed /\ Proceed(r, request[r])
  <2>1. ~request[r].late
    BY <1>1, <1>3, LinkHeld
  <2> QED
    BY <1>1, <1>3, <2>1, WentOn DEF Reads, Gates
<1> QED
  BY <1>2, <1>3 DEF FindToken

\* Steps that touch neither roles nor MFA, and take no token back.
LEMMA Touched ==
  ASSUME AccountsInv, UNCHANGED <<port, signedIn, challenged, spent>>, minted' \in Nat,
         users' \in [Emails -> UserRow], tokens' \in [TokenIds -> TokenRow],
         \A e \in Emails : users'[e].role = users[e].role /\ users'[e].mfa_enabled = users[e].mfa_enabled,
         \A t \in TokenIds : /\ tokens[t].consumed => tokens'[t].consumed
                             /\ tokens'[t].kind = tokens[t].kind /\ tokens'[t].email = tokens[t].email
  PROVE  Grows /\ Armed
<1>1. Types /\ Accounts /\ SomeAdmin
  BY DEF AccountsInv
<1>2. Registered' = Registered /\ SomeAdmin'
  BY <1>1 DEF Registered, SomeAdmin
<1> QED
  BY <1>1, <1>2 DEF Types, Accounts, Grows, Armed

LEMMA RedeemGrows ==
  ASSUME AccountsInv, NEW r \in Requests, NEW step \in Redeeming, At(r, step), Redeem(r),
         UNCHANGED <<port, signedIn, challenged, spent>>
  PROVE  Grows /\ Armed
<1> DEFINE t == request[r].input.token
           mine == request[r].email
           used == tokens[t].consumed \/ tokens[t].state # "deleted"
<1>1. /\ t \in TokenIds /\ mine \in Emails /\ minted \in Nat
      /\ users \in [Emails -> UserRow] /\ tokens \in [TokenIds -> TokenRow]
  BY LinkHeld DEF AccountsInv, Types
<1>2. users[mine] \in UserRow /\ tokens[t] \in TokenRow /\ minted + 1 \in Nat
  BY <1>1
<1>3. /\ \/ users' = [users EXCEPT ![mine] = [users[mine] EXCEPT !.password_hash = minted + 1]]
            /\ minted' = minted + 1
         \/ users' = [users EXCEPT ![mine] = [users[mine] EXCEPT !.email_verified = TRUE]]
            /\ minted' = minted
      /\ tokens' = [tokens EXCEPT ![t] = [tokens[t] EXCEPT !.consumed = used]]
  BY DEF Redeem
<1>4. used \in BOOLEAN /\ (tokens[t].consumed => used)
  OBVIOUS
<1> HIDE DEF used
<1>5. PICK row \in UserRow : /\ users' = [users EXCEPT ![mine] = row]
                             /\ row.role = users[mine].role
                             /\ row.mfa_enabled = users[mine].mfa_enabled
  <2>1. ASSUME NEW n \in Nat, NEW b \in BOOLEAN
        PROVE  /\ [users[mine] EXCEPT !.password_hash = n] \in UserRow
               /\ [users[mine] EXCEPT !.password_hash = n].role = users[mine].role
               /\ [users[mine] EXCEPT !.password_hash = n].mfa_enabled = users[mine].mfa_enabled
               /\ [users[mine] EXCEPT !.email_verified = b] \in UserRow
               /\ [users[mine] EXCEPT !.email_verified = b].role = users[mine].role
               /\ [users[mine] EXCEPT !.email_verified = b].mfa_enabled = users[mine].mfa_enabled
    BY <1>2 DEF UserRow
  <2>2. CASE users' = [users EXCEPT ![mine] = [users[mine] EXCEPT !.password_hash = minted + 1]]
    BY <1>2, <2>1, <2>2
  <2>3. CASE users' = [users EXCEPT ![mine] = [users[mine] EXCEPT !.email_verified = TRUE]]
    BY <2>1, <2>3
  <2> QED
    BY <1>3, <2>2, <2>3
<1>6. /\ users' \in [Emails -> UserRow]
      /\ \A e \in Emails : users'[e].role = users[e].role /\ users'[e].mfa_enabled = users[e].mfa_enabled
  BY <1>1, <1>5
<1> DEFINE token == [tokens[t] EXCEPT !.consumed = used]
<1>7. /\ token \in TokenRow /\ token.consumed = used
      /\ token.kind = tokens[t].kind /\ token.email = tokens[t].email
  BY <1>2, <1>4 DEF TokenRow
<1>8. tokens' = [tokens EXCEPT ![t] = token]
  BY <1>3
<1> HIDE DEF token
<1>9. /\ tokens' \in [TokenIds -> TokenRow]
      /\ \A u \in TokenIds : /\ tokens[u].consumed => tokens'[u].consumed
                             /\ tokens'[u].kind = tokens[u].kind /\ tokens'[u].email = tokens[u].email
  BY <1>1, <1>4, <1>7, <1>8
<1>10. minted' \in Nat
  BY <1>2, <1>1, <1>3
<1> QED
  BY <1>6, <1>9, <1>10, Touched

LEMMA RedeemKeepsInv ==
  ASSUME AccountsInv, NEW r \in Requests, RedeemOrRollback(r) \/ RedeemMatching(r)
  PROVE  AccountsInv'
<1>1. PICK step \in Redeeming : At(r, step)
  BY DEF RedeemOrRollback, RedeemMatching, Redeeming
<1>2. Proceed(r, request[r]) /\ UNCHANGED <<port, signedIn, challenged, spent>>
  BY DEF RedeemOrRollback, RedeemMatching
<1>3. Grows /\ Armed
  <2>1. CASE Redeem(r)
    BY <1>1, <1>2, <2>1, RedeemGrows
  <2>2. CASE UNCHANGED <<users, tokens, minted>>
    BY <1>2, <2>2, TablesSame
  <2> QED
    BY <2>1, <2>2 DEF RedeemOrRollback, RedeemMatching
<1> QED
  BY <1>1, <1>2, <1>3, WentOn DEF Reads, Gates, Redeeming

-----------------------------------------------------------------------------
(* New requests *)

LEMMA CallKeepsInv ==
  ASSUME AccountsInv, NEW r \in Requests, NEW op \in AuthOps, NEW e \in Emails,
         NEW input \in Input, NEW cost, NEW late \in BOOLEAN,
         op \in {"resetPassword", "verifyEmail"} =>
           input.token \in TokenIds /\ (late => tokens[input.token].consumed),
         Call(r, op, e, input, cost, late)
  PROVE  AccountsInv'
<1> DEFINE armed == users[e].mfa_enabled
           new == [NoRequest EXCEPT !.op = op, !.email = e, !.pc = 1, !.input = input,
                                    !.late = late, !.armed = armed]
           program == Behaviour[port].auth[op]
<1>1. Grows /\ Armed
  BY TablesSame DEF Call
<1>2. /\ Types /\ port \in Ports /\ port' = port /\ users' = users /\ tokens' = tokens
      /\ users[e] \in UserRow /\ request \in [Requests -> RequestState]
      /\ request' = [request EXCEPT ![r] = new]
  BY DEF AccountsInv, Types, Call
<1>3. armed \in BOOLEAN
  BY <1>2 DEF UserRow
<1>4. /\ new \in RequestState /\ new.op = op /\ new.email = e /\ new.pc = 1 /\ new.input = input
      /\ new.late = late /\ new.armed = armed /\ new.row = NoUser
  <2> HIDE DEF armed
  <2>1. NoRequest \in RequestState /\ NoRequest.row = NoUser
    BY NoRequestTyped, NoRequestAtRest
  <2>2. new \in RequestState
    BY <1>3, <2>1 DEF RequestState
  <2>3. /\ new.op = op /\ new.email = e /\ new.pc = 1 /\ new.input = input
        /\ new.late = late /\ new.armed = armed /\ new.row = NoRequest.row
    BY <2>1 DEF RequestState
  <2> QED
    BY <2>1, <2>2, <2>3
<1> HIDE DEF new
<1>5. /\ request' \in [Requests -> RequestState] /\ request'[r] = new
      /\ \A q \in Requests \ {r} : request'[q] = request[q]
  BY <1>2, <1>4
<1>6. Program(r)' = program
  BY <1>2, <1>4, <1>5 DEF Program
<1>7. /\ program \in Seq(STRING) /\ program # <<>>
      /\ op \notin Anonymous => program[1] \in Reads
      /\ Within(program, {"openSession"}, op = "signup" \/ op \notin Anonymous)
      /\ Preceded(program, "insertUser", {"countUsers"})
      /\ \A step \in Redeeming : Preceded(program, step, {"findToken"})
      /\ op = "signup" => Preceded(program, "openSession", {"insertUser"})
  BY <1>2, ProgramsAssumption
<1> HIDE DEF program
<1>8. 1 \in 1..Len(program)
  BY <1>7
<1>9. /\ program[1] # "insertUser" /\ program[1] # "openSession"
      /\ \A step \in Redeeming : program[1] # step
  BY <1>7, <1>8 DEF Within, Preceded, Reads
<1>10. Placed(r)'
  BY <1>4, <1>5, <1>6, <1>8 DEF Placed
<1>11. Linked(r)'
  BY <1>2, <1>4, <1>5 DEF Linked
<1>12. Informed(r)'
  <2>1. NoUser.role = "none"
    BY DEF NoUser
  <2> QED
    BY <1>2, <1>4, <1>5, <2>1 DEF Informed
<1>13. Entitled(r)'
  BY <1>4, <1>5, <1>6, <1>9 DEF Entitled, At
<1>14. Sound(r)'
  BY <1>10, <1>11, <1>12, <1>13 DEF Sound
<1> QED
  BY <1>1, <1>5, <1>14, Settled

\* What clients send.
LEMMA InputTyped ==
  /\ NoInput \in Input
  /\ \A p, n \in Nat : Password(p) \in Input /\ Totp(p, n) \in Input
  /\ \A p \in Nat, c \in Codes : Recovery(p, c) \in Input
  /\ \A t \in TokenIds : [NoInput EXCEPT !.token = t] \in Input /\ [NoInput EXCEPT !.token = t].token = t
<1>1. NoInput \in Input
  BY NoRequestTyped
<1>2. \A p \in Nat : Password(p) \in Input
  BY <1>1 DEF Input, Password
<1>3. \A p, n \in Nat : Totp(p, n) \in Input
  BY <1>2 DEF Input, Totp
<1>4. \A p \in Nat, c \in Codes : Recovery(p, c) \in Input
  <2>1. ASSUME NEW guess \in Input, NEW c \in Codes \cup {<<0, 0>>}, NEW b \in BOOLEAN
        PROVE  [guess EXCEPT !.recovery = b, !.code = c] \in Input
    BY DEF Input
  <2> TAKE p \in Nat, c \in Codes
  <2>2. Password(p) \in Input /\ c \in Codes \cup {<<0, 0>>} /\ TRUE \in BOOLEAN
    BY <1>2
  <2>3. Recovery(p, c) = [Password(p) EXCEPT !.recovery = TRUE, !.code = c]
    BY DEF Recovery
  <2> QED
    BY <2>1, <2>2, <2>3
<1>5. \A t \in TokenIds : [NoInput EXCEPT !.token = t] \in Input /\ [NoInput EXCEPT !.token = t].token = t
  BY <1>1 DEF Input
<1> QED
  BY <1>1, <1>2, <1>3, <1>4, <1>5

LEMMA ArriveKeepsInv ==
  ASSUME AccountsInv, NEW r \in Requests, Arrive(r)
  PROVE  AccountsInv'
<1> DEFINE user == AuthOps \ {"resetPassword", "verifyEmail"}
<1>1. ASSUME NEW op \in user, NEW e \in Emails, NEW input \in Input, NEW cost, NEW late \in BOOLEAN,
             Call(r, op, e, input, cost, late)
      PROVE  AccountsInv'
  BY <1>1, CallKeepsInv
<1>2. ASSUME NEW e \in Emails
      PROVE  /\ users[e].password_hash \in Nat /\ users[e].mfa_secret_enc \in Nat
             /\ users[e].mfa_recovery_codes_enc \cup spent \subseteq Codes
  BY DEF AccountsInv, Types, UserRow
<1>3. ASSUME NEW e \in Emails, CallSignup(r, e)
      PROVE  AccountsInv'
  BY <1>1, <1>3, InputTyped DEF CallSignup, AuthOps
<1>4. ASSUME NEW e \in Emails, CallLogin(r, e)
      PROVE  AccountsInv'
  BY <1>1, <1>2, <1>4, InputTyped DEF CallLogin, AuthOps
<1>5. ASSUME NEW e \in Emails, CallChallenge(r, e)
      PROVE  AccountsInv'
  <2>1. CASE \E n \in {users[e].mfa_secret_enc, 0} :
               Call(r, "verifyChallenge", e, Totp(0, n), Cost(n), FALSE)
    BY <1>1, <1>2, <2>1, InputTyped DEF AuthOps
  <2>2. CASE \E c \in users[e].mfa_recovery_codes_enc \cup spent :
               Call(r, "verifyChallenge", e, Recovery(0, c), 2, c \in spent)
    <3>1. PICK c \in users[e].mfa_recovery_codes_enc \cup spent :
                 Call(r, "verifyChallenge", e, Recovery(0, c), 2, c \in spent)
      BY <2>2
    <3>2. Recovery(0, c) \in Input /\ (c \in spent) \in BOOLEAN /\ "verifyChallenge" \in user
      BY <1>2, InputTyped DEF AuthOps
    <3> QED
      BY <1>1, <3>1, <3>2
  <2> QED
    BY <1>5, <2>1, <2>2 DEF CallChallenge
<1>6. ASSUME NEW e \in Emails, CallAsUser(r, e)
      PROVE  AccountsInv'
  <2>1. CASE \E op \in {"enroll", "logout", "sessions", "me"} : Call(r, op, e, NoInput, 2, FALSE)
    BY <1>1, <2>1, InputTyped DEF AuthOps
  <2>2. CASE \E n \in {users[e].mfa_secret_enc, 0} :
               \/ Call(r, "enrollVerify", e, Totp(0, n), Cost(n), FALSE)
               \/ Call(r, "regenerate", e, Totp(0, n), Cost(n), FALSE)
               \/ Call(r, "disable", e, Totp(users[e].password_hash, n), Cost(n), FALSE)
    BY <1>1, <1>2, <2>2, InputTyped DEF AuthOps
  <2>3. CASE \E c \in users[e].mfa_recovery_codes_enc \cup spent :
               Call(r, "disable", e, Recovery(users[e].password_hash, c), 2, FALSE)
    <3>1. PICK c \in users[e].mfa_recovery_codes_enc \cup spent :
                 Call(r, "disable", e, Recovery(users[e].password_hash, c), 2, FALSE)
      BY <2>3
    <3>2. Recovery(users[e].password_hash, c) \in Input /\ "disable" \in user
      BY <1>2, InputTyped DEF AuthOps
    <3> QED
      BY <1>1, <3>1, <3>2
  <2>4. CASE \E p \in {users[e].password_hash, 0} :
               Call(r, "changePassword", e, Password(p), Cost(p), FALSE)
    BY <1>1, <1>2, <2>4, InputTyped DEF AuthOps
  <2> QED
    BY <1>6, <2>1, <2>2, <2>3, <2>4 DEF CallAsUser
<1>7. ASSUME NEW e \in Emails, CallByEmail(r, e)
      PROVE  AccountsInv'
  BY <1>1, <1>7, InputTyped DEF CallByEmail, AuthOps
<1>8. ASSUME NEW t \in TokenIds, CallWithToken(r, t)
      PROVE  AccountsInv'
  <2> DEFINE op == IF tokens[t].kind = "password_reset" THEN "resetPassword" ELSE "verifyEmail"
             input == [NoInput EXCEPT !.token = t]
  <2>1. tokens[t].email \in Emails /\ Call(r, op, tokens[t].email, input, 2, tokens[t].consumed)
    BY <1>8 DEF CallWithToken, AccountsInv, Accounts
  <2>2. tokens[t].consumed \in BOOLEAN
    BY DEF AccountsInv, Types, TokenRow
  <2>3. input \in Input /\ input.token = t
    BY InputTyped
  <2>4. op \in AuthOps
    BY DEF AuthOps
  <2> HIDE DEF op, input
  <2> QED
    BY <2>1, <2>2, <2>3, <2>4, CallKeepsInv
<1> QED
  BY <1>3, <1>4, <1>5, <1>6, <1>7, <1>8 DEF Arrive

-----------------------------------------------------------------------------
(* The environment *)

LEMMA Undisturbed ==
  ASSUME AccountsInv, Grows, Armed, request' = request
  PROVE  AccountsInv'
<1>1. \A q \in Requests : Sound(q)'
  BY OthersSound
<1>2. Types' /\ Accounts' /\ SomeAdmin'
  BY DEF AccountsInv, Grows, Types, Accounts
<1> QED
  BY <1>1, <1>2 DEF AccountsInv

LEMMA LocksExpireKeepsInv ==
  ASSUME AccountsInv, NEW e \in Emails, LocksExpire(e)
  PROVE  AccountsInv'
<1>1. PICK c \in {"locked_until", "mfa_locked_until"} :
             users' = [users EXCEPT ![e] = [users[e] EXCEPT ![c] = "past"]]
  BY DEF LocksExpire
<1>2. UNCHANGED <<port, tokens, request, signedIn, challenged, minted, spent>>
  BY DEF LocksExpire
<1>3. users \in [Emails -> UserRow] /\ tokens \in [TokenIds -> TokenRow] /\ minted \in Nat
  BY DEF AccountsInv, Types
<1> DEFINE row == [users[e] EXCEPT ![c] = "past"]
<1>4. row \in UserRow /\ row.role = users[e].role /\ row.mfa_enabled = users[e].mfa_enabled
  <2>1. users[e] \in UserRow
    BY <1>3
  <2>2. CASE c = "locked_until"
    BY <2>1, <2>2 DEF UserRow, Locks
  <2>3. CASE c = "mfa_locked_until"
    BY <2>1, <2>3 DEF UserRow, Locks
  <2> QED
    BY <2>2, <2>3
<1>5. users' = [users EXCEPT ![e] = row]
  BY <1>1
<1> HIDE DEF row
<1>6. /\ users' \in [Emails -> UserRow]
      /\ \A f \in Emails : users'[f].role = users[f].role /\ users'[f].mfa_enabled = users[f].mfa_enabled
  BY <1>3, <1>4, <1>5
<1>7. Grows /\ Armed
  BY <1>2, <1>3, <1>6, Touched
<1> QED
  BY <1>2, <1>7, Undisturbed

LEMMA TokensAgeKeepsInv ==
  ASSUME AccountsInv, CleanupTokens \/ \E t \in TokenIds : TokenExpires(t)
  PROVE  AccountsInv'
<1>1. /\ tokens \in [TokenIds -> TokenRow] /\ users \in [Emails -> UserRow] /\ minted \in Nat
      /\ UNCHANGED <<port, users, request, signedIn, challenged, minted, spent>>
  BY DEF AccountsInv, Types, CleanupTokens, TokenExpires
<1>2. ASSUME NEW token \in TokenRow, NEW state \in {"absent", "live", "expired", "deleted"}
      PROVE  /\ [token EXCEPT !.state = state] \in TokenRow
             /\ [token EXCEPT !.state = state].consumed = token.consumed
             /\ [token EXCEPT !.state = state].kind = token.kind
             /\ [token EXCEPT !.state = state].email = token.email
  BY DEF TokenRow
<1>3. ASSUME NEW u \in TokenIds
      PROVE  \E state \in {"absent", "live", "expired", "deleted"} :
               tokens'[u] = [tokens[u] EXCEPT !.state = state]
  <2>1. tokens[u] \in TokenRow
    BY <1>1
  <2>2. /\ tokens[u].state \in {"absent", "live", "expired", "deleted"}
        /\ tokens[u] = [tokens[u] EXCEPT !.state = tokens[u].state]
    BY <2>1 DEF TokenRow
  <2>3. CASE CleanupTokens
    BY <2>2, <2>3 DEF CleanupTokens
  <2>4. CASE \E t \in TokenIds : TokenExpires(t)
    BY <1>1, <2>2, <2>4 DEF TokenExpires
  <2> QED
    BY <2>3, <2>4
<1>4. DOMAIN tokens' = TokenIds /\ tokens' = [u \in TokenIds |-> tokens'[u]]
  BY <1>1 DEF CleanupTokens, TokenExpires
<1>5. \A u \in TokenIds : /\ tokens'[u] \in TokenRow /\ tokens'[u].consumed = tokens[u].consumed
                          /\ tokens'[u].kind = tokens[u].kind /\ tokens'[u].email = tokens[u].email
  <2> TAKE u \in TokenIds
  <2>1. tokens[u] \in TokenRow
    BY <1>1
  <2>2. PICK state \in {"absent", "live", "expired", "deleted"} :
               tokens'[u] = [tokens[u] EXCEPT !.state = state]
    BY <1>3
  <2> DEFINE aged == [tokens[u] EXCEPT !.state = state]
  <2>3. /\ aged \in TokenRow /\ aged.consumed = tokens[u].consumed
        /\ aged.kind = tokens[u].kind /\ aged.email = tokens[u].email
    BY <1>2, <2>1, Zenon
  <2>4. tokens'[u] = aged
    BY <2>2
  <2> QED
    BY <2>3, <2>4, Zenon
<1>6. tokens' \in [TokenIds -> TokenRow]
  BY <1>4, <1>5
<1>7. Grows /\ Armed
  BY <1>1, <1>5, <1>6, Touched
<1> QED
  BY <1>1, <1>7, Undisturbed

LEMMA CrashKeepsInv ==
  ASSUME AccountsInv, AccountsCrash
  PROVE  AccountsInv'
<1>1. /\ \A r \in Requests : request'[r] = NoRequest
      /\ request' = [r \in Requests |-> NoRequest]
      /\ UNCHANGED <<port, users, tokens, signedIn, challenged, minted, spent>>
  BY DEF AccountsCrash
<1>2. Grows
  BY <1>1, TablesSame
<1>3. request' \in [Requests -> RequestState]
  BY <1>1, NoRequestTyped
<1>4. \A r \in Requests : Sound(r)'
  BY <1>1, RepliedSound DEF AccountsInv
<1>5. Types' /\ Accounts' /\ SomeAdmin'
  BY <1>2, <1>3 DEF AccountsInv, Grows, Types, Accounts
<1> QED
  BY <1>4, <1>5 DEF AccountsInv

-----------------------------------------------------------------------------
(* The invariant *)

LEMMA HandleKeepsInv ==
  ASSUME AccountsInv, NEW r \in Requests, Handle(r)
  PROVE  AccountsInv'
  BY ReadsKeepInv, SessionRowsKeepsInv, OpenSessionKeepsInv, FindEmailKeepsInv, CountUsersKeepsInv,
     InsertUserKeepsInv, LoginKeepsInv, VerifyFactorKeepsInv, WriteSecretKeepsInv,
     EnableMfaKeepsInv, DisableMfaKeepsInv, RegenerateKeepsInv, ChangePasswordKeepsInv,
     MintKeepsInv, FindTokenKeepsInv, RedeemKeepsInv DEF Handle

LEMMA MemberRows ==
  ASSUME NEW secret \in Nat, NEW enabled \in BOOLEAN
  PROVE  /\ Member(secret, enabled) \in UserRow /\ Member(secret, enabled).role = "admin"
<1> DEFINE codes == IF enabled THEN CodeSet(1) ELSE {}
<1>1. codes \in SUBSET Codes
  BY NewCodes
<1> HIDE DEF codes
<1>2. NoUser \in UserRow
  BY NoRequestTyped
<1> DEFINE m == [NoUser EXCEPT !.role = "admin", !.password_hash = 1, !.mfa_secret_enc = secret,
                               !.mfa_enabled = enabled, !.mfa_recovery_codes_enc = codes]
<1>3. m \in UserRow /\ m.role = "admin"
  BY <1>1, <1>2 DEF UserRow
<1> QED
  BY <1>3 DEF Member, codes

LEMMA InitHasInv == AccountsInit => AccountsInv
<1> SUFFICES ASSUME AccountsInit PROVE AccountsInv
  OBVIOUS
<1>1. NoUser \in UserRow /\ NoUser.role = "none" /\ ~NoUser.mfa_enabled
  BY NoRequestTyped DEF NoUser
<1>2. NoToken \in TokenRow /\ NoToken.kind = "none"
  BY DEF NoToken, TokenRow
<1>3. /\ port \in Ports /\ request \in [Requests -> RequestState] /\ minted \in Nat
      /\ spent \subseteq Codes /\ \A r \in Requests : Sound(r)
  <2>1. \A r \in Requests : request[r].pc = 0
    BY NoRequestAtRest DEF AccountsInit
  <2>2. \A r \in Requests : Sound(r)
    BY <2>1 DEF Sound
  <2>3. request \in [Requests -> RequestState]
    BY NoRequestTyped DEF AccountsInit
  <2> QED
    BY <2>2, <2>3 DEF AccountsInit
<1>4. CASE /\ users = [e \in Emails |-> NoUser] /\ signedIn = {} /\ challenged = {}
           /\ tokens = [t \in TokenIds |-> NoToken]
  <2>1. users \in [Emails -> UserRow] /\ tokens \in [TokenIds -> TokenRow]
    BY <1>1, <1>2, <1>4
  <2>2. Types
    BY <1>3, <2>1 DEF Types
  <2>3. Registered = {} /\ SomeAdmin
    BY <1>1, <1>4 DEF Registered, SomeAdmin
  <2>4. Accounts
    BY <1>1, <1>2, <1>4 DEF Accounts
  <2> QED
    BY <1>3, <2>2, <2>3, <2>4 DEF AccountsInv
<1>5. ASSUME NEW e \in Emails, NEW m \in {Member(0, FALSE), Member(1, FALSE), Member(1, TRUE)},
             NEW kind \in {"password_reset", "email_verify"},
             users = [f \in Emails |-> IF f = e THEN m ELSE NoUser],
             signedIn = {e}, challenged \subseteq {e},
             tokens = [t \in TokenIds |-> IF t = 1 THEN MailedToken(e, kind) ELSE NoToken]
      PROVE  AccountsInv
  <2>1. m \in UserRow /\ m.role = "admin"
    <3>1. PICK n \in Nat, b \in BOOLEAN : m = Member(n, b)
      OBVIOUS
    <3> QED
      BY <3>1, MemberRows
  <2>2. MailedToken(e, kind) \in TokenRow /\ MailedToken(e, kind).email = e
    BY DEF MailedToken, TokenRow
  <2>3. users \in [Emails -> UserRow] /\ tokens \in [TokenIds -> TokenRow]
    BY <1>1, <1>2, <1>5, <2>1, <2>2
  <2>4. Types
    BY <1>3, <2>3 DEF Types
  <2>5. users[e] = m /\ e \in Registered
    BY <1>5, <2>1 DEF Registered
  <2>6. SomeAdmin
    BY <2>1, <2>5 DEF SomeAdmin
  <2>7. Accounts
    BY <1>1, <1>2, <1>5, <2>1, <2>2, <2>5 DEF Accounts
  <2> QED
    BY <1>3, <2>4, <2>6, <2>7 DEF AccountsInv
<1>6. CASE \E e \in Emails, m \in {Member(0, FALSE), Member(1, FALSE), Member(1, TRUE)},
              kind \in {"password_reset", "email_verify"} :
             /\ kind = "email_verify" => m = Member(0, FALSE)
             /\ users = [f \in Emails |-> IF f = e THEN m ELSE NoUser]
             /\ signedIn = {e} /\ challenged = {f \in {e} : m.mfa_enabled}
             /\ tokens = [t \in TokenIds |-> IF t = 1 THEN MailedToken(e, kind) ELSE NoToken]
  BY <1>5, <1>6
<1> QED
  BY <1>4, <1>6 DEF AccountsInit

LEMMA NextKeepsInv == AccountsInv /\ [AccountsNext]_accountVars => AccountsInv'
<1> SUFFICES ASSUME AccountsInv, [AccountsNext]_accountVars PROVE AccountsInv'
  OBVIOUS
<1>1. ASSUME NEW r \in Requests, Arrive(r) \/ Handle(r)
      PROVE  AccountsInv'
  BY <1>1, ArriveKeepsInv, HandleKeepsInv
<1>2. ASSUME NEW e \in Emails, LocksExpire(e)
      PROVE  AccountsInv'
  BY <1>2, LocksExpireKeepsInv
<1>3. CASE CleanupTokens \/ \E t \in TokenIds : TokenExpires(t)
  BY <1>3, TokensAgeKeepsInv
<1>4. CASE AccountsCrash
  BY <1>4, CrashKeepsInv
<1>5. CASE UNCHANGED accountVars
  <2>1. Grows /\ Armed /\ request' = request
    BY <1>5, TablesSame DEF accountVars
  <2> QED
    BY <2>1, Undisturbed
<1> QED
  BY <1>1, <1>2, <1>3, <1>4, <1>5 DEF AccountsNext

LEMMA AccountsInvariant == AccountsSpec => []AccountsInv
  BY InitHasInv, NextKeepsInv, PTL DEF AccountsSpec

\* Type correctness, for any number of accounts and requests: rows, requests
\* and history keep their types, only registered accounts are signed in or
\* challenged, and a request in flight stands at a step of its program.
THEOREM AccountsTyped == AccountsSpec => []AccountsTypeOK
<1>1. AccountsInv => AccountsTypeOK
  BY DEF AccountsInv, AccountsTypeOK, Types, Accounts, Sound, Placed, Busy
<1> QED
  BY <1>1, AccountsInvariant, PTL

\* However many registrations race between the count of the users and the
\* INSERT, a database with users has an administrator.
THEOREM AdminExists == AccountsSpec => []SomeAdmin
<1>1. AccountsInv => SomeAdmin
  BY DEF AccountsInv
<1> QED
  BY <1>1, AccountsInvariant, PTL

\* A login that finds MFA on from its first step to its last is not given a
\* session, whatever other requests write to the row meanwhile and whichever
\* row the port's gate looks at.
THEOREM FactorIsRequired == AccountsSpec => []FactorRequired
<1>1. AccountsInv => FactorRequired
  BY DEF AccountsInv, FactorRequired, Sound, Entitled, At
<1> QED
  BY <1>1, AccountsInvariant, PTL

\* A link that was used before a request arrived does nothing for it, however
\* many requests, expiries and cleanups come in between.
THEOREM UsedLinkIsRefused == AccountsSpec => []UsedLinkRefused
<1>1. AccountsInv => UsedLinkRefused
  BY DEF AccountsInv, UsedLinkRefused, Sound, Entitled, At, Redeeming
<1> QED
  BY <1>1, AccountsInvariant, PTL

-----------------------------------------------------------------------------
(* Locks and passwords *)

\* Passwords are numbered as they are drawn, and only a row can be locked.
LockInv ==
  /\ AccountsInv
  /\ \A e \in Emails :
       /\ users[e].password_hash <= minted
       /\ users[e].role = "none" =>
            users[e].locked_until # "future" /\ users[e].mfa_locked_until # "future"

\* What a handler may do to the rows: draw a password, lock, and lift a lock
\* with the credential that was asked for.
Handled(r) ==
  /\ minted' \in {minted, minted + 1}
  /\ \A e \in Emails :
       /\ users'[e].role = "none" => users[e].role = "none"
       /\ users'[e].password_hash # users[e].password_hash =>
            users'[e].password_hash = minted + 1 /\ minted' = minted + 1
       /\ users'[e].locked_until # users[e].locked_until =>
            /\ users'[e].role # "none"
            /\ users[e].locked_until = "future" => request[r].email = e /\ RightPassword(r)
       /\ users'[e].mfa_locked_until # users[e].mfa_locked_until =>
            /\ users'[e].role # "none"
            /\ users[e].mfa_locked_until = "future" => request[r].email = e /\ RightFactor(r)

LEMMA NothingWritten ==
  ASSUME NEW r \in Requests, UNCHANGED <<users, minted>>
  PROVE  Handled(r)
  BY DEF Handled

LEMMA MergedOther ==
  ASSUME NEW row \in UserRow, NEW patch, NEW cols, NEW c \in DOMAIN row
  PROVE  Merged(row, patch, cols)[c] = IF c \in cols THEN patch[c] ELSE row[c]
  BY DEF Merged

\* An UPDATE by a request that read the row.
LEMMA RowHandled ==
  ASSUME AccountsInv, NEW r \in Requests, request[r].email \in Registered,
         NEW patch, "role" \notin DOMAIN patch, Write(r, patch),
         minted' \in {minted, minted + 1},
         "password_hash" \in DOMAIN patch =>
           patch["password_hash"] = minted + 1 /\ minted' = minted + 1,
         "locked_until" \in DOMAIN patch =>
           patch["locked_until"] = "future" \/ RightPassword(r),
         "mfa_locked_until" \in DOMAIN patch =>
           patch["mfa_locked_until"] = "future" \/ RightFactor(r)
  PROVE  Handled(r)
<1> DEFINE mine == request[r].email
           cols == Written(request[r].row, patch)
           new == Merged(users[mine], patch, cols)
<1>1. /\ mine \in Emails /\ users \in [Emails -> UserRow]
      /\ users[mine] \in UserRow /\ users[mine].role # "none"
  BY DEF AccountsInv, Types, Registered
<1>2. cols \subseteq DOMAIN patch
  BY DEF Written
<1>3. \A c \in {"role", "password_hash", "locked_until", "mfa_locked_until"} :
        new[c] = IF c \in cols THEN patch[c] ELSE users[mine][c]
  BY <1>1, MergedOther DEF UserRow
<1>4. users' = [users EXCEPT ![mine] = new]
  BY DEF Write
<1> HIDE DEF new, cols
<1>5. users'[mine] = new /\ \A e \in Emails \ {mine} : users'[e] = users[e]
  BY <1>1, <1>4
<1>6. /\ new.role = users[mine].role
      /\ new.password_hash # users[mine].password_hash =>
           new.password_hash = minted + 1 /\ minted' = minted + 1
      /\ new.locked_until # users[mine].locked_until =>
           new.locked_until = "future" \/ RightPassword(r)
      /\ new.mfa_locked_until # users[mine].mfa_locked_until =>
           new.mfa_locked_until = "future" \/ RightFactor(r)
  BY <1>2, <1>3
<1> QED
  BY <1>1, <1>5, <1>6 DEF Handled

\* The request that takes a step is in another state afterwards.
LEMMA StepActs ==
  ASSUME AccountsInv, NEW r \in Requests, NEW step, At(r, step),
         Reply(r) \/ Proceed(r, request[r])
  PROVE  request'[r] # request[r]
<1>1. request \in [Requests -> RequestState] /\ request[r] \in RequestState /\ request[r].pc # 0
  BY DEF AccountsInv, Types, At
<1>2. CASE request'[r] = NoRequest
  BY <1>1, <1>2, NoRequestAtRest
<1>3. CASE request'[r] = [request[r] EXCEPT !.pc = @ + 1]
  <2> DEFINE next == request[r].pc + 1
  <2>1. request[r].pc \in Nat
    BY <1>1, Zenon DEF RequestState
  <2>2. next # request[r].pc
    BY <2>1
  <2>3. request'[r] = [request[r] EXCEPT !.pc = next]
    BY <1>3
  <2> HIDE DEF next
  <2>4. request'[r].pc = next
    BY <1>1, <2>3, Zenon DEF RequestState
  <2> QED
    BY <2>2, <2>4
<1> QED
  BY <1>1, <1>2, <1>3 DEF Reply, Proceed

LEMMA InsertUserHandled ==
  ASSUME LockInv, NEW r \in Requests, InsertUser(r)
  PROVE  Handled(r) /\ request'[r] # request[r]
<1> DEFINE e == request[r].email
           new == [NoUser EXCEPT !.role = IF request[r].first THEN "admin" ELSE "user",
                                 !.password_hash = minted + 1]
<1>1. At(r, "insertUser") /\ users \in [Emails -> UserRow]
  BY DEF InsertUser, LockInv, AccountsInv, Types
<1>2. e \in Emails
  BY <1>1 DEF LockInv, AccountsInv, Sound, Placed, At
<1>3. CASE /\ e \notin Registered /\ users' = [users EXCEPT ![e] = new]
           /\ minted' = minted + 1 /\ Proceed(r, request[r])
  <2>1. new.role # "none" /\ new.password_hash = minted + 1
    BY DEF NoUser
  <2>2. users'[e] = new /\ \A f \in Emails \ {e} : users'[f] = users[f]
    BY <1>1, <1>2, <1>3
  <2>3. users[e].locked_until # "future" /\ users[e].mfa_locked_until # "future"
    BY <1>2, <1>3 DEF LockInv, Registered
  <2>4. Handled(r)
    BY <1>3, <2>1, <2>2, <2>3 DEF Handled
  <2> QED
    BY <1>1, <1>3, <2>4, StepActs DEF LockInv
<1>4. CASE Reply(r) /\ UNCHANGED <<users, minted>>
  BY <1>1, <1>4, NothingWritten, StepActs DEF LockInv
<1> QED
  BY <1>3, <1>4 DEF InsertUser

\* A wrong password writes a count, and a lock at the limit.
LEMMA LoginFailureHandled ==
  ASSUME AccountsInv, NEW r \in Requests, request[r].email \in Registered, LoginFailure(r)
  PROVE  Handled(r) /\ Reply(r)
<1> DEFINE n == request[r].row.failed_login_count + 1
           locking == [failed_login_count |-> n, locked_until |-> "future"]
           counting == [failed_login_count |-> n]
<1>1. /\ Write(r, locking) \/ Write(r, counting)
      /\ minted' = minted /\ Reply(r)
  BY DEF LoginFailure
<1>2. /\ DOMAIN locking = {"failed_login_count", "locked_until"}
      /\ locking["locked_until"] = "future" /\ DOMAIN counting = {"failed_login_count"}
  OBVIOUS
<1> HIDE DEF locking, counting
<1>3. CASE Write(r, locking)
  BY <1>1, <1>2, <1>3, RowHandled
<1>4. CASE Write(r, counting)
  BY <1>1, <1>2, <1>4, RowHandled
<1> QED
  BY <1>1, <1>3, <1>4

LEMMA LoginSuccessHandled ==
  ASSUME AccountsInv, NEW r \in Requests, request[r].email \in Registered,
         RightPassword(r), LoginSuccess(r)
  PROVE  Handled(r)
<1> DEFINE patch == [failed_login_count |-> 0, locked_until |-> "none"]
<1>1. Write(r, patch) /\ minted' = minted
  BY DEF LoginSuccess
<1>2. DOMAIN patch = {"failed_login_count", "locked_until"}
  OBVIOUS
<1> HIDE DEF patch
<1> QED
  BY <1>1, <1>2, RowHandled

LEMMA LoginHandled ==
  ASSUME AccountsInv, NEW r \in Requests,
         VerifyPasswordReturning(r) \/ VerifyPasswordSaved(r) \/ VerifyPassword(r)
  PROVE  Handled(r) /\ request'[r] # request[r]
<1>1. PICK step \in OnRow : At(r, step)
  BY DEF VerifyPasswordReturning, VerifyPasswordSaved, VerifyPassword, OnRow, Gates
<1>2. request[r].email \in Registered
  BY <1>1, OnRowReady
<1>3. CASE LoginFailure(r)
  BY <1>1, <1>2, <1>3, LoginFailureHandled, StepActs
<1>4. CASE RightPassword(r) /\ LoginSuccess(r) /\ (Reply(r) \/ Proceed(r, request[r]))
  BY <1>1, <1>2, <1>4, LoginSuccessHandled, StepActs
<1> QED
  BY <1>3, <1>4 DEF VerifyPasswordReturning, VerifyPasswordSaved, VerifyPassword, MfaGate

LEMMA MfaFailureHandled ==
  ASSUME AccountsInv, NEW r \in Requests, request[r].email \in Registered, MfaFailure(r)
  PROVE  Handled(r) /\ Reply(r)
<1> DEFINE n == request[r].row.mfa_failed_count + 1
           locking == [mfa_failed_count |-> n, mfa_locked_until |-> "future"]
           counting == [mfa_failed_count |-> n]
<1>1. /\ Write(r, locking) \/ Write(r, counting)
      /\ minted' = minted /\ Reply(r)
  BY DEF MfaFailure
<1>2. /\ DOMAIN locking = {"mfa_failed_count", "mfa_locked_until"}
      /\ locking["mfa_locked_until"] = "future" /\ DOMAIN counting = {"mfa_failed_count"}
  OBVIOUS
<1> HIDE DEF locking, counting
<1>3. CASE Write(r, locking)
  BY <1>1, <1>2, <1>3, RowHandled
<1>4. CASE Write(r, counting)
  BY <1>1, <1>2, <1>4, RowHandled
<1> QED
  BY <1>1, <1>3, <1>4

\* A right code lifts the lock, with whatever else the endpoint writes.
LEMMA MfaSuccessHandled ==
  ASSUME AccountsInv, NEW r \in Requests, request[r].email \in Registered, RightFactor(r),
         NEW patch, Write(r, patch), minted' \in {minted, minted + 1},
         DOMAIN patch \subseteq {"mfa_enabled", "mfa_secret_enc", "mfa_recovery_codes_enc",
                                 "mfa_failed_count", "mfa_locked_until"}
  PROVE  Handled(r)
<1>1. "role" \notin DOMAIN patch /\ "password_hash" \notin DOMAIN patch /\ "locked_until" \notin DOMAIN patch
  OBVIOUS
<1> QED
  BY <1>1, RowHandled

LEMMA VerifyFactorHandled ==
  ASSUME AccountsInv, NEW r \in Requests, VerifyFactor(r)
  PROVE  Handled(r) /\ request'[r] # request[r]
<1> DEFINE left == request[r].row.mfa_recovery_codes_enc \ {request[r].input.code}
           recovered == [mfa_recovery_codes_enc |-> left, mfa_failed_count |-> 0,
                         mfa_locked_until |-> "none"]
           verified == [mfa_failed_count |-> 0, mfa_locked_until |-> "none"]
<1>1. At(r, "verifyFactor") /\ request[r].email \in Registered
  BY OnRowReady DEF VerifyFactor, OnRow
<1>2. CASE MfaFailure(r)
  BY <1>1, <1>2, MfaFailureHandled, StepActs
<1>3. CASE /\ RightFactor(r) /\ Proceed(r, request[r]) /\ minted' = minted
           /\ Write(r, recovered) \/ Write(r, verified)
  <2>1. /\ DOMAIN recovered = {"mfa_recovery_codes_enc", "mfa_failed_count", "mfa_locked_until"}
        /\ DOMAIN verified = {"mfa_failed_count", "mfa_locked_until"}
    OBVIOUS
  <2> HIDE DEF recovered, verified
  <2>2. Handled(r)
    BY <1>1, <1>3, <2>1, MfaSuccessHandled
  <2> QED
    BY <1>1, <1>3, <2>2, StepActs
<1> QED
  BY <1>2, <1>3 DEF VerifyFactor

LEMMA EnrollmentHandled ==
  ASSUME AccountsInv, NEW r \in Requests, WriteSecret(r) \/ EnableMfa(r) \/ RegenerateCodes(r)
  PROVE  Handled(r) /\ request'[r] # request[r]
<1> DEFINE secret == [mfa_secret_enc |-> minted + 1]
           enabled == [mfa_enabled |-> TRUE, mfa_recovery_codes_enc |-> CodeSet(minted + 1),
                       mfa_failed_count |-> 0, mfa_locked_until |-> "none"]
           codes == [mfa_recovery_codes_enc |-> CodeSet(minted + 1),
                     mfa_failed_count |-> 0, mfa_locked_until |-> "none"]
<1>1. PICK step \in OnRow : At(r, step)
  BY DEF WriteSecret, EnableMfa, RegenerateCodes, OnRow
<1>2. request[r].email \in Registered
  BY <1>1, OnRowReady
<1>3. /\ DOMAIN secret = {"mfa_secret_enc"}
      /\ DOMAIN enabled = {"mfa_enabled", "mfa_recovery_codes_enc", "mfa_failed_count", "mfa_locked_until"}
      /\ DOMAIN codes = {"mfa_recovery_codes_enc", "mfa_failed_count", "mfa_locked_until"}
  OBVIOUS
<1>4. CASE WriteSecret(r)
  <2>1. Write(r, secret) /\ minted' = minted + 1 /\ Proceed(r, request[r])
    BY <1>4 DEF WriteSecret
  <2> HIDE DEF secret
  <2>2. Handled(r)
    BY <1>2, <1>3, <2>1, RowHandled
  <2> QED
    BY <1>1, <2>1, <2>2, StepActs
<1>5. CASE EnableMfa(r)
  <2>1. Proceed(r, request[r])
    BY <1>5 DEF EnableMfa
  <2>2. CASE RightFactor(r) /\ Write(r, enabled) /\ minted' = minted + 1
    <3> HIDE DEF enabled
    <3>1. Handled(r)
      BY <1>2, <1>3, <2>2, MfaSuccessHandled
    <3> QED
      BY <1>1, <2>1, <3>1, StepActs
  <2>3. CASE UNCHANGED <<users, minted>>
    BY <1>1, <2>1, <2>3, NothingWritten, StepActs
  <2> QED
    BY <1>5, <2>2, <2>3 DEF EnableMfa
<1>6. CASE RegenerateCodes(r)
  <2>1. CASE MfaFailure(r)
    BY <1>1, <1>2, <2>1, MfaFailureHandled, StepActs
  <2>2. CASE RightFactor(r) /\ Write(r, codes) /\ minted' = minted + 1 /\ Proceed(r, request[r])
    <3> HIDE DEF codes
    <3>1. Handled(r)
      BY <1>2, <1>3, <2>2, MfaSuccessHandled
    <3> QED
      BY <1>1, <2>2, <3>1, StepActs
  <2> QED
    BY <1>6, <2>1, <2>2 DEF RegenerateCodes
<1> QED
  BY <1>4, <1>5, <1>6

LEMMA DisableMfaHandled ==
  ASSUME AccountsInv, NEW r \in Requests, DisableMfa(r)
  PROVE  Handled(r) /\ request'[r] # request[r]
<1> DEFINE patch == [mfa_enabled |-> FALSE, mfa_secret_enc |-> 0, mfa_recovery_codes_enc |-> {},
                     mfa_failed_count |-> 0, mfa_locked_until |-> "none"]
<1>1. At(r, "disableMfa") /\ request[r].email \in Registered /\ request[r].pc # 0
  BY OnRowReady DEF DisableMfa, OnRow, At
<1>2. CASE Reply(r) /\ UNCHANGED <<users, minted>>
  BY <1>1, <1>2, NothingWritten, StepActs
<1>3. CASE MfaFailure(r)
  BY <1>1, <1>3, MfaFailureHandled, StepActs
<1>4. CASE RightFactor(r) /\ Write(r, patch) /\ minted' = minted /\ request'[r] = NoRequest
  <2>1. DOMAIN patch = {"mfa_enabled", "mfa_secret_enc", "mfa_recovery_codes_enc",
                        "mfa_failed_count", "mfa_locked_until"}
    OBVIOUS
  <2> HIDE DEF patch
  <2>2. Handled(r)
    BY <1>1, <1>4, <2>1, MfaSuccessHandled
  <2> QED
    BY <1>1, <1>4, <2>2, NoRequestAtRest
<1> QED
  BY <1>2, <1>3, <1>4 DEF DisableMfa

LEMMA ChangePasswordHandled ==
  ASSUME AccountsInv, NEW r \in Requests, ChangePassword(r)
  PROVE  Handled(r) /\ request'[r] # request[r]
<1> DEFINE patch == [password_hash |-> minted + 1]
<1>1. At(r, "changePassword") /\ request[r].email \in Registered
  BY OnRowReady DEF ChangePassword, OnRow
<1>2. CASE Reply(r) /\ UNCHANGED <<users, minted>>
  BY <1>1, <1>2, NothingWritten, StepActs
<1>3. CASE Proceed(r, request[r]) /\ Write(r, patch) /\ minted' = minted + 1
  <2>1. DOMAIN patch = {"password_hash"} /\ patch["password_hash"] = minted + 1
    OBVIOUS
  <2> HIDE DEF patch
  <2>2. Handled(r)
    BY <1>1, <1>3, <2>1, RowHandled
  <2> QED
    BY <1>1, <1>3, <2>2, StepActs
<1> QED
  BY <1>2, <1>3 DEF ChangePassword

\* A link gives a new password or a verified address, and lifts no lock.
LEMMA RedeemHandled ==
  ASSUME AccountsInv, NEW r \in Requests, RedeemOrRollback(r) \/ RedeemMatching(r)
  PROVE  Handled(r) /\ request'[r] # request[r]
<1> DEFINE e == request[r].email
<1>1. PICK step : At(r, step)
  BY DEF RedeemOrRollback, RedeemMatching
<1>2. Proceed(r, request[r])
  BY DEF RedeemOrRollback, RedeemMatching
<1>3. e \in Emails /\ users \in [Emails -> UserRow] /\ users[e] \in UserRow
  BY <1>1 DEF AccountsInv, Types, Sound, Placed, At
<1>4. CASE UNCHANGED <<users, minted>>
  BY <1>1, <1>2, <1>4, NothingWritten, StepActs
<1>5. CASE users' = [users EXCEPT ![e].password_hash = minted + 1] /\ minted' = minted + 1
  <2>1. Handled(r)
    BY <1>3, <1>5 DEF Handled, UserRow
  <2> QED
    BY <1>1, <1>2, <2>1, StepActs
<1>6. CASE users' = [users EXCEPT ![e].email_verified = TRUE] /\ minted' = minted
  <2>1. Handled(r)
    BY <1>3, <1>6 DEF Handled, UserRow
  <2> QED
    BY <1>1, <1>2, <2>1, StepActs
<1> QED
  BY <1>4, <1>5, <1>6 DEF RedeemOrRollback, RedeemMatching, Redeem

LEMMA HandleHandled ==
  ASSUME LockInv, NEW r \in Requests, Arrive(r) \/ Handle(r)
  PROVE  /\ Handled(r)
         /\ request'[r] # request[r] \/ UNCHANGED users
<1>1. AccountsInv
  BY DEF LockInv
<1>2. CASE UNCHANGED <<users, minted>>
  BY <1>2, NothingWritten
<1>3. CASE Arrive(r)
  <2>1. UNCHANGED <<users, minted>>
    <3>1. ASSUME NEW op, NEW e, NEW input, NEW cost, NEW late, Call(r, op, e, input, cost, late)
          PROVE  UNCHANGED <<users, minted>>
      BY <3>1 DEF Call
    <3>2. CASE \E e \in Emails : CallSignup(r, e) \/ CallLogin(r, e) \/ CallByEmail(r, e)
      BY <3>1, <3>2 DEF CallSignup, CallLogin, CallByEmail
    <3>3. CASE \E e \in Emails : CallChallenge(r, e)
      BY <3>1, <3>3 DEF CallChallenge
    <3>4. CASE \E e \in Emails : CallAsUser(r, e)
      BY <3>1, <3>4 DEF CallAsUser
    <3>5. CASE \E t \in TokenIds : CallWithToken(r, t)
      BY <3>1, <3>5 DEF CallWithToken
    <3> QED
      BY <1>3, <3>2, <3>3, <3>4, <3>5 DEF Arrive
  <2> QED
    BY <1>2, <2>1
<1>4. CASE \/ ReadUser(r) \/ ReadUnlocked(r) \/ ReadUnverified(r) \/ ReadMfa(r)
           \/ ReadMfaUnlocked(r) \/ ReadWithoutMfa(r) \/ ReadPending(r)
           \/ SessionRows(r) \/ OpenSession(r) \/ FindEmail(r) \/ CountUsers(r) \/ RereadForMfa(r)
           \/ MintReset(r) \/ MintVerification(r) \/ FindToken(r)
  <2>1. UNCHANGED <<users, minted>>
    BY <1>4 DEF ReadUser, ReadUnlocked, ReadUnverified, ReadMfa, ReadMfaUnlocked, ReadWithoutMfa,
                ReadPending, Read, SessionRows, OpenSession, FindEmail, CountUsers, RereadForMfa,
                MintReset, MintVerification, Mint, FindToken
  <2> QED
    BY <1>2, <2>1
<1> QED
  BY <1>1, <1>3, <1>4, InsertUserHandled, LoginHandled, VerifyFactorHandled, EnrollmentHandled,
     DisableMfaHandled, ChangePasswordHandled, RedeemHandled DEF Handle

LEMMA HandledKeepsLocks ==
  ASSUME LockInv, NEW r \in Requests, Handled(r), AccountsInv'
  PROVE  LockInv'
<1>1. minted \in Nat /\ minted' \in Nat /\ minted <= minted'
  BY DEF LockInv, AccountsInv, Types, Handled
<1>2. \A e \in Emails : users[e].password_hash \in Nat /\ users'[e].password_hash \in Nat
  BY DEF LockInv, AccountsInv, Types, UserRow
<1>3. ASSUME NEW e \in Emails
      PROVE  users'[e].password_hash <= minted'
  BY <1>1, <1>2, <1>3 DEF LockInv, Handled
<1>4. ASSUME NEW e \in Emails, users'[e].role = "none"
      PROVE  users'[e].locked_until # "future" /\ users'[e].mfa_locked_until # "future"
  BY <1>4 DEF LockInv, Handled
<1> QED
  BY <1>3, <1>4 DEF LockInv

\* A lock that time ends: one date of one row.
LEMMA LocksExpireTouches ==
  ASSUME AccountsInv, NEW e \in Emails, LocksExpire(e)
  PROVE  /\ minted' = minted
         /\ \A f \in Emails \ {e} : users'[f] = users[f]
         /\ users'[e].role = users[e].role /\ users'[e].password_hash = users[e].password_hash
         /\ users'[e].locked_until \in {users[e].locked_until, "past"}
         /\ users'[e].mfa_locked_until \in {users[e].mfa_locked_until, "past"}
<1>1. users \in [Emails -> UserRow] /\ users[e] \in UserRow
  BY DEF AccountsInv, Types
<1>2. PICK c \in {"locked_until", "mfa_locked_until"} :
             users' = [users EXCEPT ![e] = [users[e] EXCEPT ![c] = "past"]]
  BY DEF LocksExpire
<1> DEFINE row == [users[e] EXCEPT ![c] = "past"]
<1>3. /\ row.role = users[e].role /\ row.password_hash = users[e].password_hash
      /\ row.locked_until \in {users[e].locked_until, "past"}
      /\ row.mfa_locked_until \in {users[e].mfa_locked_until, "past"}
  BY <1>1 DEF UserRow
<1>4. users' = [users EXCEPT ![e] = row]
  BY <1>2
<1> HIDE DEF row
<1>5. users'[e] = row /\ \A f \in Emails \ {e} : users'[f] = users[f]
  BY <1>1, <1>4
<1> QED
  BY <1>3, <1>5 DEF LocksExpire

\* Nothing else touches rows.
LEMMA RowsRest ==
  ASSUME CleanupTokens \/ AccountsCrash \/ (\E t \in TokenIds : TokenExpires(t))
           \/ UNCHANGED accountVars
  PROVE  UNCHANGED <<users, minted>>
  BY DEF CleanupTokens, AccountsCrash, TokenExpires, accountVars

LEMMA LockInvInductive == LockInv /\ [AccountsNext]_accountVars => LockInv'
<1> SUFFICES ASSUME LockInv, [AccountsNext]_accountVars PROVE LockInv'
  OBVIOUS
<1>1. AccountsInv /\ AccountsInv'
  BY NextKeepsInv DEF LockInv
<1>2. ASSUME NEW r \in Requests, Arrive(r) \/ Handle(r)
      PROVE  LockInv'
  BY <1>1, <1>2, HandleHandled, HandledKeepsLocks
<1>3. ASSUME NEW e \in Emails, LocksExpire(e)
      PROVE  LockInv'
  BY <1>1, <1>3, LocksExpireTouches DEF LockInv
<1>4. CASE UNCHANGED <<users, minted>>
  BY <1>1, <1>4 DEF LockInv
<1> QED
  BY <1>2, <1>3, <1>4, RowsRest DEF AccountsNext

LEMMA FirstPassword ==
  ASSUME NEW secret, NEW enabled
  PROVE  Member(secret, enabled).password_hash = 1
  BY DEF Member, NoUser

LEMMA LockInvHolds == AccountsSpec => []LockInv
<1>1. AccountsInit => LockInv
  <2> SUFFICES ASSUME AccountsInit PROVE LockInv
    OBVIOUS
  <2>1. AccountsInv /\ minted = 1
    BY InitHasInv DEF AccountsInit
  <2>2. ASSUME NEW e \in Emails
        PROVE  users[e] \in {NoUser, Member(0, FALSE), Member(1, FALSE), Member(1, TRUE)}
    BY DEF AccountsInit
  <2>3. NoUser.password_hash = 0 /\ NoUser.locked_until = "none" /\ NoUser.mfa_locked_until = "none"
    BY DEF NoUser
  <2>4. ASSUME NEW m \in {Member(0, FALSE), Member(1, FALSE), Member(1, TRUE)}
        PROVE  m.password_hash = 1 /\ m.role = "admin"
    <3>1. PICK n \in Nat, b \in BOOLEAN : m = Member(n, b)
      OBVIOUS
    <3> QED
      BY <3>1, FirstPassword, MemberRows
  <2>5. ASSUME NEW e \in Emails
        PROVE  /\ users[e].password_hash <= minted
               /\ users[e].role = "none" =>
                    users[e].locked_until # "future" /\ users[e].mfa_locked_until # "future"
    <3>1. CASE users[e] = NoUser
      BY <2>1, <2>3, <3>1
    <3>2. CASE users[e].password_hash = 1 /\ users[e].role = "admin"
      BY <2>1, <3>2
    <3> QED
      BY <2>2, <2>4, <3>1, <3>2
  <2> QED
    BY <2>1, <2>5 DEF LockInv
<1> QED
  BY <1>1, LockInvInductive, PTL DEF AccountsSpec

\* An account stays locked, for passwords and for codes, until time has passed
\* or the right credential was given; a guess that was under way when the lock
\* was set writes what it read but never lifts it.
THEOREM LocksAreKept == AccountsSpec => LocksHold
<1> DEFINE Acting == {r \in Requests : request'[r] # request[r]}
           Explained(e) ==
             /\ users[e].locked_until = "future" /\ users'[e].locked_until # "future" =>
                  LocksExpire(e) \/ \E r \in Acting : request[r].email = e /\ RightPassword(r)
             /\ users[e].mfa_locked_until = "future" /\ users'[e].mfa_locked_until # "future" =>
                  LocksExpire(e) \/ \E r \in Acting : request[r].email = e /\ RightFactor(r)
<1>1. ASSUME LockInv, [AccountsNext]_accountVars, NEW e \in Emails
      PROVE  Explained(e)
  <2>1. AccountsInv
    BY <1>1 DEF LockInv
  <2>2. ASSUME NEW r \in Requests, Arrive(r) \/ Handle(r)
        PROVE  Explained(e)
    BY <1>1, <2>2, HandleHandled DEF Handled
  <2>3. ASSUME NEW f \in Emails, LocksExpire(f)
        PROVE  Explained(e)
    BY <2>1, <2>3, LocksExpireTouches
  <2>4. CASE UNCHANGED <<users, minted>>
    BY <2>4
  <2> QED
    BY <1>1, <2>2, <2>3, <2>4, RowsRest DEF AccountsNext
<1>2. LockInv /\ [AccountsNext]_accountVars => [\A e \in Emails : Explained(e)]_accountVars
  BY <1>1
<1> QED
  BY <1>2, LockInvHolds, PTL DEF AccountsSpec, LocksHold

\* A password that was changed or reset never comes back, although logins and
\* MFA requests write to a row they read before a hash or a mail.
THEOREM PasswordsAdvance == AccountsSpec => PasswordNeverReverts
<1>1. ASSUME LockInv, [AccountsNext]_accountVars, NEW e \in Emails
      PROVE  users'[e].password_hash >= users[e].password_hash
  <2>1. /\ AccountsInv /\ minted \in Nat /\ users[e].password_hash \in Nat
        /\ users[e].password_hash <= minted
    BY <1>1 DEF LockInv, AccountsInv, Types, UserRow
  <2>2. ASSUME NEW r \in Requests, Arrive(r) \/ Handle(r)
        PROVE  users'[e].password_hash >= users[e].password_hash
    <3>1. users'[e].password_hash \in {users[e].password_hash, minted + 1}
      BY <1>1, <2>2, HandleHandled DEF Handled
    <3> QED
      BY <2>1, <3>1
  <2>3. ASSUME NEW f \in Emails, LocksExpire(f)
        PROVE  users'[e].password_hash >= users[e].password_hash
    BY <2>1, <2>3, LocksExpireTouches
  <2>4. CASE UNCHANGED <<users, minted>>
    BY <2>1, <2>4
  <2> QED
    BY <1>1, <2>2, <2>3, <2>4, RowsRest DEF AccountsNext
<1>2. LockInv /\ [AccountsNext]_accountVars =>
        [\A e \in Emails : users'[e].password_hash >= users[e].password_hash]_accountVars
  BY <1>1
<1> QED
  BY <1>2, LockInvHolds, PTL DEF AccountsSpec, PasswordNeverReverts

=============================================================================

-------------------------- MODULE RefreshRotation --------------------------
(***************************************************************************)
(* Refresh-token rotation of the auth feature: the handlers of POST        *)
(* /auth/refresh, /auth/logout, /auth/change-password and                  *)
(* /auth/reset-password, session issue at login and the nightly cleanup,   *)
(* all working for one user on the table refresh_tokens.                   *)
(*                                                                         *)
(* The lines are those of the Fastify port on Prisma.  Six of the other    *)
(* Node ports differ from it in one place, CommitReplay, which has both    *)
(* ways; RefreshPorts says which port does what, and has the eighth.       *)
(*                                                                         *)
(* A handler is interleaved with the others at every await.  The database  *)
(* is PostgreSQL at READ COMMITTED, Prisma's default: a transaction takes  *)
(* effect when it commits, but an UPDATE chooses its rows from a snapshot  *)
(* taken when the statement starts and rechecks only those.  A bulk        *)
(* revocation is therefore two steps, and a row inserted between them      *)
(* escapes it.  Claiming a token locks its row first, so the rotation      *)
(* transaction is one step.                                                *)
(***************************************************************************)
EXTENDS Naturals, FiniteSets

CONSTANTS
  Tokens,        \* refresh tokens, one row each
  Sessions,      \* session ids
  Handlers,      \* refresh requests in flight
  Revokers,      \* logout and password requests in flight
  MaxAttempts,   \* MAX_ROTATION_ATTEMPTS
  None           \* SQL NULL

ASSUME ConstantsAssumption ==
  /\ None \notin Tokens \cup Sessions
  /\ MaxAttempts \in Nat \ {0}

VARIABLES
  issued,     \* tokens ever signed and stored
  rows,       \* tokens whose row still exists
  sid,        \* session_id
  rotatedTo,  \* rotated_to
  revoked,    \* revoked_at is set
  replayed,   \* replay_detected_at is set
  expired,    \* expires_at has passed
  req,        \* the refresh handlers
  rev         \* the bulk revocations

tableVars == <<issued, rows, sid, rotatedTo, revoked, replayed>>
vars == <<issued, rows, sid, rotatedTo, revoked, replayed, expired, req, rev>>

Answers == {"ok", "denied", "replay", "error"}
Waiting == {"lookup", "grace", "claim", "reread", "regrace", "revoke", "commit"}

Request == [pc: {"idle"} \cup Answers \cup Waiting,
            presented: Tokens \cup {None},  \* the token in the request body
            active: Tokens \cup {None},     \* activeToken
            to: Tokens \cup {None},         \* rotated_to of the row last read
            flagged: BOOLEAN,               \* its replay_detected_at
            attempt: 1..MaxAttempts,
            targets: SUBSET Tokens,         \* rows the revocation will lock
            superseded: BOOLEAN]            \* history: see Start

Revocation == [pc: {"idle", "update", "done"},
               op: {"logout", "change", "reset", None},
               scope: SUBSET Sessions,      \* sessions its WHERE selects
               targets: SUBSET Tokens]

NewRequest(pc, t, superseded) ==
  [pc |-> pc, presented |-> t, active |-> t, to |-> None, flagged |-> FALSE,
   attempt |-> 1, targets |-> {}, superseded |-> superseded]

IdleRequest == NewRequest("idle", None, FALSE)

IdleRevocation == [pc |-> "idle", op |-> None, scope |-> {}, targets |-> {}]

\* Rows a WHERE revoked_at IS NULL sees, and those of one session.
LiveRows == rows \ revoked
Live(s) == {t \in LiveRows : sid[t] = s}

Opened == {sid[t] : t \in issued}

\* Bound: a request starts only if every request in flight can still rotate.
InFlight == {h \in Handlers : req[h].pc \in Waiting}
TokenLeft == Cardinality(Tokens \ issued) > Cardinality(InFlight)

Init ==
  /\ issued = {} /\ rows = {} /\ revoked = {} /\ replayed = {} /\ expired = {}
  /\ sid = [t \in Tokens |-> None]
  /\ rotatedTo = [t \in Tokens |-> None]
  /\ req = [h \in Handlers |-> IdleRequest]
  /\ rev = [r \in Revokers |-> IdleRevocation]

-----------------------------------------------------------------------------
(* Sessions *)

\* refreshToken.create
Store(t, s) ==
  /\ issued' = issued \cup {t}
  /\ rows' = rows \cup {t}
  /\ sid' = [sid EXCEPT ![t] = s]

\* issueAuthSession: every login draws a fresh session id.
Login(s, t) ==
  /\ s \notin Opened /\ t \notin issued /\ TokenLeft
  /\ Store(t, s)
  /\ UNCHANGED <<rotatedTo, revoked, replayed, expired, req, rev>>

-----------------------------------------------------------------------------
(* POST /auth/refresh *)

Goto(h, pc) == req' = [req EXCEPT ![h].pc = pc]

\* The handler replies; its local variables are gone.
Answer(h, a) ==
  req' = [req EXCEPT ![h] = NewRequest(a, req[h].presented, req[h].superseded)]

\* The rows a successful rotation writes: claim, child, link.
Rotation(h, n) ==
  /\ Store(n, sid[req[h].presented])
  /\ revoked' = revoked \cup {req[h].active}
  /\ rotatedTo' = [rotatedTo EXCEPT ![req[h].active] = n]

\* Any client holding a token that jwt.verify still accepts may present it:
\* the owner, a second tab, a retry after a lost answer, or a thief.  The
\* history field says that the token's replacement was itself used already.
Start(h, t) ==
  /\ req[h].pc \notin Waiting
  /\ t \in issued \ expired /\ TokenLeft
  /\ req' = [req EXCEPT ![h] =
        NewRequest("lookup", t, rotatedTo[t] # None /\ rotatedTo[t] \in revoked)]
  /\ UNCHANGED <<tableVars, expired, rev>>

ReadRow(h, t, pc) ==
  req' = [req EXCEPT ![h].pc = pc, ![h].to = rotatedTo[t], ![h].flagged = t \in replayed]

Lookup(h) ==
  LET t == req[h].presented IN
  /\ req[h].pc = "lookup"
  /\ \/ t \notin rows /\ Answer(h, "denied")
     \/ t \in rows /\ (rotatedTo[t] # None \/ t \in revoked) /\ ReadRow(h, t, "grace")
     \/ t \in LiveRows /\ rotatedTo[t] = None /\ t \in expired /\ Answer(h, "denied")
     \/ t \in LiveRows /\ rotatedTo[t] = None /\ t \notin expired /\ Goto(h, "claim")
  /\ UNCHANGED <<tableVars, expired, rev>>

ChildUnchecked(h) ==
  /\ req[h].to # None /\ ~req[h].flagged
  /\ req[h].to \in rows /\ sid[req[h].to] = sid[req[h].presented]
  /\ req[h].to \notin replayed /\ req[h].to \notin expired

\* resolveRotationGraceChild: the replacement is still the unused head.
GraceChild(h) ==
  LET c == req[h].to IN
  /\ c # None /\ ~req[h].flagged
  /\ c \in rows /\ sid[c] = sid[req[h].presented]
  /\ rotatedTo[c] = None /\ c \notin revoked /\ c \notin replayed /\ c \notin expired

Grace(h) ==
  /\ req[h].pc = "grace"
  /\ \/ GraceChild(h) /\ req' = [req EXCEPT ![h].pc = "claim", ![h].active = req[h].to]
     \/ ~GraceChild(h) /\ Goto(h, "revoke")
  /\ UNCHANGED <<tableVars, expired, rev>>

\* Fault: the claim does not look at revoked_at.
ClaimRevoked(h) ==
  LET a == req[h].active IN
  /\ req[h].pc = "claim"
  /\ \/ /\ a \in rows /\ rotatedTo[a] = None
        /\ \E n \in Tokens \ issued : Rotation(h, n)
        /\ Answer(h, "ok")
     \/ /\ ~(a \in rows /\ rotatedTo[a] = None)
        /\ Goto(h, "reread") /\ UNCHANGED <<issued, rows, sid, rotatedTo, revoked>>
  /\ UNCHANGED <<replayed, expired, rev>>

\* Fault: the claim trusts what the lookup read.
ClaimUnchecked(h) ==
  /\ req[h].pc = "claim"
  /\ \E n \in Tokens \ issued : Rotation(h, n)
  /\ Answer(h, "ok")
  /\ UNCHANGED <<replayed, expired, rev>>

\* The rotation transaction: updateMany claims the row if it is still the
\* unrevoked head, then the child is created and linked.
Claim(h) ==
  LET a == req[h].active
      head == a \in LiveRows /\ rotatedTo[a] = None
  IN
  /\ req[h].pc = "claim"
  /\ \/ head /\ (\E n \in Tokens \ issued : Rotation(h, n)) /\ Answer(h, "ok")
     \/ ~head /\ Goto(h, "reread") /\ UNCHANGED <<issued, rows, sid, rotatedTo, revoked>>
  /\ UNCHANGED <<replayed, expired, rev>>

\* Fault: losing the claim counts as a replay.
RereadGivesUp(h) ==
  /\ req[h].pc = "reread" /\ Goto(h, "revoke")
  /\ UNCHANGED <<tableVars, expired, rev>>

\* The claim was lost: read the claimed row again.
Reread(h) ==
  /\ req[h].pc = "reread"
  /\ \/ req[h].active \in rows /\ ReadRow(h, req[h].active, "regrace")
     \/ req[h].active \notin rows /\ Goto(h, "revoke")
  /\ UNCHANGED <<tableVars, expired, rev>>

\* Fault: the loop has no bound.
RegraceUnbounded(h) ==
  /\ req[h].pc = "regrace"
  /\ \/ GraceChild(h) /\ req' = [req EXCEPT ![h].pc = "claim", ![h].active = req[h].to,
                                            ![h].attempt = @ + 1]
     \/ ~GraceChild(h) /\ Goto(h, "revoke")
  /\ UNCHANGED <<tableVars, expired, rev>>

\* Fault: the next attempt claims the same token.
RegraceSameToken(h) ==
  /\ req[h].pc = "regrace"
  /\ \/ GraceChild(h) /\ Goto(h, "claim")
     \/ ~GraceChild(h) /\ Goto(h, "revoke")
  /\ UNCHANGED <<tableVars, expired, rev>>

Regrace(h) ==
  /\ req[h].pc = "regrace"
  /\ \/ /\ GraceChild(h) /\ req[h].attempt < MaxAttempts
        /\ req' = [req EXCEPT ![h].pc = "claim", ![h].active = req[h].to,
                              ![h].attempt = @ + 1]
     \/ ~(GraceChild(h) /\ req[h].attempt < MaxAttempts) /\ Goto(h, "revoke")
  /\ UNCHANGED <<tableVars, expired, rev>>

\* revokeForReplay: its updateMany starts ...
RevokeForReplay(h) ==
  /\ req[h].pc = "revoke"
  /\ req' = [req EXCEPT ![h].pc = "commit", ![h].targets = Live(sid[req[h].presented])]
  /\ UNCHANGED <<tableVars, expired, rev>>

\* ... and its transaction ends.  Prisma's update by id fails, and rolls it
\* back, when the row to flag is gone ...
CommitOrRollback(h) ==
  /\ req[h].pc = "commit"
  /\ \/ /\ req[h].active \in rows
        /\ revoked' = revoked \cup (req[h].targets \cap rows)
        /\ replayed' = replayed \cup {req[h].active}
        /\ Answer(h, "replay")
     \/ req[h].active \notin rows /\ Answer(h, "error") /\ UNCHANGED <<revoked, replayed>>
  /\ UNCHANGED <<issued, rows, sid, rotatedTo, expired, rev>>

\* ... the other ORMs flag the rows that match, be they none, and commit.
CommitMatching(h) ==
  /\ req[h].pc = "commit"
  /\ revoked' = revoked \cup (req[h].targets \cap rows)
  /\ replayed' = replayed \cup ({req[h].active} \cap rows)
  /\ Answer(h, "replay")
  /\ UNCHANGED <<issued, rows, sid, rotatedTo, expired, rev>>

CommitReplay(h) == CommitOrRollback(h) \/ CommitMatching(h)

Refresh(h) ==
  \/ Lookup(h) \/ Grace(h) \/ Claim(h) \/ Reread(h) \/ Regrace(h)
  \/ RevokeForReplay(h) \/ CommitReplay(h)

-----------------------------------------------------------------------------
(* Bulk revocation *)

BeginUpdate(r, op, scope) ==
  /\ rev[r].pc # "update"
  /\ rev' = [rev EXCEPT ![r] = [pc |-> "update", op |-> op, scope |-> scope,
                                targets |-> {t \in LiveRows : sid[t] \in scope}]]
  /\ UNCHANGED <<tableVars, expired, req>>

\* POST /auth/logout, of the caller's session or the one named in the body.
Logout(r, s) == s \in Opened /\ BeginUpdate(r, "logout", {s})

\* POST /auth/change-password from session s.
ChangePassword(r, s) == s \in Opened /\ BeginUpdate(r, "change", Opened \ {s})

\* POST /auth/reset-password
ResetPassword(r) == BeginUpdate(r, "reset", Opened)

\* The statement commits: rows still live are revoked.
Revoke(r) ==
  /\ rev[r].pc = "update"
  /\ rev' = [rev EXCEPT ![r].pc = "done", ![r].targets = {}]
  /\ revoked' = revoked \cup (rev[r].targets \cap rows)
  /\ UNCHANGED <<issued, rows, sid, rotatedTo, replayed, expired, req>>

-----------------------------------------------------------------------------
(* Environment *)

\* Every token lives REFRESH_TTL_SECONDS, so a child outlives its parent.
Expire(t) ==
  /\ t \in issued \ expired
  /\ \A p \in issued : rotatedTo[p] = t => p \in expired
  /\ expired' = expired \cup {t}
  /\ UNCHANGED <<tableVars, req, rev>>

\* cleanupAuthArtifacts: REVOKED_RETENTION_DAYS exceeds the lifetime of a
\* token, so the second branch of its OR only selects expired rows.
Cleanup ==
  /\ rows \cap expired # {}
  /\ rows' = rows \ expired
  /\ UNCHANGED <<issued, sid, rotatedTo, revoked, replayed, expired, req, rev>>

\* The server stops: open transactions roll back, callers get no answer.
Crash ==
  /\ req' = [h \in Handlers |-> IdleRequest]
  /\ rev' = [r \in Revokers |-> IdleRevocation]
  /\ \/ InFlight # {}
     \/ \E r \in Revokers : rev[r].pc = "update"
  /\ UNCHANGED <<tableVars, expired>>

Next ==
  \/ \E s \in Sessions, t \in Tokens : Login(s, t)
  \/ \E h \in Handlers : Refresh(h) \/ \E t \in Tokens : Start(h, t)
  \/ \E r \in Revokers : ResetPassword(r) \/ Revoke(r)
  \/ \E r \in Revokers, s \in Sessions : Logout(r, s) \/ ChangePassword(r, s)
  \/ \E t \in Tokens : Expire(t)
  \/ Cleanup \/ Crash

Spec == Init /\ [][Next]_vars

\* A handler past its first await always resumes: the event loop runs every
\* settled promise, and the database answers or the request fails.
ServerFairness ==
  /\ \A h \in Handlers : WF_vars(Refresh(h))
  /\ \A r \in Revokers : WF_vars(Revoke(r))

-----------------------------------------------------------------------------
(* Properties *)

TypeOK ==
  /\ rows \subseteq issued /\ issued \subseteq Tokens
  /\ revoked \subseteq issued /\ replayed \subseteq issued /\ expired \subseteq issued
  /\ sid \in [Tokens -> Sessions \cup {None}]
  /\ rotatedTo \in [Tokens -> Tokens \cup {None}]
  /\ req \in [Handlers -> Request]
  /\ rev \in [Revokers -> Revocation]

\* Two refreshes of one token never leave two usable tokens: a session has
\* at most one unrevoked row (routes.ts, the conditional claim; the race test
\* of auth-flow.test.ts expects one head).
OneLiveTokenPerSession ==
  \A t, u \in LiveRows : sid[t] = sid[u] => t = u

\* The tokens of a session form one chain from its login: no rotation
\* overwrites the rotated_to another one wrote, and a rotated token is
\* revoked.  Replay detection walks this chain.
SessionIsOneChain ==
  /\ \A t \in issued : rotatedTo[t] # None =>
        t \in revoked /\ rotatedTo[t] \in issued /\ sid[rotatedTo[t]] = sid[t]
  /\ \A t, u \in issued :
        /\ rotatedTo[t] = rotatedTo[u] /\ rotatedTo[t] # None => t = u
        /\ sid[t] = sid[u] /\ (\A p \in issued : rotatedTo[p] \notin {t, u}) => t = u

\* A client whose token was superseded twice before it asked (the replacement
\* was already used or revoked) never gets new tokens, however its request
\* interleaves with rotations and revocations.
SupersededNeverServed ==
  \A h \in Handlers : req[h].superseded => req[h].pc # "ok"

\* A lost-rotation retry is not a replay (the comment above
\* resolveRotationGraceChild): a session is revoked for replay only if the
\* presented token was revoked without a replacement, has expired, was flagged
\* before, or its replacement is used, revoked or expired.
ReplayVerdictJustified ==
  \A h \in Handlers : req[h].pc \in {"revoke", "commit", "replay"} =>
    LET t == req[h].presented
        c == rotatedTo[t]
    IN  \/ t \in expired \/ t \in replayed
        \/ c = None /\ t \in revoked
        \/ c # None /\ c \in revoked \cup expired

\* Every refresh request is answered: the retry loop ends.
RefreshAnswered ==
  \A h \in Handlers : req[h].pc \in Waiting ~> req[h].pc \notin Waiting

\* README: a password change revokes all other sessions.
OtherSessionsRevoked ==
  \A r \in Revokers : rev[r].pc = "done" /\ rev[r].op = "change" =>
    \A s \in rev[r].scope : Live(s) = {}

-----------------------------------------------------------------------------
(* Refinement *)

\* The current token of a session is its unrevoked row.
Current(s) ==
  IF s \notin Opened THEN "unopened"
  ELSE IF Live(s) = {} THEN "closed"
  ELSE CHOOSE t \in Tokens : t \in Live(s)

Lifecycle == INSTANCE SessionLifecycle WITH
  Unopened <- "unopened", Closed <- "closed",
  current <- [s \in Sessions |-> Current(s)], known <- issued

\* Sessions keep the promise of SessionLifecycle: one current token at a
\* time, replaced by fresh ones, and a dead session is never revived, not even
\* by a rotation racing a logout.
ImplementsLifecycle == Lifecycle!Spec

=============================================================================

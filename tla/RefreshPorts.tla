---------------------------- MODULE RefreshPorts ----------------------------
(***************************************************************************)
(* POST /auth/refresh in the eight Node ports.  RefreshBehaviour[p].refresh*)
(* is the set of steps port p has; RefreshRotation has most of them.       *)
(*                                                                         *)
(* Flagging a replayed token: Prisma's update by id fails when the row is  *)
(* gone ("commit"), the other ORMs' does not ("commitMatching").           *)
(*                                                                         *)
(* Rotating: seven ports claim the token, create its child and link the    *)
(* two in one transaction ("claim"); the Express port on Prisma does so in *)
(* three statements of their own ("claimRow", "create", "link").           *)
(***************************************************************************)
EXTENDS RefreshRotation

CONSTANTS
  RefreshPortNames,   \* names of ports
  RefreshBehaviour    \* what each port does, see NodePorts

\* A port rotates in one transaction or in three statements, never both.
ASSUME RefreshPortsAssumption ==
  \A p \in RefreshPortNames : LET steps == RefreshBehaviour[p].refresh IN
    "claim" \in steps => steps \cap {"claimRow", "create", "link"} = {}

VARIABLES
  refreshPort,  \* the port that is deployed
  stage,        \* where a handler stands between its three statements
  child         \* the child it has created

portVars == <<refreshPort, stage, child>>
allVars == <<vars, portVars>>

Has(step) == step \in RefreshBehaviour[refreshPort].refresh

PortsInit ==
  /\ Init /\ refreshPort \in RefreshPortNames
  /\ stage = [h \in Handlers |-> "none"] /\ child = [h \in Handlers |-> None]

\* A step of RefreshRotation's handler.
Shared(A) == A /\ UNCHANGED portVars

\* Fault: the claim is an update by id.
ClaimRowUnchecked(h) ==
  /\ Has("claimRow") /\ req[h].pc = "claim" /\ stage[h] = "none"
  /\ revoked' = revoked \cup {req[h].active} /\ stage' = [stage EXCEPT ![h] = "create"]
  /\ UNCHANGED <<issued, rows, sid, rotatedTo, replayed, expired, req, rev, refreshPort, child>>

\* refreshToken.updateMany ... where rotated_to and revoked_at are null
ClaimRow(h) ==
  LET a == req[h].active
      head == a \in LiveRows /\ rotatedTo[a] = None
  IN
  /\ Has("claimRow") /\ req[h].pc = "claim" /\ stage[h] = "none"
  /\ \/ /\ head /\ revoked' = revoked \cup {a}
        /\ stage' = [stage EXCEPT ![h] = "create"] /\ UNCHANGED req
     \/ ~head /\ Goto(h, "reread") /\ UNCHANGED <<revoked, stage>>
  /\ UNCHANGED <<issued, rows, sid, rotatedTo, replayed, expired, rev, refreshPort, child>>

\* refreshToken.create
CreateChild(h) ==
  /\ Has("create") /\ stage[h] = "create"
  /\ \E n \in Tokens \ issued :
       Store(n, sid[req[h].presented]) /\ child' = [child EXCEPT ![h] = n]
  /\ stage' = [stage EXCEPT ![h] = "link"]
  /\ UNCHANGED <<rotatedTo, revoked, replayed, expired, req, rev, refreshPort>>

\* refreshToken.update, which fails if the claimed row is gone
LinkChild(h) ==
  LET a == req[h].active IN
  /\ Has("link") /\ stage[h] = "link"
  /\ \/ /\ a \in rows /\ Answer(h, "ok")
        /\ rotatedTo' = [rotatedTo EXCEPT ![a] = child[h]]
     \/ a \notin rows /\ Answer(h, "error") /\ UNCHANGED rotatedTo
  /\ stage' = [stage EXCEPT ![h] = "none"] /\ child' = [child EXCEPT ![h] = None]
  /\ UNCHANGED <<issued, rows, sid, revoked, replayed, expired, rev, refreshPort>>

PortRefresh(h) ==
  \/ Shared(Lookup(h)) \/ Shared(Grace(h)) \/ Shared(Reread(h)) \/ Shared(Regrace(h))
  \/ Has("claim") /\ Shared(Claim(h))
  \/ ClaimRow(h) \/ CreateChild(h) \/ LinkChild(h)
  \/ Shared(RevokeForReplay(h))
  \/ Has("commit") /\ Shared(CommitOrRollback(h))
  \/ Has("commitMatching") /\ Shared(CommitMatching(h))

PortCrash ==
  /\ Crash /\ UNCHANGED refreshPort
  /\ stage' = [h \in Handlers |-> "none"] /\ child' = [h \in Handlers |-> None]

PortsNext ==
  \/ \E h \in Handlers : PortRefresh(h) \/ \E t \in Tokens : Shared(Start(h, t))
  \/ \E s \in Sessions, t \in Tokens : Shared(Login(s, t))
  \/ \E r \in Revokers : Shared(ResetPassword(r)) \/ Shared(Revoke(r))
  \/ \E r \in Revokers, s \in Sessions : Shared(Logout(r, s)) \/ Shared(ChangePassword(r, s))
  \/ \E t \in Tokens : Shared(Expire(t))
  \/ "refresh_tokens" \in RefreshBehaviour[refreshPort].cleanup /\ Shared(Cleanup)
  \/ PortCrash

PortsSpec == PortsInit /\ [][PortsNext]_allVars

-----------------------------------------------------------------------------
(* Properties *)

\* README: "Nine auth combinations today, one external contract".  In every port
\* that rotates in one transaction the tokens of a session form one chain and
\* a lost-rotation retry is not taken for a replay, whichever way the replay
\* of a token is flagged.
PortVerdicts == Has("claim") => ReplayVerdictJustified /\ SessionIsOneChain

-----------------------------------------------------------------------------
(* Refinement *)

\* A token is held while its row is live, and while the handler that claimed
\* it has not created the child yet.
Claimed == {req[h].active : h \in {k \in Handlers : stage[k] = "create"}}
Held(s) == {t \in LiveRows \cup Claimed : sid[t] = s}

HeldToken(s) ==
  LET held == Held(s) IN
  IF held # {} THEN CHOOSE t \in held : TRUE
  ELSE IF s \in Opened THEN "closed" ELSE "unopened"

PortLifecycle == INSTANCE SessionLifecycle WITH
  Unopened <- "unopened", Closed <- "closed",
  current <- [s \in Sessions |-> HeldToken(s)], known <- issued

\* Every port keeps the promise of SessionLifecycle.  In the port that rotates
\* in three statements the second is the rotation: the first only takes the
\* current token out of use, and a crash before the second closes the session.
PortsImplementLifecycle == PortLifecycle!Spec

=============================================================================

------------------------- MODULE RefreshPortsProofs -------------------------
(***************************************************************************)
(* Theorems about RefreshPorts, for any set of ports that rotate in one    *)
(* transaction or in three statements.                                     *)
(***************************************************************************)
EXTENDS RefreshPorts, RefreshRotationProofs

-----------------------------------------------------------------------------
(* Ports that rotate in one transaction *)

\* Such a port takes the steps of RefreshRotation and no others.
LEMMA TransactionalStep ==
  ASSUME refreshPort \in RefreshPortNames, Has("claim"), [PortsNext]_allVars
  PROVE  [Next]_vars /\ UNCHANGED refreshPort
PROOF
<1>1. ~Has("claimRow") /\ ~Has("create") /\ ~Has("link")
  BY RefreshPortsAssumption DEF Has
<1>2. ASSUME NEW h \in Handlers, PortRefresh(h) PROVE Refresh(h) /\ UNCHANGED refreshPort
  BY <1>1, <1>2 DEF PortRefresh, Shared, portVars, ClaimRow, CreateChild, LinkChild, Refresh, CommitReplay
<1>3. CASE PortsNext
  BY <1>2, <1>3 DEF PortsNext, Shared, portVars, PortCrash, Next
<1>4. CASE UNCHANGED allVars
  BY <1>4 DEF allVars, portVars
<1> QED
  BY <1>3, <1>4

\* A port stays the port it is.
LEMMA PortStays == [PortsNext]_allVars => UNCHANGED refreshPort
PROOF
<1>1. ASSUME NEW h \in Handlers, PortRefresh(h) PROVE UNCHANGED refreshPort
  BY <1>1 DEF PortRefresh, Shared, portVars, ClaimRow, CreateChild, LinkChild
<1>2. PortsNext => UNCHANGED refreshPort
  BY <1>1 DEF PortsNext, Shared, portVars, PortCrash
<1> QED
  BY <1>2 DEF allVars, portVars

\* The inductive invariant: VerdictInv, in these ports.
TransactionalInv ==
  /\ refreshPort \in RefreshPortNames
  /\ Has("claim") => VerdictInv

LEMMA InitTransactionalInv == PortsInit => TransactionalInv
PROOF BY InitVerdictInv DEF PortsInit, TransactionalInv

LEMMA NextTransactionalInv ==
  ASSUME MaxAttempts > 1
  PROVE  TransactionalInv /\ [PortsNext]_allVars => TransactionalInv'
PROOF
<1> SUFFICES ASSUME TransactionalInv, [PortsNext]_allVars PROVE TransactionalInv'
  OBVIOUS
<1>1. UNCHANGED refreshPort
  BY PortStays
<1>2. CASE Has("claim")
  <2>1. VerdictInv /\ [Next]_vars
    BY <1>2, TransactionalStep DEF TransactionalInv
  <2>2. VerdictInv'
    BY <2>1, NextVerdictInv
  <2> QED
    BY <1>1, <2>2 DEF TransactionalInv
<1>3. CASE ~Has("claim")
  <2>1. ~Has("claim")'
    BY <1>1, <1>3 DEF Has
  <2> QED
    BY <1>1, <2>1 DEF TransactionalInv
<1> QED
  BY <1>2, <1>3

\* The seven ports whose rotation is a transaction behave as RefreshRotation:
\* what is proved of it holds in each of them.
THEOREM TransactionalPorts == PortsSpec /\ Has("claim") => Spec
PROOF
<1> DEFINE Transactional == refreshPort \in RefreshPortNames /\ Has("claim")
<1>1. PortsInit /\ Has("claim") => Init /\ Transactional
  BY DEF PortsInit
<1>2. Transactional /\ [PortsNext]_allVars => [Next]_vars /\ Transactional'
  BY TransactionalStep DEF Has
<1> HIDE DEF Transactional
<1> QED
  BY <1>1, <1>2, PTL DEF PortsSpec, Spec

\* In every port that rotates in one transaction a replay verdict has a cause
\* and the tokens of a session form one chain, whichever way replays are flagged.
THEOREM PortVerdictsHold ==
  ASSUME MaxAttempts > 1
  PROVE  PortsSpec => []PortVerdicts
PROOF
<1>1. TransactionalInv => PortVerdicts
  BY DEF TransactionalInv, PortVerdicts, VerdictInv, Inv, HandlerInv, Justified, ReplayVerdictJustified
<1> QED
  BY <1>1, InitTransactionalInv, NextTransactionalInv, PTL DEF PortsSpec

-----------------------------------------------------------------------------
(* All ports: the inductive invariant *)

StageTypeOK ==
  /\ refreshPort \in RefreshPortNames
  /\ stage \in [Handlers -> {"none", "create", "link"}]
  /\ child \in [Handlers -> Tokens \cup {None}]

\* The handlers between the statements of their rotation.
Staged == {h \in Handlers : stage[h] # "none"}

\* Such a handler has a claimed token to itself: a revoked one without a
\* successor, so that no other handler can claim it.  Its child is stored.
StagedClaims ==
  /\ \A h \in Staged :
       /\ ~Has("claim") /\ req[h].pc = "claim"
       /\ req[h].active \in revoked /\ rotatedTo[req[h].active] = None
       /\ stage[h] = "link" => child[h] \in issued /\ sid[child[h]] = sid[req[h].presented]
  /\ \A h, k \in Staged : req[h].active = req[k].active => h = k

\* A session has at most one token that is live or being replaced.
HeldTokens == LiveRows \cup Claimed

OneHeldToken == \A t, u \in HeldTokens : sid[t] = sid[u] => t = u

\* A superseded token is on its way to a refusal.  Nothing here needs the
\* chain of a session, which the split rotation may leave in two pieces.
Stopped(h) ==
  LET t == req[h].presented
  IN  req[h].superseded =>
        /\ t \in issued /\ rotatedTo[t] # None /\ rotatedTo[t] \in revoked
        /\ req[h].pc \notin {"claim", "reread", "regrace", "ok"}
        /\ req[h].pc = "grace" => req[h].to = rotatedTo[t]

PortsInv ==
  /\ TypeInv /\ StageTypeOK /\ StagedClaims /\ OneHeldToken
  /\ \A h \in Handlers : Stopped(h)

-----------------------------------------------------------------------------
(* Steps of the ports by what they may touch *)

\* A refresh step that all ports share, by a handler between no statements.
SharedRefresh(h) ==
  /\ stage[h] = "none" /\ UNCHANGED portVars
  /\ Refresh(h) \/ \E t \in Tokens : Start(h, t)

\* A step of anybody else.
SharedOther == [Next]_vars /\ UNCHANGED <<req, portVars>>

\* A step is one of those, or one of the three statements, or a crash.
LEMMA PortSteps ==
  ASSUME PortsInv, [PortsNext]_allVars
  PROVE  \/ \E h \in Handlers : SharedRefresh(h)
         \/ SharedOther
         \/ \E h \in Handlers : ClaimRow(h) \/ CreateChild(h) \/ LinkChild(h)
         \/ PortCrash
PROOF
<1>0. \A h \in Handlers : stage[h] # "none" => ~Has("claim") /\ req[h].pc = "claim"
  BY DEF PortsInv, StagedClaims, Staged
<1>1. ASSUME NEW h \in Handlers, PortRefresh(h), ~(ClaimRow(h) \/ CreateChild(h) \/ LinkChild(h))
      PROVE  SharedRefresh(h)
  <2>1. UNCHANGED portVars /\ Refresh(h)
    BY <1>1 DEF PortRefresh, Shared, Refresh, CommitReplay
  <2>2. Has("claim") \/ req[h].pc # "claim"
    BY <1>1 DEF PortRefresh, Shared, Lookup, Grace, Reread, Regrace, RevokeForReplay, CommitOrRollback, CommitMatching
  <2> QED
    BY <1>0, <2>1, <2>2 DEF SharedRefresh
<1>2. ASSUME NEW h \in Handlers, NEW t \in Tokens, Shared(Start(h, t)) PROVE SharedRefresh(h)
  <2>1. req[h].pc # "claim"
    BY <1>2 DEF Shared, Start, Waiting
  <2> QED
    BY <1>0, <1>2, <2>1 DEF SharedRefresh, Shared
<1>3. ASSUME NEW s \in Sessions, NEW t \in Tokens, Shared(Login(s, t)) PROVE SharedOther
  BY <1>3 DEF SharedOther, Shared, Next, Login
<1>4. ASSUME NEW r \in Revokers, Shared(ResetPassword(r)) \/ Shared(Revoke(r)) PROVE SharedOther
  BY <1>4 DEF SharedOther, Shared, Next, ResetPassword, Revoke, BeginUpdate
<1>5. ASSUME NEW r \in Revokers, NEW s \in Sessions,
             Shared(Logout(r, s)) \/ Shared(ChangePassword(r, s))
      PROVE  SharedOther
  BY <1>5 DEF SharedOther, Shared, Next, Logout, ChangePassword, BeginUpdate
<1>6. ASSUME NEW t \in Tokens, Shared(Expire(t)) PROVE SharedOther
  BY <1>6 DEF SharedOther, Shared, Next, Expire
<1>7. CASE Shared(Cleanup)
  BY <1>7 DEF SharedOther, Shared, Next, Cleanup
<1>8. CASE UNCHANGED allVars
  BY <1>8 DEF SharedOther, allVars, vars
<1> QED
  BY <1>1, <1>2, <1>3, <1>4, <1>5, <1>6, <1>7, <1>8 DEF PortsNext

\* What every step of every port keeps of the past.
PortHistory ==
  /\ issued \subseteq issued' /\ revoked \subseteq revoked'
  /\ \A t \in issued : sid'[t] = sid[t]
  /\ \A t \in issued : rotatedTo[t] # None => rotatedTo'[t] = rotatedTo[t]

LEMMA SharedHistory ==
  ASSUME PortsInv, [Next]_vars
  PROVE  PortHistory /\ \A t \in revoked : rotatedTo'[t] = rotatedTo[t]
PROOF
<1>1. History
  BY TableHistory DEF PortsInv, TypeInv
<1> QED
  BY <1>1 DEF History, PortHistory

\* The shared refresh steps are steps of RefreshRotation that leave other
\* handlers alone.
LEMMA SharedRefreshStep ==
  ASSUME PortsInv, NEW h \in Handlers, SharedRefresh(h)
  PROVE  /\ [Next]_vars /\ UNCHANGED portVars /\ stage[h] = "none"
         /\ \A k \in Handlers : k # h => req'[k] = req[k]
PROOF
<1>1. Next
  BY DEF SharedRefresh, Next
<1>2. \A k \in Handlers : k # h => req'[k] = req[k]
  BY OthersWait DEF SharedRefresh, PortsInv, TypeInv
<1> QED
  BY <1>1, <1>2 DEF SharedRefresh

-----------------------------------------------------------------------------
(* The three statements, seen from the table *)

\* What a handler at one of its statements has in hand.
LEMMA StagedHandler ==
  ASSUME PortsInv, NEW h \in Handlers, req[h].pc = "claim"
  PROVE  /\ req[h].active \in issued /\ req[h].presented \in issued
         /\ sid[req[h].active] = sid[req[h].presented]
         /\ sid[req[h].active] \in Sessions
PROOF BY DEF PortsInv, TypeInv, RequestOnOneSession, LinksWithinIssued, Waiting

\* The claim revokes the head of a session, or sends the handler back to read.
LEMMA ClaimRowStep ==
  ASSUME PortsInv, NEW h \in Handlers, ClaimRow(h)
  PROVE  /\ TypeInv' /\ PortHistory
         /\ UNCHANGED <<issued, rows, sid, rotatedTo, refreshPort, child>>
         /\ stage[h] = "none" /\ req[h].pc = "claim" /\ ~Has("claim")
         /\ \/ /\ req[h].active \in LiveRows /\ rotatedTo[req[h].active] = None
               /\ revoked' = revoked \cup {req[h].active} /\ UNCHANGED req
               /\ stage' = [stage EXCEPT ![h] = "create"]
            \/ /\ Goto(h, "reread") /\ UNCHANGED <<revoked, stage>>
PROOF
<1> DEFINE a == req[h].active
           head == a \in LiveRows /\ rotatedTo[a] = None
<1>1. /\ TypeInv /\ TypeOK /\ req \in [Handlers -> Request] /\ refreshPort \in RefreshPortNames
      /\ req[h].pc = "claim" /\ Has("claimRow")
      /\ UNCHANGED <<issued, rows, sid, rotatedTo, replayed, expired, rev, refreshPort, child>>
  BY DEF PortsInv, StageTypeOK, TypeInv, TypeOK, ClaimRow
<1>2. a \in issued /\ req[h].presented \in issued /\ sid[a] = sid[req[h].presented]
  BY <1>1, StagedHandler
<1>3. ~Has("claim")
  BY <1>1, RefreshPortsAssumption DEF Has
<1>4. CASE head
  <2>1. /\ revoked' = revoked \cup {a} /\ UNCHANGED req
        /\ stage' = [stage EXCEPT ![h] = "create"]
    BY <1>4 DEF ClaimRow
  <2>2. TypeInv'
    BY <1>1, <1>2, <2>1 DEF TypeInv, TypeOK, RequestOnOneSession, LinksWithinIssued
  <2> QED
    BY <1>1, <1>3, <1>4, <2>1, <2>2 DEF ClaimRow, PortHistory
<1>5. CASE ~head
  <2>1. Goto(h, "reread") /\ UNCHANGED <<revoked, stage>>
    BY <1>5 DEF ClaimRow
  <2> DEFINE q == req'[h]
  <2>2. /\ q \in Request /\ req' = [req EXCEPT ![h] = q]
        /\ q.presented = req[h].presented /\ q.active = a
    BY <1>1, <2>1 DEF Goto, Request, Answers, Waiting
  <2>3. revoked' \subseteq issued /\ replayed' \subseteq issued
    BY <1>1, <2>1 DEF TypeOK
  <2>4. TypeInv'
    BY <1>1, <1>2, <2>2, <2>3, HandlerStep
  <2> QED
    BY <1>1, <1>3, <2>1, <2>4 DEF ClaimRow, PortHistory
<1> QED
  BY <1>4, <1>5

\* The child is a fresh token of the same session.
LEMMA CreateChildStep ==
  ASSUME PortsInv, NEW h \in Handlers, CreateChild(h)
  PROVE  /\ TypeInv' /\ PortHistory
         /\ UNCHANGED <<rotatedTo, revoked, req, refreshPort>>
         /\ stage[h] = "create" /\ stage' = [stage EXCEPT ![h] = "link"]
         /\ \E n \in Tokens \ issued :
              /\ issued' = issued \cup {n} /\ rows' = rows \cup {n}
              /\ sid' = [sid EXCEPT ![n] = sid[req[h].active]]
              /\ child' = [child EXCEPT ![h] = n]
PROOF
<1>1. /\ TypeInv /\ TypeOK /\ stage[h] = "create" /\ req[h].pc = "claim"
      /\ stage' = [stage EXCEPT ![h] = "link"]
      /\ UNCHANGED <<rotatedTo, revoked, replayed, expired, req, rev, refreshPort>>
  BY DEF PortsInv, StagedClaims, Staged, TypeInv, CreateChild
<1>2. /\ sid[req[h].active] = sid[req[h].presented] /\ sid[req[h].active] \in Sessions
  BY <1>1, StagedHandler
<1>3. PICK n \in Tokens \ issued :
        /\ issued' = issued \cup {n} /\ rows' = rows \cup {n}
        /\ sid' = [sid EXCEPT ![n] = sid[req[h].active]]
        /\ child' = [child EXCEPT ![h] = n]
  BY <1>2 DEF CreateChild, Store
<1>4. TypeOK'
  BY <1>1, <1>2, <1>3 DEF TypeOK
<1>5. RequestOnOneSession'
  BY <1>1, <1>3 DEF TypeInv, TypeOK, RequestOnOneSession
<1>6. LinksWithinIssued'
  BY <1>1, <1>2, <1>3 DEF TypeInv, TypeOK, LinksWithinIssued
<1>7. PortHistory
  BY <1>1, <1>3 DEF PortHistory, TypeOK
<1> QED
  BY <1>1, <1>3, <1>4, <1>5, <1>6, <1>7 DEF TypeInv

\* The link is written once, and the handler answers.
LEMMA LinkChildStep ==
  ASSUME PortsInv, NEW h \in Handlers, LinkChild(h)
  PROVE  /\ TypeInv' /\ PortHistory
         /\ UNCHANGED <<issued, rows, sid, revoked, refreshPort>>
         /\ stage[h] = "link" /\ stage' = [stage EXCEPT ![h] = "none"]
         /\ child' = [child EXCEPT ![h] = None]
         /\ rotatedTo' \in {rotatedTo, [rotatedTo EXCEPT ![req[h].active] = child[h]]}
         /\ Answer(h, "ok") \/ Answer(h, "error")
PROOF
<1> DEFINE a == req[h].active
<1>1. /\ TypeInv /\ TypeOK /\ stage[h] = "link" /\ req[h].pc = "claim"
      /\ rotatedTo[a] = None /\ child[h] \in issued
      /\ sid[child[h]] = sid[req[h].presented]
      /\ stage' = [stage EXCEPT ![h] = "none"] /\ child' = [child EXCEPT ![h] = None]
      /\ UNCHANGED <<issued, rows, sid, revoked, replayed, expired, rev, refreshPort>>
      /\ rotatedTo' \in {rotatedTo, [rotatedTo EXCEPT ![a] = child[h]]}
      /\ Answer(h, "ok") \/ Answer(h, "error")
  BY DEF PortsInv, StagedClaims, Staged, TypeInv, LinkChild
<1>2. a \in issued
  BY <1>1, StagedHandler
<1>a. PICK v \in {"ok", "error"} : Answer(h, v)
  BY <1>1
<1> DEFINE q == NewRequest(v, req[h].presented, req[h].superseded)
<1>3. req' = [req EXCEPT ![h] = q] /\ q \in Request /\ q.pc \notin Waiting
  <2>1. /\ v \in {"idle"} \cup Answers \cup Waiting /\ v \notin Waiting
        /\ req[h].presented \in Tokens \cup {None} /\ req[h].superseded \in BOOLEAN
    BY <1>1, HandlerType DEF Answers, Waiting
  <2>2. q \in Request /\ q.pc = v
    BY <2>1, NewRequestType, Zenon
  <2> QED
    BY <1>a, <2>1, <2>2 DEF Answer
<1> HIDE DEF q
<1>4. TypeOK'
  BY <1>1, <1>3 DEF TypeOK
<1>5. RequestOnOneSession'
  BY <1>1, <1>3 DEF TypeInv, TypeOK, RequestOnOneSession
<1>6. LinksWithinIssued'
  BY <1>1, <1>2 DEF TypeInv, TypeOK, LinksWithinIssued
<1>7. PortHistory
  BY <1>1 DEF PortHistory, TypeOK
<1> QED
  BY <1>1, <1>4, <1>5, <1>6, <1>7 DEF TypeInv

-----------------------------------------------------------------------------
(* Between the statements of a rotation *)

\* Nobody takes the claimed token from a handler between its statements.
LEMMA StagedClaimsStep ==
  ASSUME PortsInv, [PortsNext]_allVars
  PROVE  StageTypeOK' /\ StagedClaims'
PROOF
<1>0. /\ StageTypeOK /\ StagedClaims /\ revoked \subseteq issued
      /\ rotatedTo \in [Tokens -> Tokens \cup {None}] /\ issued \subseteq Tokens
  BY DEF PortsInv, TypeInv, TypeOK
<1>1. ASSUME [Next]_vars, UNCHANGED portVars, \A k \in Staged : req'[k] = req[k]
      PROVE  StageTypeOK' /\ StagedClaims'
  <2>1. /\ PortHistory /\ \A t \in revoked : rotatedTo'[t] = rotatedTo[t]
        /\ \A k \in Staged : req[k].presented \in issued
    BY <1>1, SharedHistory, StagedHandler DEF PortsInv, StagedClaims, Staged
  <2>2. Staged' = Staged /\ StageTypeOK'
    BY <1>0, <1>1 DEF Staged, StageTypeOK, portVars
  <2> QED
    BY <1>0, <1>1, <2>1, <2>2 DEF StagedClaims, Has, PortHistory, portVars
<1>2. ASSUME NEW h \in Handlers, SharedRefresh(h) PROVE StageTypeOK' /\ StagedClaims'
  <2>1. [Next]_vars /\ UNCHANGED portVars /\ \A k \in Staged : req'[k] = req[k]
    BY <1>2, SharedRefreshStep DEF Staged
  <2> QED
    BY <1>1, <2>1
<1>3. CASE SharedOther
  BY <1>1, <1>3 DEF SharedOther
<1>4. ASSUME NEW h \in Handlers, ClaimRow(h) PROVE StageTypeOK' /\ StagedClaims'
  <2>0. /\ UNCHANGED <<issued, rows, sid, rotatedTo, refreshPort, child>>
        /\ stage[h] = "none" /\ req[h].pc = "claim" /\ ~Has("claim")
    BY <1>4, ClaimRowStep
  <2>1. CASE /\ req[h].active \in LiveRows /\ rotatedTo[req[h].active] = None
             /\ revoked' = revoked \cup {req[h].active} /\ UNCHANGED req
             /\ stage' = [stage EXCEPT ![h] = "create"]
    <3>1. StageTypeOK' /\ Staged' = Staged \cup {h}
      BY <1>0, <2>0, <2>1 DEF StageTypeOK, Staged
    <3>2. \A k \in Staged : req[k].active # req[h].active /\ stage'[k] = stage[k]
      BY <1>0, <2>0, <2>1 DEF StagedClaims, Staged, LiveRows, StageTypeOK
    <3>3. stage'[h] = "create"
      BY <1>0, <2>1 DEF StageTypeOK
    <3> QED
      BY <1>0, <2>0, <2>1, <3>1, <3>2, <3>3 DEF StagedClaims, Has
  <2>2. CASE Goto(h, "reread") /\ UNCHANGED <<revoked, stage>>
    <3>1. StageTypeOK' /\ Staged' = Staged /\ \A k \in Staged : req'[k] = req[k]
      BY <1>0, <2>0, <2>2 DEF StageTypeOK, Staged, Goto, PortsInv, TypeInv, TypeOK
    <3> QED
      BY <1>0, <2>0, <2>2, <3>1 DEF StagedClaims, Has
  <2> QED
    BY <1>4, <2>1, <2>2, ClaimRowStep
<1>5. ASSUME NEW h \in Handlers, CreateChild(h) PROVE StageTypeOK' /\ StagedClaims'
  <2>0. /\ UNCHANGED <<rotatedTo, revoked, req, refreshPort>>
        /\ stage[h] = "create" /\ stage' = [stage EXCEPT ![h] = "link"]
    BY <1>5, CreateChildStep
  <2>1. PICK n \in Tokens \ issued :
          /\ issued' = issued \cup {n} /\ rows' = rows \cup {n}
          /\ sid' = [sid EXCEPT ![n] = sid[req[h].active]]
          /\ child' = [child EXCEPT ![h] = n]
    BY <1>5, CreateChildStep
  <2>2. StageTypeOK' /\ Staged' = Staged
    BY <1>0, <2>0, <2>1 DEF StageTypeOK, Staged
  <2>3. \A k \in Staged : /\ req[k].presented \in issued
                          /\ sid[req[k].active] = sid[req[k].presented]
    BY <1>0, StagedHandler DEF StagedClaims, Staged
  <2>4. ASSUME NEW k \in Staged, stage'[k] = "link"
        PROVE  child'[k] \in issued' /\ sid'[child'[k]] = sid'[req'[k].presented]
    <3>1. CASE k = h
      BY <1>0, <2>0, <2>1, <2>3, <3>1 DEF StageTypeOK, Staged, PortsInv, TypeInv, TypeOK
    <3>2. CASE k # h
      <4>1. child'[k] = child[k] /\ stage[k] = "link" /\ k \in Handlers
        BY <1>0, <2>0, <2>1, <2>4, <3>2 DEF StageTypeOK, Staged
      <4>2. child[k] \in issued /\ sid[child[k]] = sid[req[k].presented]
        BY <1>0, <4>1 DEF StagedClaims
      <4> QED
        BY <1>0, <2>0, <2>1, <2>3, <4>1, <4>2
    <3> QED
      BY <3>1, <3>2
  <2> QED
    BY <1>0, <2>0, <2>2, <2>4 DEF StagedClaims, Has
<1>6. ASSUME NEW h \in Handlers, LinkChild(h) PROVE StageTypeOK' /\ StagedClaims'
  <2>0. /\ UNCHANGED <<issued, rows, sid, revoked, refreshPort>>
        /\ stage[h] = "link" /\ stage' = [stage EXCEPT ![h] = "none"]
        /\ child' = [child EXCEPT ![h] = None]
        /\ rotatedTo' \in {rotatedTo, [rotatedTo EXCEPT ![req[h].active] = child[h]]}
        /\ Answer(h, "ok") \/ Answer(h, "error")
    BY <1>6, LinkChildStep
  <2>1. StageTypeOK' /\ Staged' = Staged \ {h} /\ h \in Staged
    BY <1>0, <2>0 DEF StageTypeOK, Staged
  <2>2. ASSUME NEW k \in Staged, k # h
        PROVE  /\ req'[k] = req[k] /\ stage'[k] = stage[k] /\ child'[k] = child[k]
               /\ rotatedTo'[req[k].active] = rotatedTo[req[k].active]
    <3>1. req[k].active # req[h].active /\ req[k].active \in Tokens
      BY <1>0, <2>1, <2>2 DEF StagedClaims
    <3>2. req'[k] = req[k]
      BY <2>0, <2>2 DEF Answer, Staged, PortsInv, TypeInv, TypeOK
    <3> QED
      BY <1>0, <2>0, <2>2, <3>1, <3>2 DEF StageTypeOK, Staged
  <2> QED
    BY <1>0, <2>0, <2>1, <2>2 DEF StagedClaims, Has
<1>7. CASE PortCrash
  <2>1. StageTypeOK' /\ Staged' = {}
    BY <1>0, <1>7 DEF PortCrash, StageTypeOK, Staged
  <2> QED
    BY <2>1 DEF StagedClaims
<1> QED
  BY <1>2, <1>3, <1>4, <1>5, <1>6, <1>7, PortSteps

-----------------------------------------------------------------------------
(* What a session holds *)

\* A login adds a token that opens its session.
Opens(s, t) ==
  /\ s \notin Opened /\ t \notin issued
  /\ issued' = issued \cup {t} /\ sid' = [sid EXCEPT ![t] = s]
  /\ HeldTokens' = HeldTokens \cup {t}

\* A rotation puts a fresh token in the place of the one it claimed.
Replaces(a, n) ==
  /\ a \in HeldTokens /\ n \notin issued
  /\ issued' = issued \cup {n} /\ sid' = [sid EXCEPT ![n] = sid[a]]
  /\ HeldTokens' = (HeldTokens \ {a}) \cup {n}

\* Every other step takes tokens away, or none.
Shrinks == UNCHANGED <<issued, sid>> /\ HeldTokens' \subseteq HeldTokens

\* The tokens being replaced are issued and revoked.
LEMMA ClaimedRevoked ==
  ASSUME PortsInv
  PROVE  Claimed \subseteq revoked /\ Claimed \subseteq issued /\ HeldTokens \subseteq issued
PROOF
<1>1. Claimed \subseteq revoked
  BY DEF Claimed, PortsInv, StagedClaims, Staged
<1>2. revoked \subseteq issued /\ rows \subseteq issued
  BY DEF PortsInv, TypeInv, TypeOK
<1> QED
  BY <1>1, <1>2 DEF HeldTokens, LiveRows

LEMMA HeldSteps ==
  ASSUME PortsInv, [PortsNext]_allVars
  PROVE  \/ \E s \in Sessions, t \in Tokens : Opens(s, t)
         \/ \E a \in issued, n \in Tokens : Replaces(a, n)
         \/ Shrinks
PROOF
<1>0. /\ Claimed \subseteq revoked /\ HeldTokens \subseteq issued
      /\ rows \subseteq issued /\ revoked \subseteq issued
      /\ sid \in [Tokens -> Sessions \cup {None}]
  BY ClaimedRevoked DEF PortsInv, TypeInv, TypeOK
<1>1. ASSUME UNCHANGED portVars, \A k \in Handlers : stage[k] = "create" => req'[k] = req[k]
      PROVE  Claimed' = Claimed
  BY <1>1 DEF Claimed, portVars
<1>2. ASSUME NEW h \in Handlers, SharedRefresh(h)
      PROVE  Shrinks \/ \E a \in issued, n \in Tokens : Replaces(a, n)
  <2>0. [Next]_vars /\ Claimed' = Claimed
    BY <1>1, <1>2, SharedRefreshStep
  <2>1. CASE /\ ~\E s \in Sessions, t \in Tokens : Login(s, t)
             /\ ~\E k \in Handlers, n \in Tokens \ issued : Rotation(k, n) /\ Claim(k)
    BY <2>0, <2>1, OtherStepsShrink DEF Shrinks, HeldTokens, LiveRows
  <2>2. ASSUME NEW k \in Handlers, NEW n \in Tokens \ issued, Rotation(k, n), Claim(k)
        PROVE  Shrinks \/ \E a \in issued, m \in Tokens : Replaces(a, m)
    <3> DEFINE a == req[k].active
    <3>1. CASE a \in LiveRows /\ rotatedTo[a] = None
      <4>1. a \in issued /\ sid[a] = sid[req[k].presented]
        BY <2>2, StagedHandler DEF Claim
      <4>2. /\ issued' = issued \cup {n} /\ rows' = rows \cup {n}
            /\ sid' = [sid EXCEPT ![n] = sid[a]] /\ revoked' = revoked \cup {a}
        BY <2>2, <4>1 DEF Rotation, Store
      <4>3. HeldTokens' = (HeldTokens \ {a}) \cup {n}
        BY <1>0, <2>0, <3>1, <4>1, <4>2 DEF HeldTokens, LiveRows
      <4> QED
        BY <3>1, <4>1, <4>2, <4>3 DEF Replaces, HeldTokens
    <3>2. CASE ~(a \in LiveRows /\ rotatedTo[a] = None)
      BY <2>0, <2>2, <3>2 DEF Claim, Shrinks, HeldTokens, LiveRows
    <3> QED
      BY <3>1, <3>2
  <2>3. ASSUME NEW s \in Sessions, NEW t \in Tokens, Login(s, t) PROVE Shrinks
    <3>1. req' = req
      BY <2>3 DEF Login
    <3>2. req'[h].pc # req[h].pc
      BY <1>2 DEF SharedRefresh, Refresh, Lookup, Grace, Claim, Reread, Regrace, RevokeForReplay,
           CommitReplay, CommitOrRollback, CommitMatching, Goto, Answer, ReadRow, Start, NewRequest,
           PortsInv, TypeInv, TypeOK, Request, Waiting
    <3> QED
      BY <3>1, <3>2
  <2> QED
    BY <2>1, <2>2, <2>3
<1>3. CASE SharedOther
  <2>0. [Next]_vars /\ Claimed' = Claimed
    BY <1>1, <1>3 DEF SharedOther
  <2>1. ASSUME NEW s \in Sessions, NEW t \in Tokens, Login(s, t) PROVE Opens(s, t)
    BY <1>0, <2>0, <2>1 DEF Login, Store, Opens, HeldTokens, LiveRows
  <2>2. ASSUME NEW k \in Handlers, NEW n \in Tokens \ issued, Rotation(k, n), Claim(k)
        PROVE  Shrinks
    <3>1. req'[k].pc # req[k].pc
      BY <2>2 DEF Claim, Goto, Answer, NewRequest, PortsInv, TypeInv, TypeOK, Request
    <3> QED
      BY <1>3, <3>1 DEF SharedOther
  <2>3. CASE /\ ~\E s \in Sessions, t \in Tokens : Login(s, t)
             /\ ~\E k \in Handlers, n \in Tokens \ issued : Rotation(k, n) /\ Claim(k)
    BY <2>0, <2>3, OtherStepsShrink DEF Shrinks, HeldTokens, LiveRows
  <2> QED
    BY <2>1, <2>2, <2>3
<1>4. ASSUME NEW h \in Handlers, ClaimRow(h) PROVE Shrinks
  <2>0. /\ UNCHANGED <<issued, rows, sid>> /\ stage[h] = "none" /\ StageTypeOK
    BY <1>4, ClaimRowStep DEF PortsInv
  <2>1. CASE /\ req[h].active \in LiveRows /\ revoked' = revoked \cup {req[h].active} /\ UNCHANGED req
             /\ stage' = [stage EXCEPT ![h] = "create"]
    <3>1. Claimed' = Claimed \cup {req[h].active}
      BY <2>0, <2>1 DEF Claimed, StageTypeOK
    <3> QED
      BY <2>0, <2>1, <3>1 DEF Shrinks, HeldTokens, LiveRows
  <2>2. CASE Goto(h, "reread") /\ UNCHANGED <<revoked, stage>>
    <3>1. Claimed' = Claimed
      BY <2>0, <2>2 DEF Claimed, Goto, PortsInv, TypeInv, TypeOK
    <3> QED
      BY <2>0, <2>2, <3>1 DEF Shrinks, HeldTokens, LiveRows
  <2> QED
    BY <1>4, <2>1, <2>2, ClaimRowStep
<1>5. ASSUME NEW h \in Handlers, CreateChild(h)
      PROVE  \E a \in issued, n \in Tokens : Replaces(a, n)
  <2> DEFINE a == req[h].active
  <2>0. /\ UNCHANGED <<revoked, req>> /\ StageTypeOK
        /\ stage[h] = "create" /\ stage' = [stage EXCEPT ![h] = "link"]
    BY <1>5, CreateChildStep DEF PortsInv
  <2>1. PICK n \in Tokens \ issued :
          /\ issued' = issued \cup {n} /\ rows' = rows \cup {n}
          /\ sid' = [sid EXCEPT ![n] = sid[a]]
    BY <1>5, CreateChildStep
  <2>2. a \in Claimed
    BY <2>0 DEF Claimed
  <2>3. Claimed' = Claimed \ {a}
    <3>1. \A k \in Handlers : stage'[k] = "create" <=> stage[k] = "create" /\ k # h
      BY <2>0 DEF StageTypeOK
    <3>2. \A k \in Handlers : stage[k] = "create" /\ k # h => req[k].active # a
      BY <2>0 DEF PortsInv, StagedClaims, Staged
    <3> QED
      BY <2>0, <3>1, <3>2 DEF Claimed
  <2>4. HeldTokens' = (HeldTokens \ {a}) \cup {n}
    BY <1>0, <2>0, <2>1, <2>2, <2>3 DEF HeldTokens, LiveRows
  <2> QED
    BY <1>0, <2>1, <2>2, <2>4 DEF Replaces, HeldTokens
<1>6. ASSUME NEW h \in Handlers, LinkChild(h) PROVE Shrinks
  <2>0. /\ UNCHANGED <<issued, rows, sid, revoked>> /\ StageTypeOK
        /\ stage' = [stage EXCEPT ![h] = "none"]
        /\ Answer(h, "ok") \/ Answer(h, "error")
    BY <1>6, LinkChildStep DEF PortsInv
  <2>1. \A k \in Handlers : k # h => req'[k] = req[k]
    BY <2>0 DEF Answer, PortsInv, TypeInv, TypeOK
  <2>2. Claimed' \subseteq Claimed
    BY <2>0, <2>1 DEF Claimed, StageTypeOK
  <2> QED
    BY <2>0, <2>2 DEF Shrinks, HeldTokens, LiveRows
<1>7. CASE PortCrash
  <2>1. Claimed' = {} /\ UNCHANGED <<issued, rows, sid, revoked>>
    BY <1>7 DEF PortCrash, Crash, Claimed, tableVars
  <2> QED
    BY <2>1 DEF Shrinks, HeldTokens, LiveRows
<1> QED
  BY <1>2, <1>3, <1>4, <1>5, <1>6, <1>7, PortSteps

\* A session never holds two tokens.
LEMMA OneHeldTokenStep ==
  ASSUME PortsInv, [PortsNext]_allVars
  PROVE  OneHeldToken'
PROOF
<1>0. /\ OneHeldToken /\ HeldTokens \subseteq issued /\ issued \subseteq Tokens
      /\ sid \in [Tokens -> Sessions \cup {None}]
  BY ClaimedRevoked DEF PortsInv, TypeInv, TypeOK
<1>1. ASSUME NEW s \in Sessions, NEW t \in Tokens, Opens(s, t) PROVE OneHeldToken'
  BY <1>0, <1>1 DEF Opens, Opened, OneHeldToken
<1>2. ASSUME NEW a \in issued, NEW n \in Tokens, Replaces(a, n) PROVE OneHeldToken'
  BY <1>0, <1>2 DEF Replaces, OneHeldToken
<1>3. CASE Shrinks
  BY <1>0, <1>3 DEF Shrinks, OneHeldToken
<1> QED
  BY <1>1, <1>2, <1>3, HeldSteps

-----------------------------------------------------------------------------
(* Superseded tokens *)

\* A handler that does not move, or claims nothing and answers, stays stopped.
LEMMA StoppedWaits ==
  ASSUME PortsInv, PortHistory, NEW h \in Handlers, req'[h] = req[h]
  PROVE  Stopped(h)'
PROOF BY DEF PortsInv, PortHistory, Stopped

\* The handler of a superseded token has nothing to claim.
LEMMA StoppedMoves ==
  ASSUME PortsInv, PortHistory, NEW h \in Handlers, Refresh(h)
  PROVE  Stopped(h)'
PROOF
<1> DEFINE t == req[h].presented
<1>0. /\ TypeOK /\ Stopped(h) /\ req[h].pc \in Waiting /\ t \in issued
  <2>1. req[h].pc \in Waiting
    BY DEF Refresh, Lookup, Grace, Claim, Reread, Regrace, RevokeForReplay, CommitReplay,
           CommitOrRollback, CommitMatching, Waiting
  <2> QED
    BY <2>1 DEF PortsInv, TypeInv, RequestOnOneSession
<1>1. CASE ~req[h].superseded
  <2>1. ~req'[h].superseded
    BY <1>0, <1>1 DEF Refresh, Lookup, Grace, Claim, Reread, Regrace, RevokeForReplay,
         CommitReplay, CommitOrRollback, CommitMatching, Goto, Answer, ReadRow, NewRequest, TypeOK, Request
  <2> QED
    BY <2>1 DEF Stopped
<1>2. CASE req[h].superseded
  <2>0. /\ rotatedTo[t] # None /\ rotatedTo[t] \in revoked
        /\ rotatedTo'[t] = rotatedTo[t] /\ rotatedTo[t] \in revoked' /\ t \in issued'
        /\ req[h].pc \notin {"claim", "reread", "regrace", "ok"}
        /\ req[h].pc = "grace" => req[h].to = rotatedTo[t]
    BY <1>0, <1>2 DEF Stopped, PortHistory
  <2> SUFFICES /\ req'[h].presented = t
               /\ req'[h].pc \notin {"claim", "reread", "regrace", "ok"}
               /\ req'[h].pc = "grace" => req'[h].to = rotatedTo[t]
    BY <2>0 DEF Stopped
  <2>1. CASE Lookup(h)
    <3>1. CASE Answer(h, "denied")
      BY <1>0, <3>1, AnswerFields DEF Answers
    <3>2. CASE ReadRow(h, t, "grace")
      BY <1>0, <3>2, ReadRowFields DEF Waiting, TypeOK
    <3> QED
      BY <2>0, <2>1, <3>1, <3>2 DEF Lookup
  <2>2. CASE Grace(h)
    <3>1. Goto(h, "revoke")
      BY <2>0, <2>2 DEF Grace, GraceChild
    <3> QED
      BY <1>0, <3>1, GotoFields DEF Waiting
  <2>3. CASE RevokeForReplay(h)
    BY <1>0, <2>3 DEF RevokeForReplay, TypeOK, Request
  <2>4. CASE CommitReplay(h)
    <3>1. PICK v \in {"replay", "error"} : Answer(h, v)
      BY <2>4 DEF CommitReplay, CommitOrRollback, CommitMatching
    <3> QED
      BY <1>0, <3>1, AnswerFields DEF Answers
  <2>5. ~(Claim(h) \/ Reread(h) \/ Regrace(h))
    BY <2>0 DEF Claim, Reread, Regrace
  <2> QED
    BY <2>1, <2>2, <2>3, <2>4, <2>5 DEF Refresh
<1> QED
  BY <1>0, <1>1, <1>2 DEF Stopped

LEMMA StoppedStep ==
  ASSUME PortsInv, [PortsNext]_allVars, NEW k \in Handlers
  PROVE  Stopped(k)'
PROOF
<1>0. TypeOK /\ StageTypeOK /\ Stopped(k)
  BY DEF PortsInv, TypeInv
<1>1. ASSUME NEW h \in Handlers, SharedRefresh(h) PROVE Stopped(k)'
  <2>0. PortHistory
    BY <1>1, SharedRefreshStep, SharedHistory
  <2>1. CASE k # h
    BY <1>1, <2>0, <2>1, SharedRefreshStep, StoppedWaits
  <2>2. CASE k = h /\ Refresh(h)
    BY <2>0, <2>2, StoppedMoves
  <2>3. ASSUME k = h, NEW t \in Tokens, Start(h, t) PROVE Stopped(k)'
    <3>1. /\ req'[h].pc = "lookup" /\ req'[h].presented = t
          /\ req'[h].superseded => rotatedTo[t] # None /\ rotatedTo[t] \in revoked
          /\ t \in issued /\ UNCHANGED <<issued, rotatedTo, revoked>>
      BY <1>0, <2>3 DEF Start, NewRequest, TypeOK, tableVars
    <3> QED
      BY <2>3, <3>1 DEF Stopped
  <2> QED
    BY <1>1, <2>1, <2>2, <2>3 DEF SharedRefresh
<1>2. CASE SharedOther
  BY <1>2, SharedHistory, StoppedWaits DEF SharedOther
<1>3. ASSUME NEW h \in Handlers, ClaimRow(h) PROVE Stopped(k)'
  <2>0. PortHistory /\ req[h].pc = "claim"
    BY <1>3, ClaimRowStep
  <2>1. CASE req'[k] = req[k]
    BY <2>0, <2>1, StoppedWaits
  <2>2. CASE Goto(h, "reread") /\ k = h
    <3>1. ~req[h].superseded
      BY <1>0, <2>0, <2>2 DEF Stopped
    <3> QED
      BY <1>0, <2>2, <3>1, GotoFields DEF Stopped, Waiting
  <2>3. (Goto(h, "reread") /\ k = h) \/ req'[k] = req[k]
    BY <1>0, <1>3, ClaimRowStep DEF Goto, TypeOK
  <2> QED
    BY <2>1, <2>2, <2>3
<1>4. ASSUME NEW h \in Handlers, CreateChild(h) PROVE Stopped(k)'
  BY <1>4, CreateChildStep, StoppedWaits
<1>5. ASSUME NEW h \in Handlers, LinkChild(h) PROVE Stopped(k)'
  <2>0. PortHistory /\ stage[h] = "link"
    BY <1>5, LinkChildStep
  <2>1. PICK v \in {"ok", "error"} : Answer(h, v)
    BY <1>5, LinkChildStep
  <2>2. CASE k # h
    <3>1. req'[k] = req[k]
      BY <1>0, <2>1, <2>2 DEF Answer, TypeOK
    <3> QED
      BY <2>0, <3>1, StoppedWaits
  <2>3. CASE k = h
    <3>1. req[h].pc = "claim"
      BY <2>0 DEF PortsInv, StagedClaims, Staged
    <3>2. ~req[h].superseded
      BY <1>0, <2>3, <3>1 DEF Stopped
    <3> QED
      BY <1>0, <2>1, <2>3, <3>2, AnswerFields DEF Stopped, Answers
  <2> QED
    BY <2>2, <2>3
<1>6. CASE PortCrash
  <2>1. ~req'[k].superseded
    BY <1>6 DEF PortCrash, Crash, IdleRequest, NewRequest
  <2> QED
    BY <2>1 DEF Stopped
<1> QED
  BY <1>1, <1>2, <1>3, <1>4, <1>5, <1>6, PortSteps

-----------------------------------------------------------------------------
(* The inductive step *)

LEMMA PortsTypeInvStep ==
  ASSUME PortsInv, [PortsNext]_allVars
  PROVE  TypeInv'
PROOF
<1>1. ASSUME [Next]_vars PROVE TypeInv'
  BY <1>1, NextTypeInv DEF PortsInv
<1>2. ASSUME NEW h \in Handlers, SharedRefresh(h) PROVE TypeInv'
  BY <1>1, <1>2, SharedRefreshStep
<1>3. CASE SharedOther
  BY <1>1, <1>3 DEF SharedOther
<1>4. CASE PortCrash
  BY <1>1, <1>4 DEF PortCrash, Next
<1> QED
  BY <1>2, <1>3, <1>4, PortSteps, ClaimRowStep, CreateChildStep, LinkChildStep

LEMMA InitPortsInv == PortsInit => PortsInv
PROOF
<1>1. PortsInit => TypeInv
  BY InitTypeInv DEF PortsInit
<1>2. PortsInit => StageTypeOK /\ StagedClaims /\ OneHeldToken
  BY DEF PortsInit, Init, StageTypeOK, StagedClaims, Staged, OneHeldToken, HeldTokens, Claimed, LiveRows
<1>3. PortsInit => \A h \in Handlers : Stopped(h)
  BY DEF PortsInit, Init, Stopped, IdleRequest, NewRequest
<1> QED
  BY <1>1, <1>2, <1>3 DEF PortsInv

LEMMA NextPortsInv == PortsInv /\ [PortsNext]_allVars => PortsInv'
PROOF BY PortsTypeInvStep, StagedClaimsStep, OneHeldTokenStep, StoppedStep DEF PortsInv

\* PortsInv is an invariant of every port, the split rotation included.
THEOREM PortsInvariance == PortsSpec => []PortsInv
PROOF BY InitPortsInv, NextPortsInv, PTL DEF PortsSpec

\* In every port the table and the handlers keep their types, the retry loop
\* its bound.
THEOREM PortsTypeCorrect == PortsSpec => []TypeOK
PROOF
<1>1. PortsInv => TypeOK
  BY DEF PortsInv, TypeInv
<1> QED
  BY <1>1, PortsInvariance, PTL

\* No port ever gives a session two usable refresh tokens, not even the one
\* whose rotation is three statements that others may run between.
THEOREM PortsOneLiveToken == PortsSpec => []OneLiveTokenPerSession
PROOF
<1>1. PortsInv => OneLiveTokenPerSession
  BY DEF PortsInv, OneHeldToken, HeldTokens, OneLiveTokenPerSession
<1> QED
  BY <1>1, PortsInvariance, PTL

\* No port serves a token that was superseded twice before the request came,
\* whatever the number of attempts.
THEOREM PortsSupersededRefused == PortsSpec => []SupersededNeverServed
PROOF
<1>1. PortsInv => SupersededNeverServed
  BY DEF PortsInv, Stopped, SupersededNeverServed
<1> QED
  BY <1>1, PortsInvariance, PTL

-----------------------------------------------------------------------------
(* Refinement: the token a session holds is its current one *)

\* The current token of a session that holds one is that token.
HeldTokenIsHeld == \A s \in Sessions : \A t \in Held(s) : HeldToken(s) = t

LEMMA HeldIsHeldToken == PortsInv => HeldTokenIsHeld
PROOF
<1> SUFFICES ASSUME PortsInv, NEW s \in Sessions, NEW t \in Held(s) PROVE HeldToken(s) = t
  BY DEF HeldTokenIsHeld
<1>1. t \in Tokens /\ s \in Opened
  BY ClaimedRevoked DEF Held, HeldTokens, Opened, PortsInv, TypeInv, TypeOK
<1>2. \A u \in Held(s) : u = t
  BY DEF PortsInv, OneHeldToken, HeldTokens, Held
<1>3. (CHOOSE u \in Held(s) : TRUE) = t
  BY <1>2
<1> QED
  BY <1>1, <1>3 DEF HeldToken

\* The same after a step.
LEMMA HeldIsHeldTokenNext == PortsInv' => HeldTokenIsHeld'
PROOF BY HeldIsHeldToken, PTL

\* HeldToken depends only on whether the session is open and on what it holds.
LEMMA HeldTokenStays ==
  ASSUME NEW s \in Sessions, (s \in Opened) = (s \in Opened)', Held(s)' = Held(s)
  PROVE  HeldToken(s)' = HeldToken(s)
PROOF BY DEF HeldToken

\* A token is added to session s, where another one may make room for it.
LEMMA HeldTokenAdded ==
  ASSUME PortsInv, PortsInv', NEW s \in Sessions, NEW n \in Tokens, n \notin issued,
         issued' = issued \cup {n}, sid' = [sid EXCEPT ![n] = s],
         NEW gone, gone \subseteq Held(s),
         HeldTokens' = (HeldTokens \ gone) \cup {n}
  PROVE  /\ HeldToken(s)' = n
         /\ \A u \in Sessions : u # s => HeldToken(u)' = HeldToken(u)
PROOF
<1>0. /\ sid \in [Tokens -> Sessions \cup {None}] /\ issued \subseteq Tokens
      /\ HeldTokens \subseteq issued
  BY ClaimedRevoked DEF PortsInv, TypeInv, TypeOK
<1>1. n \in Held(s)'
  BY <1>0 DEF Held, HeldTokens
<1>2. ASSUME NEW u \in Sessions, u # s PROVE HeldToken(u)' = HeldToken(u)
  <2>1. (u \in Opened) = (u \in Opened)'
    BY <1>0, <1>2 DEF Opened
  <2>2. Held(u)' = Held(u)
    BY <1>0, <1>2 DEF Held, HeldTokens
  <2> QED
    BY <2>1, <2>2, HeldTokenStays
<1> QED
  BY <1>1, <1>2, HeldIsHeldTokenNext DEF HeldTokenIsHeld

LEMMA OpensRefines ==
  ASSUME PortsInv, PortsInv', NEW s \in Sessions, NEW t \in Tokens, Opens(s, t)
  PROVE  PortLifecycle!Open(s, t)
PROOF
<1>1. HeldToken(s) = "unopened"
  <2>1. s \notin Opened /\ Held(s) = {}
    BY ClaimedRevoked DEF Opens, Opened, Held, HeldTokens
  <2> QED
    BY <2>1 DEF HeldToken
<1>2. /\ HeldToken(s)' = t
      /\ \A u \in Sessions : u # s => HeldToken(u)' = HeldToken(u)
  <2> DEFINE none == {}
  <2>1. /\ t \notin issued /\ issued' = issued \cup {t} /\ sid' = [sid EXCEPT ![t] = s]
        /\ none \subseteq Held(s) /\ HeldTokens' = (HeldTokens \ none) \cup {t}
    BY DEF Opens
  <2> HIDE DEF none
  <2> QED
    BY <2>1, HeldTokenAdded
<1> QED
  BY <1>1, <1>2 DEF Opens, PortLifecycle!Open, PortLifecycle!Issue

LEMMA ReplacesRefines ==
  ASSUME PortsInv, PortsInv', NEW a \in issued, NEW n \in Tokens, Replaces(a, n)
  PROVE  \E s \in Sessions : PortLifecycle!Rotate(s, n)
PROOF
<1>0. PICK s \in Sessions : s = sid[a]
  BY DEF PortsInv, TypeInv, LinksWithinIssued
<1>1. a \in Held(s) /\ a \in Tokens
  BY <1>0 DEF Replaces, Held, HeldTokens, PortsInv, TypeInv, TypeOK
<1>2. HeldToken(s) \in Tokens
  BY <1>1, HeldIsHeldToken DEF HeldTokenIsHeld
<1>3. /\ HeldToken(s)' = n
      /\ \A u \in Sessions : u # s => HeldToken(u)' = HeldToken(u)
  BY <1>0, <1>1, HeldTokenAdded DEF Replaces
<1> QED
  BY <1>2, <1>3 DEF Replaces, PortLifecycle!Rotate, PortLifecycle!Issue

LEMMA ShrinksRefines ==
  ASSUME PortsInv, PortsInv', Shrinks
  PROVE  \E S \in SUBSET Sessions : PortLifecycle!Close(S)
PROOF
<1> DEFINE S == {s \in Sessions : Held(s) # {} /\ Held(s)' = {}}
<1>1. ASSUME NEW s \in Sessions PROVE (s \in Opened) = (s \in Opened)' /\ Held(s)' \subseteq Held(s)
  BY DEF Shrinks, Opened, Held, HeldTokens
<1>2. ASSUME NEW s \in S PROVE HeldToken(s) \in Tokens /\ HeldToken(s)' = "closed"
  <2>1. PICK t \in Held(s) : t \in issued /\ t \in Tokens /\ sid[t] = s
    BY ClaimedRevoked DEF Held, HeldTokens, PortsInv, TypeInv, TypeOK
  <2>2. HeldToken(s) = t
    BY <2>1, HeldIsHeldToken DEF HeldTokenIsHeld
  <2>3. (s \in Opened)'
    BY <2>1, <1>1 DEF Opened
  <2> QED
    BY <2>1, <2>2, <2>3 DEF HeldToken
<1>3. ASSUME NEW s \in Sessions, s \notin S PROVE HeldToken(s)' = HeldToken(s)
  <2>1. \A t, u \in Held(s) : t = u
    BY DEF PortsInv, OneHeldToken, HeldTokens, Held
  <2>2. Held(s)' = Held(s)
    BY <1>1, <1>3, <2>1
  <2> QED
    BY <2>2, <1>1, HeldTokenStays
<1>4. PortLifecycle!Close(S)
  <2>1. ASSUME NEW s \in Sessions
        PROVE  HeldToken(s)' = IF s \in S THEN "closed" ELSE HeldToken(s)
    BY <1>2, <1>3
  <2>2. \A s \in S : HeldToken(s) \in Tokens /\ s \in Sessions
    BY <1>2
  <2> HIDE DEF S
  <2> QED
    BY <2>1, <2>2 DEF Shrinks, PortLifecycle!Close
<1> QED
  BY <1>4

\* Every step of every port is a step of the lifecycle or leaves it alone.
LEMMA PortsNextRefines ==
  ASSUME PortsInv, PortsInv', [PortsNext]_allVars
  PROVE  PortLifecycle!Next
PROOF
<1>1. ASSUME NEW s \in Sessions, NEW t \in Tokens, Opens(s, t) PROVE PortLifecycle!Next
  BY <1>1, OpensRefines DEF PortLifecycle!Next
<1>2. ASSUME NEW a \in issued, NEW n \in Tokens, Replaces(a, n) PROVE PortLifecycle!Next
  BY <1>2, ReplacesRefines DEF PortLifecycle!Next
<1>3. CASE Shrinks
  BY <1>3, ShrinksRefines DEF PortLifecycle!Next
<1> QED
  BY <1>1, <1>2, <1>3, HeldSteps

\* Every port implements SessionLifecycle, the one that rotates in three
\* statements too: whatever runs or crashes between them, a session has one
\* current token, replaced by tokens nobody held, and is never revived.
THEOREM PortsRefinement == PortsSpec => PortsImplementLifecycle
PROOF
<1>1. PortsInit => PortLifecycle!Init
  BY DEF PortsInit, Init, PortLifecycle!Init, HeldToken, Held, Claimed, LiveRows, Opened
<1>2. PortsInv /\ PortsInv' /\ [PortsNext]_allVars => PortLifecycle!Next
  BY PortsNextRefines
<1> QED
  BY <1>1, <1>2, PortsInvariance, PTL DEF PortsSpec, PortsImplementLifecycle, PortLifecycle!Spec

-----------------------------------------------------------------------------
(* Every refresh request is answered within a number of steps of its own *)

\* The steps a handler may still take: at most three for each attempt that is
\* left, and two to revoke the session.
StepsLeft(q) ==
  LET attempts == 3 * (MaxAttempts - q.attempt) IN
  CASE q.pc = "lookup" -> 3 * MaxAttempts + 4
    [] q.pc = "grace" -> 3 * MaxAttempts + 3
    [] q.pc = "claim" -> attempts + 5
    [] q.pc = "reread" -> attempts + 4
    [] q.pc = "regrace" -> attempts + 3
    [] q.pc = "revoke" -> 2
    [] q.pc = "commit" -> 1
    [] OTHER -> 0

PortStepsLeft(h) ==
  CASE stage[h] = "create" -> 2 [] stage[h] = "link" -> 1 [] OTHER -> StepsLeft(req[h])

\* However the others interleave, a handler that moves gets closer to its
\* answer, and one that waits stays where it is.
AnswerNearer ==
  \A h \in Handlers : req[h].pc \in Waiting =>
    \/ PortStepsLeft(h)' < PortStepsLeft(h)
    \/ req'[h] = req[h] /\ stage'[h] = stage[h]

\* The measure by the state of a handler, every value a number.
LEMMA StepsLeftValues ==
  ASSUME NEW q, q.attempt \in 1..MaxAttempts
  PROVE  /\ q.pc = "lookup" => StepsLeft(q) = 3 * MaxAttempts + 4
         /\ q.pc = "grace" => StepsLeft(q) = 3 * MaxAttempts + 3
         /\ q.pc = "claim" => StepsLeft(q) = 3 * (MaxAttempts - q.attempt) + 5
         /\ q.pc = "reread" => StepsLeft(q) = 3 * (MaxAttempts - q.attempt) + 4
         /\ q.pc = "regrace" => StepsLeft(q) = 3 * (MaxAttempts - q.attempt) + 3
         /\ q.pc = "revoke" => StepsLeft(q) = 2
         /\ q.pc = "commit" => StepsLeft(q) = 1
         /\ q.pc \notin Waiting => StepsLeft(q) = 0
         /\ StepsLeft(q) \in 0..(3 * MaxAttempts + 4)
PROOF
<1>1. MaxAttempts \in Nat /\ q.attempt \in Nat /\ q.attempt <= MaxAttempts /\ 1 <= q.attempt
  BY ConstantsAssumption
<1>2. /\ q.pc = "lookup" => StepsLeft(q) = 3 * MaxAttempts + 4
      /\ q.pc = "grace" => StepsLeft(q) = 3 * MaxAttempts + 3
      /\ q.pc = "claim" => StepsLeft(q) = 3 * (MaxAttempts - q.attempt) + 5
      /\ q.pc = "reread" => StepsLeft(q) = 3 * (MaxAttempts - q.attempt) + 4
      /\ q.pc = "regrace" => StepsLeft(q) = 3 * (MaxAttempts - q.attempt) + 3
      /\ q.pc = "revoke" => StepsLeft(q) = 2
      /\ q.pc = "commit" => StepsLeft(q) = 1
      /\ q.pc \notin Waiting => StepsLeft(q) = 0
  BY DEF StepsLeft, Waiting
<1> QED
  BY <1>1, <1>2 DEF Waiting

\* A step of RefreshRotation's handler gets it closer to its answer.
LEMMA RefreshNearer ==
  ASSUME TypeOK, TypeOK', NEW h \in Handlers, Refresh(h)
  PROVE  StepsLeft(req'[h]) < StepsLeft(req[h])
PROOF
<1> DEFINE q == req[h]
           n == req'[h]
<1>1. /\ q.attempt \in 1..MaxAttempts /\ n.attempt \in 1..MaxAttempts
      /\ MaxAttempts \in Nat /\ q.attempt \in Nat /\ n.attempt \in Nat
      /\ q.attempt <= MaxAttempts /\ n.attempt <= MaxAttempts
      /\ 1 <= q.attempt /\ 1 <= n.attempt
  BY ConstantsAssumption DEF TypeOK, Request
<1>2. CASE Lookup(h)
  <2>1. q.pc = "lookup" /\ n.pc \in {"denied", "grace", "claim"}
    BY <1>2 DEF Lookup, Answer, ReadRow, Goto, NewRequest, TypeOK, Request
  <2> QED
    BY <1>1, <2>1, StepsLeftValues DEF Waiting
<1>3. CASE Grace(h)
  <2>1. q.pc = "grace" /\ n.pc \in {"claim", "revoke"}
    BY <1>3 DEF Grace, Goto, TypeOK, Request
  <2> QED
    BY <1>1, <2>1, StepsLeftValues
<1>4. CASE Claim(h)
  <2>1. q.pc = "claim" /\ n.pc \in {"ok", "reread"} /\ (n.pc = "reread" => n.attempt = q.attempt)
    <3>1. CASE Answer(h, "ok")
      BY <1>4, <3>1, AnswerFields DEF Claim, Answers
    <3>2. CASE Goto(h, "reread")
      BY <1>4, <3>2, GotoFields DEF Claim, Waiting
    <3> QED
      BY <1>4, <3>1, <3>2 DEF Claim
  <2> QED
    BY <1>1, <2>1, StepsLeftValues DEF Waiting
<1>5. CASE Reread(h)
  <2>1. /\ q.pc = "reread" /\ n.pc \in {"revoke", "regrace"}
        /\ n.pc = "regrace" => n.attempt = q.attempt
    BY <1>5 DEF Reread, ReadRow, Goto, TypeOK, Request
  <2> QED
    BY <1>1, <2>1, StepsLeftValues
<1>6. CASE Regrace(h)
  <2>1. /\ q.pc = "regrace" /\ n.pc \in {"revoke", "claim"}
        /\ n.pc = "claim" => n.attempt = q.attempt + 1
    <3>1. CASE Goto(h, "revoke")
      BY <1>6, <3>1, GotoFields DEF Regrace, Waiting
    <3>2. CASE req' = [req EXCEPT ![h].pc = "claim", ![h].active = req[h].to, ![h].attempt = @ + 1]
      <4>1. req \in [Handlers -> Request] /\ req[h] \in Request
        BY DEF TypeOK
      <4>2. n = [req[h] EXCEPT !.pc = "claim", !.active = req[h].to, !.attempt = @ + 1]
        BY <3>2, <4>1
      <4> QED
        BY <1>6, <4>1, <4>2 DEF Regrace, Request
    <3> QED
      BY <1>6, <3>1, <3>2 DEF Regrace
  <2> QED
    BY <1>1, <2>1, StepsLeftValues
<1>7. CASE RevokeForReplay(h)
  <2>1. q.pc = "revoke" /\ n.pc = "commit"
    BY <1>7 DEF RevokeForReplay, TypeOK, Request
  <2> QED
    BY <1>1, <2>1, StepsLeftValues
<1>8. CASE CommitReplay(h)
  <2>1. q.pc = "commit" /\ n.pc \in {"replay", "error"}
    BY <1>8 DEF CommitReplay, CommitOrRollback, CommitMatching, Answer, NewRequest, TypeOK, Request
  <2> QED
    BY <1>1, <2>1, StepsLeftValues DEF Waiting
<1> QED
  BY <1>2, <1>3, <1>4, <1>5, <1>6, <1>7, <1>8 DEF Refresh

LEMMA PortsNearer ==
  ASSUME PortsInv, PortsInv', [PortsNext]_allVars
  PROVE  AnswerNearer
PROOF
<1> SUFFICES ASSUME NEW k \in Handlers, req[k].pc \in Waiting,
                    ~(req'[k] = req[k] /\ stage'[k] = stage[k])
             PROVE  PortStepsLeft(k)' < PortStepsLeft(k)
  BY DEF AnswerNearer
<1>0. /\ TypeOK /\ TypeOK' /\ StageTypeOK
      /\ req[k].attempt \in 1..MaxAttempts /\ req'[k].attempt \in 1..MaxAttempts
  BY DEF PortsInv, TypeInv, TypeOK, Request
<1>m. MaxAttempts \in Nat /\ req[k].attempt \in Nat /\ req[k].attempt <= MaxAttempts
  BY <1>0, ConstantsAssumption
<1>1. ASSUME NEW h \in Handlers, SharedRefresh(h) PROVE PortStepsLeft(k)' < PortStepsLeft(k)
  <2>1. k = h /\ stage[k] = "none" /\ stage'[k] = "none"
    BY <1>1, SharedRefreshStep DEF portVars
  <2>2. Refresh(k)
    BY <1>1, <2>1 DEF SharedRefresh, Start
  <2>3. StepsLeft(req'[k]) < StepsLeft(req[k])
    BY <1>0, <2>2, RefreshNearer
  <2>4. PortStepsLeft(k) = StepsLeft(req[k]) /\ PortStepsLeft(k)' = StepsLeft(req'[k])
    BY <2>1 DEF PortStepsLeft, StepsLeft
  <2> QED
    BY <2>3, <2>4
<1>2. ~SharedOther
  BY DEF SharedOther, portVars
<1>3. ASSUME NEW h \in Handlers, ClaimRow(h) PROVE PortStepsLeft(k)' < PortStepsLeft(k)
  <2>1. k = h /\ req[k].pc = "claim" /\ stage[k] = "none"
    BY <1>0, <1>3, ClaimRowStep DEF Goto, StageTypeOK, TypeOK
  <2>2. PortStepsLeft(k) = 3 * (MaxAttempts - req[k].attempt) + 5
    BY <1>0, <2>1, StepsLeftValues DEF PortStepsLeft
  <2>3. CASE stage'[k] = "create"
    BY <1>m, <2>2, <2>3 DEF PortStepsLeft
  <2>4. CASE stage'[k] = "none" /\ req'[k].pc = "reread" /\ req'[k].attempt = req[k].attempt
    <3>1. PortStepsLeft(k)' = StepsLeft(req'[k])
      BY <2>4 DEF PortStepsLeft, StepsLeft
    <3> QED
      BY <1>0, <1>m, <2>2, <2>4, <3>1, StepsLeftValues
  <2>5. \/ stage'[k] = "create"
        \/ stage'[k] = "none" /\ req'[k].pc = "reread" /\ req'[k].attempt = req[k].attempt
    <3>1. CASE Goto(k, "reread") /\ UNCHANGED stage
      BY <1>0, <2>1, <3>1, GotoFields DEF Waiting
    <3>2. CASE stage' = [stage EXCEPT ![k] = "create"]
      BY <1>0, <3>2 DEF StageTypeOK
    <3> QED
      BY <1>3, <2>1, <3>1, <3>2, ClaimRowStep
  <2> QED
    BY <2>3, <2>4, <2>5
<1>4. ASSUME NEW h \in Handlers, CreateChild(h) PROVE PortStepsLeft(k)' < PortStepsLeft(k)
  <2>1. stage[k] = "create" /\ stage'[k] = "link"
    BY <1>0, <1>4, CreateChildStep DEF StageTypeOK
  <2> QED
    BY <2>1 DEF PortStepsLeft
<1>5. ASSUME NEW h \in Handlers, LinkChild(h) PROVE PortStepsLeft(k)' < PortStepsLeft(k)
  <2>0. /\ stage[h] = "link" /\ stage' = [stage EXCEPT ![h] = "none"]
        /\ Answer(h, "ok") \/ Answer(h, "error")
    BY <1>5, LinkChildStep
  <2>1. k = h /\ stage[k] = "link" /\ stage'[k] = "none"
    BY <1>0, <2>0 DEF Answer, StageTypeOK, TypeOK
  <2>2. req'[k].pc \notin Waiting
    BY <1>0, <2>0, <2>1, AnswerFields DEF Answers, Waiting
  <2>3. PortStepsLeft(k)' = StepsLeft(req'[k])
    BY <2>1 DEF PortStepsLeft, StepsLeft
  <2> QED
    BY <1>0, <2>1, <2>2, <2>3, StepsLeftValues DEF PortStepsLeft
<1>6. CASE PortCrash
  <2>1. stage'[k] = "none" /\ req'[k].pc \notin Waiting
    BY <1>6 DEF PortCrash, Crash, IdleRequest, NewRequest, Waiting
  <2>2. PortStepsLeft(k)' = 0
    <3>1. PortStepsLeft(k)' = StepsLeft(req'[k])
      BY <2>1 DEF PortStepsLeft, StepsLeft
    <3> QED
      BY <1>0, <2>1, <3>1, StepsLeftValues
  <2>3. PortStepsLeft(k) > 0
    BY <1>0, <1>m, StepsLeftValues DEF PortStepsLeft, Waiting, StageTypeOK
  <2> QED
    BY <2>2, <2>3
<1> QED
  BY <1>1, <1>2, <1>3, <1>4, <1>5, <1>6, PortSteps

\* In every port a refresh request is answered after at most
\* 3 * MAX_ROTATION_ATTEMPTS + 4 steps of its own: no interleaving makes the
\* handler take back a step, or try again more often.
THEOREM RefreshesShorten ==
  PortsSpec => [][AnswerNearer]_allVars
               /\ [](\A h \in Handlers : PortStepsLeft(h) \in 0..(3 * MaxAttempts + 4))
PROOF
<1>1. PortsInv => \A h \in Handlers : PortStepsLeft(h) \in 0..(3 * MaxAttempts + 4)
  <2> SUFFICES ASSUME PortsInv, NEW h \in Handlers
               PROVE  PortStepsLeft(h) \in 0..(3 * MaxAttempts + 4)
    OBVIOUS
  <2>1. req[h].attempt \in 1..MaxAttempts
    BY DEF PortsInv, TypeInv, TypeOK, Request
  <2> QED
    BY <2>1, StepsLeftValues, ConstantsAssumption DEF PortStepsLeft
<1>2. PortsInv /\ PortsInv' /\ [PortsNext]_allVars => [AnswerNearer]_allVars
  BY PortsNearer
<1> QED
  BY <1>1, <1>2, PortsInvariance, PTL DEF PortsSpec

=============================================================================

----------------------- MODULE RefreshRotationProofs -----------------------
(***************************************************************************)
(* Theorems about RefreshRotation, for any number of tokens, sessions,     *)
(* handlers and revokers: its sessions, its refinement of SessionLifecycle *)
(* and the verdicts of the refresh handler.                                *)
(***************************************************************************)
EXTENDS RefreshRotation, TLAPS

-----------------------------------------------------------------------------
(* The inductive invariant *)

\* A request in flight works on issued tokens of a single session.
RequestOnOneSession ==
  \A h \in Handlers : req[h].pc \in Waiting =>
    /\ req[h].presented \in issued /\ req[h].active \in issued
    /\ sid[req[h].active] = sid[req[h].presented]

\* Only issued tokens have a session, a successor or a predecessor.
LinksWithinIssued ==
  /\ \A t \in issued : sid[t] \in Sessions
  /\ \A t \in Tokens : rotatedTo[t] # None => t \in issued /\ rotatedTo[t] \in issued

Inv ==
  /\ TypeOK /\ RequestOnOneSession /\ LinksWithinIssued
  /\ OneLiveTokenPerSession /\ SessionIsOneChain

-----------------------------------------------------------------------------
(* Type correctness and the shape of requests in flight *)

TypeInv == TypeOK /\ RequestOnOneSession /\ LinksWithinIssued

\* What TypeOK says of one handler.
LEMMA HandlerType ==
  ASSUME TypeOK, NEW h \in Handlers
  PROVE  /\ req[h] \in Request
         /\ req[h].pc \in {"idle"} \cup Answers \cup Waiting
         /\ req[h].presented \in Tokens \cup {None}
         /\ req[h].active \in Tokens \cup {None}
         /\ req[h].to \in Tokens \cup {None}
         /\ req[h].superseded \in BOOLEAN
PROOF BY DEF TypeOK, Request

\* The record of a handler that has just started or just answered.
LEMMA NewRequestType ==
  ASSUME NEW pc \in {"idle"} \cup Answers \cup Waiting, NEW t \in Tokens \cup {None},
         NEW b \in BOOLEAN
  PROVE  /\ NewRequest(pc, t, b) \in Request
         /\ NewRequest(pc, t, b).pc = pc
         /\ NewRequest(pc, t, b).presented = t
         /\ NewRequest(pc, t, b).active = t
         /\ NewRequest(pc, t, b).to = None
         /\ NewRequest(pc, t, b).superseded = b
PROOF BY ConstantsAssumption DEF NewRequest, Request

\* Steps that move one handler to a new state of its own and leave the table
\* alone, or only revoke rows, keep TypeInv if the new state is in order.
LEMMA HandlerStep ==
  ASSUME TypeInv, NEW h \in Handlers, NEW q \in Request,
         req' = [req EXCEPT ![h] = q],
         q.pc \in Waiting => /\ q.presented \in issued /\ q.active \in issued
                             /\ sid[q.active] = sid[q.presented],
         UNCHANGED <<issued, rows, sid, rotatedTo, expired, rev>>,
         revoked' \subseteq issued, replayed' \subseteq issued
  PROVE  TypeInv'
PROOF
<1>1. TypeOK'
  BY DEF TypeInv, TypeOK
<1>2. RequestOnOneSession'
  BY DEF TypeInv, TypeOK, RequestOnOneSession
<1>3. LinksWithinIssued'
  BY DEF TypeInv, TypeOK, LinksWithinIssued
<1> QED
  BY <1>1, <1>2, <1>3 DEF TypeInv

\* So does a step that answers a request.
LEMMA AnswerStep ==
  ASSUME TypeInv, NEW h \in Handlers, NEW a \in Answers, Answer(h, a),
         UNCHANGED <<issued, rows, sid, rotatedTo, expired, rev>>,
         revoked' \subseteq issued, replayed' \subseteq issued
  PROVE  TypeInv'
PROOF
<1> DEFINE q == NewRequest(a, req[h].presented, req[h].superseded)
<1>0. /\ a \in {"idle"} \cup Answers \cup Waiting
      /\ req[h].presented \in Tokens \cup {None} /\ req[h].superseded \in BOOLEAN
  BY HandlerType DEF TypeInv
<1>1. q \in Request /\ q.pc = a
  BY <1>0, NewRequestType, Zenon
<1>2. req' = [req EXCEPT ![h] = q]
  BY DEF Answer
<1>3. a \notin Waiting
  BY DEF Answers, Waiting
<1> HIDE DEF q
<1> QED
  BY <1>1, <1>2, <1>3, HandlerStep

\* A successful rotation keeps TypeInv.
LEMMA RotationTypeInv ==
  ASSUME TypeInv, NEW h \in Handlers, req[h].pc = "claim",
         NEW n \in Tokens \ issued, Rotation(h, n),
         req' = [req EXCEPT ![h] = NewRequest("ok", req[h].presented, req[h].superseded)], UNCHANGED <<replayed, expired, rev>>
  PROVE  TypeInv'
PROOF
<1> DEFINE a == req[h].active
           p == req[h].presented
<1>1. /\ a \in issued /\ p \in issued /\ sid[a] = sid[p] /\ sid[p] \in Sessions
  BY DEF TypeInv, RequestOnOneSession, LinksWithinIssued, Waiting
<1>2. /\ issued' = issued \cup {n} /\ rows' = rows \cup {n}
      /\ sid' = [sid EXCEPT ![n] = sid[p]]
      /\ revoked' = revoked \cup {a}
      /\ rotatedTo' = [rotatedTo EXCEPT ![a] = n]
  BY DEF Rotation, Store
<1>q. /\ req' = [req EXCEPT ![h] = NewRequest("ok", p, req[h].superseded)]
      /\ NewRequest("ok", p, req[h].superseded) \in Request
      /\ NewRequest("ok", p, req[h].superseded).pc = "ok"
  <2>1. /\ "ok" \in {"idle"} \cup Answers \cup Waiting
        /\ p \in Tokens \cup {None} /\ req[h].superseded \in BOOLEAN
    BY HandlerType DEF TypeInv, Answers
  <2> QED
    BY <2>1, NewRequestType, Zenon
<1>3. TypeOK'
  <2>1. req' \in [Handlers -> Request]
    BY <1>q DEF TypeInv, TypeOK
  <2> QED
    BY <1>1, <1>2, <2>1 DEF TypeInv, TypeOK
<1>4. RequestOnOneSession'
  <2> SUFFICES ASSUME NEW k \in Handlers, req'[k].pc \in Waiting
               PROVE  /\ req'[k].presented \in issued' /\ req'[k].active \in issued'
                      /\ sid'[req'[k].active] = sid'[req'[k].presented]
    BY DEF RequestOnOneSession
  <2>1. k # h /\ req'[k] = req[k]
    BY <1>q DEF TypeInv, TypeOK, Waiting
  <2> QED
    BY <2>1, <1>2 DEF TypeInv, TypeOK, RequestOnOneSession
<1>5. LinksWithinIssued'
  BY <1>1, <1>2, ConstantsAssumption DEF TypeInv, TypeOK, LinksWithinIssued
<1> QED
  BY <1>3, <1>4, <1>5 DEF TypeInv

\* Every step of a refresh handler keeps TypeInv.
LEMMA RefreshTypeInv ==
  ASSUME TypeInv, NEW h \in Handlers, Refresh(h)
  PROVE  TypeInv'
PROOF
<1> USE ConstantsAssumption
<1>0. TypeOK
  BY DEF TypeInv
<1>t. /\ req[h] \in Request /\ req \in [Handlers -> Request]
      /\ req[h].presented \in Tokens \cup {None}
      /\ req[h].active \in Tokens \cup {None}
      /\ req[h].to \in Tokens \cup {None}
  BY <1>0, HandlerType DEF TypeOK
<1>w. req[h].pc \in Waiting =>
        /\ req[h].presented \in issued /\ req[h].active \in issued
        /\ sid[req[h].active] = sid[req[h].presented]
  BY DEF TypeInv, RequestOnOneSession
<1>s. /\ rows \subseteq issued /\ issued \subseteq Tokens
      /\ revoked \subseteq issued /\ replayed \subseteq issued
  BY <1>0 DEF TypeOK
<1>1. CASE Lookup(h)
  <2>1. CASE Answer(h, "denied")
    BY <2>1, <1>1, <1>s, AnswerStep DEF Lookup, tableVars, Answers
  <2>2. CASE ~Answer(h, "denied")
    <3> DEFINE q == req'[h]
    <3>1. /\ q \in Request /\ req' = [req EXCEPT ![h] = q]
          /\ q.presented = req[h].presented /\ q.active = req[h].active
      BY <1>0, <1>t, <1>s, <1>1, <2>2
         DEF Lookup, Goto, ReadRow, Request, Answers, Waiting, LiveRows, TypeOK
    <3> QED
      BY <3>1, <1>w, <1>s, <1>1, HandlerStep DEF Lookup, tableVars, Waiting
  <2> QED
    BY <2>1, <2>2
<1>2. CASE Grace(h)
  <2> DEFINE q == req'[h]
  <2>1. CASE GraceChild(h)
    <3>1. /\ q \in Request /\ req' = [req EXCEPT ![h] = q]
          /\ q.presented = req[h].presented /\ q.active = req[h].to
      BY <1>t, <1>2, <2>1 DEF Grace, Request, Answers, Waiting
    <3> QED
      BY <3>1, <2>1, <1>w, <1>s, <1>2, HandlerStep DEF Grace, GraceChild, tableVars, Waiting
  <2>2. CASE ~GraceChild(h)
    <3>1. /\ q \in Request /\ req' = [req EXCEPT ![h] = q]
          /\ q.presented = req[h].presented /\ q.active = req[h].active
      BY <1>t, <1>2, <2>2 DEF Grace, Goto, Request, Answers, Waiting
    <3> QED
      BY <3>1, <1>w, <1>s, <1>2, HandlerStep DEF Grace, tableVars, Waiting
  <2> QED
    BY <2>1, <2>2
<1>3. CASE Claim(h)
  <2> DEFINE head == req[h].active \in LiveRows /\ rotatedTo[req[h].active] = None
  <2>1. CASE head
    <3>1. PICK n \in Tokens \ issued : Rotation(h, n)
      BY <1>3, <2>1 DEF Claim
    <3>2. req' = [req EXCEPT ![h] = NewRequest("ok", req[h].presented, req[h].superseded)] /\ UNCHANGED <<replayed, expired, rev>>
      BY <1>3, <2>1 DEF Claim, Answer
    <3> QED
      BY <3>1, <3>2, <1>3, RotationTypeInv DEF Claim
  <2>2. CASE ~head
    <3> DEFINE q == req'[h]
    <3>1. /\ q \in Request /\ req' = [req EXCEPT ![h] = q]
          /\ q.presented = req[h].presented /\ q.active = req[h].active
      BY <1>t, <1>3, <2>2 DEF Claim, Goto, Request, Answers, Waiting
    <3>2. /\ req[h].pc \in Waiting
          /\ UNCHANGED <<issued, rows, sid, rotatedTo, revoked, replayed, expired, rev>>
      BY <1>3, <2>2 DEF Claim, Waiting
    <3> QED
      BY <3>1, <3>2, <1>w, <1>s, HandlerStep
  <2> QED
    BY <2>1, <2>2
<1>4. CASE Reread(h)
  <2> DEFINE q == req'[h]
  <2>1. /\ q \in Request /\ req' = [req EXCEPT ![h] = q]
        /\ q.presented = req[h].presented /\ q.active = req[h].active
    BY <1>0, <1>t, <1>s, <1>w, <1>4 DEF Reread, Goto, ReadRow, Request, Answers, Waiting, TypeOK
  <2> QED
    BY <2>1, <1>w, <1>s, <1>4, HandlerStep DEF Reread, tableVars, Waiting
<1>5. CASE Regrace(h)
  <2> DEFINE q == req'[h]
  <2>1. CASE GraceChild(h) /\ req[h].attempt < MaxAttempts
    <3>1. /\ q \in Request /\ req' = [req EXCEPT ![h] = q]
          /\ q.presented = req[h].presented /\ q.active = req[h].to
      BY <1>t, <1>5, <2>1 DEF Regrace, Request, Answers, Waiting
    <3> QED
      BY <3>1, <2>1, <1>w, <1>s, <1>5, HandlerStep DEF Regrace, GraceChild, tableVars, Waiting
  <2>2. CASE ~(GraceChild(h) /\ req[h].attempt < MaxAttempts)
    <3>1. /\ q \in Request /\ req' = [req EXCEPT ![h] = q]
          /\ q.presented = req[h].presented /\ q.active = req[h].active
      BY <1>t, <1>5, <2>2 DEF Regrace, Goto, Request, Answers, Waiting
    <3> QED
      BY <3>1, <1>w, <1>s, <1>5, HandlerStep DEF Regrace, tableVars, Waiting
  <2> QED
    BY <2>1, <2>2
<1>6. CASE RevokeForReplay(h)
  <2> DEFINE q == req'[h]
  <2>1. /\ q \in Request /\ req' = [req EXCEPT ![h] = q]
        /\ q.presented = req[h].presented /\ q.active = req[h].active
    BY <1>t, <1>s, <1>6 DEF RevokeForReplay, Live, LiveRows, Request, Answers, Waiting
  <2>2. /\ req[h].pc \in Waiting
        /\ UNCHANGED <<issued, rows, sid, rotatedTo, revoked, replayed, expired, rev>>
    BY <1>6 DEF RevokeForReplay, tableVars, Waiting
  <2> QED
    BY <2>1, <2>2, <1>w, <1>s, HandlerStep
<1>7. CASE CommitReplay(h)
  <2>1. /\ Answer(h, "replay") \/ Answer(h, "error")
        /\ revoked' \subseteq issued /\ replayed' \subseteq issued
        /\ UNCHANGED <<issued, rows, sid, rotatedTo, expired, rev>>
    BY <1>s, <1>7 DEF CommitReplay, CommitOrRollback, CommitMatching
  <2> QED
    BY <2>1, AnswerStep DEF Answers
<1> QED
  BY <1>1, <1>2, <1>3, <1>4, <1>5, <1>6, <1>7 DEF Refresh

\* TypeInv holds initially.
LEMMA InitTypeInv == Init => TypeInv
PROOF
  BY ConstantsAssumption
     DEF Init, TypeInv, TypeOK, RequestOnOneSession, LinksWithinIssued, IdleRequest, NewRequest,
         IdleRevocation, Request, Revocation, Answers, Waiting

\* Every step keeps TypeInv.
LEMMA NextTypeInv == TypeInv /\ [Next]_vars => TypeInv'
PROOF
<1> SUFFICES ASSUME TypeInv, [Next]_vars PROVE TypeInv'
  OBVIOUS
<1> USE ConstantsAssumption
<1>t. TypeOK
  BY DEF TypeInv
<1>1. ASSUME NEW s \in Sessions, NEW t \in Tokens, Login(s, t) PROVE TypeInv'
  <2>1. /\ t \notin issued
        /\ issued' = issued \cup {t} /\ rows' = rows \cup {t}
        /\ sid' = [sid EXCEPT ![t] = s]
        /\ UNCHANGED <<rotatedTo, revoked, replayed, expired, req, rev>>
    BY <1>1 DEF Login, Store
  <2>2. TypeOK'
    BY <2>1, <1>t DEF TypeOK
  <2>3. RequestOnOneSession'
    BY <2>1, <1>t DEF TypeInv, TypeOK, RequestOnOneSession
  <2>4. LinksWithinIssued'
    BY <2>1, <1>t DEF TypeInv, TypeOK, LinksWithinIssued
  <2> QED
    BY <2>2, <2>3, <2>4 DEF TypeInv
<1>2. ASSUME NEW h \in Handlers, Refresh(h) PROVE TypeInv'
  BY <1>2, RefreshTypeInv
<1>3. ASSUME NEW h \in Handlers, NEW t \in Tokens, Start(h, t) PROVE TypeInv'
  <2> DEFINE q == NewRequest("lookup", t, rotatedTo[t] # None /\ rotatedTo[t] \in revoked)
  <2>1. q \in Request /\ q.presented = t /\ q.active = t
    <3>1. (rotatedTo[t] # None /\ rotatedTo[t] \in revoked) \in BOOLEAN
      OBVIOUS
    <3>2. \A b \in BOOLEAN : /\ NewRequest("lookup", t, b) \in Request
                            /\ NewRequest("lookup", t, b).presented = t
                            /\ NewRequest("lookup", t, b).active = t
      BY DEF NewRequest, Request, Waiting
    <3> QED
      BY <3>1, <3>2
  <2>3. req' = [req EXCEPT ![h] = q]
    BY <1>3 DEF Start
  <2>2. t \in issued /\ UNCHANGED <<issued, rows, sid, rotatedTo, revoked, replayed, expired, rev>>
    BY <1>3 DEF Start, tableVars
  <2> HIDE DEF q
  <2> QED
    BY <2>1, <2>2, <2>3, <1>t, HandlerStep DEF TypeOK
<1>4. ASSUME NEW r \in Revokers, NEW op \in {"logout", "change", "reset"},
             NEW scope \in SUBSET Sessions, BeginUpdate(r, op, scope)
      PROVE TypeInv'
  <2>1. /\ rev' \in [Revokers -> Revocation]
        /\ UNCHANGED <<issued, rows, sid, rotatedTo, revoked, replayed, expired, req>>
    BY <1>4, <1>t DEF BeginUpdate, tableVars, TypeOK, Revocation, LiveRows
  <2> QED
    BY <2>1, <1>t DEF TypeInv, TypeOK, RequestOnOneSession, LinksWithinIssued
<1>5. Opened \subseteq Sessions
  BY DEF Opened, TypeInv, LinksWithinIssued
<1>6. ASSUME NEW r \in Revokers, ResetPassword(r) PROVE TypeInv'
  BY <1>4, <1>5, <1>6 DEF ResetPassword
<1>7. ASSUME NEW r \in Revokers, Revoke(r) PROVE TypeInv'
  <2>1. /\ rev' \in [Revokers -> Revocation]
        /\ revoked' \subseteq issued
        /\ UNCHANGED <<issued, rows, sid, rotatedTo, replayed, expired, req>>
    <3>1. rev[r] \in Revocation /\ rev \in [Revokers -> Revocation]
      BY <1>t DEF TypeOK
    <3>2. [rev[r] EXCEPT !.pc = "done", !.targets = {}] \in Revocation
      BY <3>1 DEF Revocation
    <3> QED
      BY <1>7, <1>t, <3>1, <3>2 DEF Revoke, TypeOK
  <2> QED
    BY <2>1, <1>t DEF TypeInv, TypeOK, RequestOnOneSession, LinksWithinIssued
<1>8. ASSUME NEW r \in Revokers, NEW s \in Sessions, Logout(r, s) PROVE TypeInv'
  BY <1>4, <1>8 DEF Logout
<1>9. ASSUME NEW r \in Revokers, NEW s \in Sessions, ChangePassword(r, s) PROVE TypeInv'
  BY <1>4, <1>5, <1>9 DEF ChangePassword
<1>10. ASSUME NEW t \in Tokens, Expire(t) PROVE TypeInv'
  BY <1>10, <1>t DEF Expire, tableVars, TypeInv, TypeOK, RequestOnOneSession, LinksWithinIssued
<1>11. CASE Cleanup
  BY <1>11, <1>t DEF Cleanup, TypeInv, TypeOK, RequestOnOneSession, LinksWithinIssued
<1>12. CASE Crash
  <2>1. /\ req' \in [Handlers -> Request] /\ rev' \in [Revokers -> Revocation]
        /\ \A h \in Handlers : req'[h].pc \notin Waiting
        /\ UNCHANGED <<issued, rows, sid, rotatedTo, revoked, replayed, expired>>
    BY <1>12 DEF Crash, tableVars, IdleRequest, NewRequest, IdleRevocation, Request, Revocation, Answers, Waiting
  <2> QED
    BY <2>1, <1>t DEF TypeInv, TypeOK, RequestOnOneSession, LinksWithinIssued
<1>13. CASE UNCHANGED vars
  BY <1>13, <1>t DEF vars, TypeInv, TypeOK, RequestOnOneSession, LinksWithinIssued
<1> QED
  BY <1>1, <1>2, <1>3, <1>6, <1>7, <1>8, <1>9, <1>10, <1>11, <1>12, <1>13 DEF Next

-----------------------------------------------------------------------------
(* One usable token, one chain *)

\* Revoking and deleting rows cannot break either property.
LEMMA TableShrinks ==
  ASSUME OneLiveTokenPerSession, SessionIsOneChain,
         UNCHANGED <<issued, sid, rotatedTo>>, rows' \subseteq rows, revoked \subseteq revoked'
  PROVE  OneLiveTokenPerSession' /\ SessionIsOneChain'
PROOF
<1>1. OneLiveTokenPerSession'
  BY DEF OneLiveTokenPerSession, LiveRows
<1>2. SessionIsOneChain'
  BY DEF SessionIsOneChain
<1> QED
  BY <1>1, <1>2

\* A login adds a chain of its own.
LEMMA LoginKeepsChains ==
  ASSUME Inv, NEW s \in Sessions, NEW t \in Tokens, Login(s, t)
  PROVE  OneLiveTokenPerSession' /\ SessionIsOneChain'
PROOF
<1>1. /\ t \notin issued /\ \A u \in issued : sid[u] # s
      /\ issued' = issued \cup {t} /\ rows' = rows \cup {t}
      /\ sid' = [sid EXCEPT ![t] = s]
      /\ UNCHANGED <<rotatedTo, revoked>>
  BY DEF Login, Store, Opened
<1>2. /\ sid \in [Tokens -> Sessions \cup {None}] /\ issued \subseteq Tokens
      /\ rows \subseteq issued /\ revoked \subseteq issued
      /\ rotatedTo[t] = None /\ \A u \in issued : rotatedTo[u] # t
  BY <1>1, ConstantsAssumption DEF Inv, TypeOK, LinksWithinIssued
<1>3. OneLiveTokenPerSession'
  BY <1>1, <1>2 DEF Inv, OneLiveTokenPerSession, LiveRows
<1>4. SessionIsOneChain'
  BY <1>1, <1>2 DEF Inv, SessionIsOneChain
<1> QED
  BY <1>3, <1>4

\* A rotation replaces the usable token and lengthens the chain: the claimed
\* token was the only usable one of its session and had no successor.
LEMMA RotationKeepsChains ==
  ASSUME Inv, NEW h \in Handlers, req[h].pc = "claim",
         req[h].active \in LiveRows, rotatedTo[req[h].active] = None,
         NEW n \in Tokens \ issued, Rotation(h, n)
  PROVE  OneLiveTokenPerSession' /\ SessionIsOneChain'
PROOF
<1> DEFINE a == req[h].active
           p == req[h].presented
<1>1. /\ a \in issued /\ p \in issued /\ sid[a] = sid[p]
  BY DEF Inv, RequestOnOneSession, Waiting
<1>2. /\ issued' = issued \cup {n} /\ rows' = rows \cup {n}
      /\ sid' = [sid EXCEPT ![n] = sid[p]]
      /\ revoked' = revoked \cup {a}
      /\ rotatedTo' = [rotatedTo EXCEPT ![a] = n]
  BY DEF Rotation, Store
<1>3. /\ sid \in [Tokens -> Sessions \cup {None}] /\ issued \subseteq Tokens
      /\ rotatedTo \in [Tokens -> Tokens \cup {None}]
      /\ rows \subseteq issued /\ revoked \subseteq issued
      /\ rotatedTo[n] = None /\ \A u \in issued : rotatedTo[u] # n
  BY ConstantsAssumption DEF Inv, TypeOK, LinksWithinIssued
<1>4. OneLiveTokenPerSession'
  BY <1>1, <1>2, <1>3 DEF Inv, OneLiveTokenPerSession, LiveRows
<1>5. \A t \in issued' : rotatedTo'[t] # None =>
        t \in revoked' /\ rotatedTo'[t] \in issued' /\ sid'[rotatedTo'[t]] = sid'[t]
  BY <1>1, <1>2, <1>3 DEF Inv, SessionIsOneChain
<1>6. \A t, u \in issued' :
        rotatedTo'[t] = rotatedTo'[u] /\ rotatedTo'[t] # None => t = u
  BY <1>1, <1>2, <1>3 DEF Inv, SessionIsOneChain
<1>7. ASSUME NEW t \in issued', NEW u \in issued', sid'[t] = sid'[u],
             \A q \in issued' : rotatedTo'[q] \notin {t, u}
      PROVE  t = u
  <2>1. t \in issued /\ u \in issued
    BY <1>1, <1>2, <1>3, <1>7
  <2>2. \A q \in issued : rotatedTo[q] \notin {t, u}
    BY <1>1, <1>2, <1>3, <1>7, <2>1, ConstantsAssumption
  <2> QED
    BY <1>2, <1>3, <1>7, <2>1, <2>2 DEF Inv, SessionIsOneChain
<1> QED
  BY <1>4, <1>5, <1>6, <1>7 DEF SessionIsOneChain

\* A step that is neither a login nor a rotation only shrinks the table.
LEMMA OtherStepsShrink ==
  ASSUME [Next]_vars,
         ~\E s \in Sessions, t \in Tokens : Login(s, t),
         ~\E h \in Handlers, n \in Tokens \ issued : Rotation(h, n) /\ Claim(h)
  PROVE  UNCHANGED <<issued, sid, rotatedTo>> /\ rows' \subseteq rows /\ revoked \subseteq revoked'
PROOF
<1> USE DEF tableVars
<1>1. ASSUME NEW h \in Handlers, Refresh(h)
      PROVE  UNCHANGED <<issued, sid, rotatedTo>> /\ rows' \subseteq rows /\ revoked \subseteq revoked'
  <2>1. CASE Claim(h)
    BY <2>1 DEF Claim
  <2>2. CASE CommitReplay(h)
    BY <2>2 DEF CommitReplay, CommitOrRollback, CommitMatching
  <2>3. CASE Lookup(h) \/ Grace(h) \/ Reread(h) \/ Regrace(h) \/ RevokeForReplay(h)
    BY <2>3 DEF Lookup, Grace, Reread, Regrace, RevokeForReplay
  <2> QED
    BY <1>1, <2>1, <2>2, <2>3 DEF Refresh
<1>2. ASSUME NEW h \in Handlers, NEW t \in Tokens, Start(h, t) PROVE UNCHANGED tableVars
  BY <1>2 DEF Start
<1>3. ASSUME NEW r \in Revokers, ResetPassword(r) PROVE UNCHANGED tableVars
  BY <1>3 DEF ResetPassword, BeginUpdate
<1>4. ASSUME NEW r \in Revokers, NEW s \in Sessions, Logout(r, s) \/ ChangePassword(r, s)
      PROVE  UNCHANGED tableVars
  BY <1>4 DEF Logout, ChangePassword, BeginUpdate
<1>5. ASSUME NEW r \in Revokers, Revoke(r)
      PROVE  UNCHANGED <<issued, sid, rotatedTo>> /\ rows' \subseteq rows /\ revoked \subseteq revoked'
  BY <1>5 DEF Revoke
<1>6. CASE Cleanup
  BY <1>6 DEF Cleanup
<1>7. CASE Crash \/ UNCHANGED vars \/ \E t \in Tokens : Expire(t)
  BY <1>7 DEF Crash, vars, Expire
<1> QED
  BY <1>1, <1>2, <1>3, <1>4, <1>5, <1>6, <1>7 DEF Next

\* The inductive step.
LEMMA NextInv == Inv /\ [Next]_vars => Inv'
PROOF
<1> SUFFICES ASSUME Inv, [Next]_vars PROVE Inv'
  OBVIOUS
<1>1. TypeInv'
  BY NextTypeInv DEF Inv, TypeInv
<1>2. OneLiveTokenPerSession' /\ SessionIsOneChain'
  <2>1. CASE \E s \in Sessions, t \in Tokens : Login(s, t)
    BY <2>1, LoginKeepsChains
  <2>2. ASSUME NEW h \in Handlers, NEW n \in Tokens \ issued, Rotation(h, n), Claim(h)
        PROVE  OneLiveTokenPerSession' /\ SessionIsOneChain'
    <3>1. req[h].pc = "claim"
      BY <2>2 DEF Claim
    <3>2. CASE req[h].active \in LiveRows /\ rotatedTo[req[h].active] = None
      BY <2>2, <3>1, <3>2, RotationKeepsChains
    <3>3. CASE ~(req[h].active \in LiveRows /\ rotatedTo[req[h].active] = None)
      BY <2>2, <3>3, TableShrinks DEF Claim, Inv
    <3> QED
      BY <3>2, <3>3
  <2>3. CASE /\ ~\E s \in Sessions, t \in Tokens : Login(s, t)
             /\ ~\E h \in Handlers, n \in Tokens \ issued : Rotation(h, n) /\ Claim(h)
    BY <2>3, OtherStepsShrink, TableShrinks DEF Inv
  <2> QED
    BY <2>1, <2>2, <2>3
<1> QED
  BY <1>1, <1>2 DEF Inv, TypeInv

\* Inv holds initially.
LEMMA InitInv == Init => Inv
PROOF
<1>1. Init => OneLiveTokenPerSession /\ SessionIsOneChain
  BY DEF Init, OneLiveTokenPerSession, SessionIsOneChain, LiveRows
<1> QED
  BY <1>1, InitTypeInv DEF Inv, TypeInv

\* The inductive invariant holds in every reachable state.
THEOREM Invariance == Spec => []Inv
PROOF BY InitInv, NextInv, PTL DEF Spec

\* The table and the handlers keep their types; the retry loop of the refresh
\* handler stays within MAX_ROTATION_ATTEMPTS.
THEOREM TypeCorrect == Spec => []TypeOK
PROOF
<1>1. Inv => TypeOK
  BY DEF Inv
<1> QED
  BY <1>1, Invariance, PTL

\* However refreshes, logouts, password changes, resets, expiry, cleanup and
\* crashes interleave, a session never has two usable refresh tokens.
THEOREM OneLiveToken == Spec => []OneLiveTokenPerSession
PROOF
<1>1. Inv => OneLiveTokenPerSession
  BY DEF Inv
<1> QED
  BY <1>1, Invariance, PTL

\* The rows of a session form one chain from its login, which no lost update
\* of rotated_to ever forks.
THEOREM OneChain == Spec => []SessionIsOneChain
PROOF
<1>1. Inv => SessionIsOneChain
  BY DEF Inv
<1> QED
  BY <1>1, Invariance, PTL

-----------------------------------------------------------------------------
(* Refinement: the unrevoked row of a session is its current token *)

\* The current token of a session with a live row is that row.
CurrentIsLive == \A s \in Sessions : \A t \in Live(s) : Current(s) = t

\* One live row per session makes it so.
LEMMA LiveIsCurrent == Inv => CurrentIsLive
PROOF
<1> SUFFICES ASSUME Inv, NEW s \in Sessions, NEW t \in Live(s) PROVE Current(s) = t
  BY DEF CurrentIsLive
<1>1. t \in Tokens /\ t \in issued /\ s \in Opened
  BY DEF Live, LiveRows, Opened, Inv, TypeOK
<1>2. \A u \in Live(s) : u = t
  BY DEF Inv, OneLiveTokenPerSession, Live
<1>3. (CHOOSE u \in Tokens : u \in Live(s)) = t
  BY <1>1, <1>2
<1> QED
  BY <1>1, <1>3 DEF Current

\* The same after a step.
LEMMA LiveIsCurrentNext == Inv' => CurrentIsLive'
PROOF BY LiveIsCurrent, PTL

\* Current depends only on whether the session is open and on its live rows.
LEMMA CurrentStays ==
  ASSUME NEW s \in Sessions, (s \in Opened) = (s \in Opened)', Live(s)' = Live(s)
  PROVE  Current(s)' = Current(s)
PROOF BY DEF Current

\* Init is an initial state of the lifecycle.
LEMMA InitRefines == Init => Lifecycle!Init
PROOF BY DEF Init, Lifecycle!Init, Current, Opened

\* A login opens its session and touches no other.
LEMMA LoginRefines ==
  ASSUME Inv, Inv', NEW s \in Sessions, NEW t \in Tokens, Login(s, t)
  PROVE  Lifecycle!Open(s, t)
PROOF
<1>1. /\ t \notin issued /\ s \notin Opened
      /\ issued' = issued \cup {t} /\ rows' = rows \cup {t}
      /\ sid' = [sid EXCEPT ![t] = s] /\ revoked' = revoked
  BY DEF Login, Store
<1>2. /\ sid \in [Tokens -> Sessions \cup {None}] /\ issued \subseteq Tokens
      /\ rows \subseteq issued /\ revoked \subseteq issued
  BY DEF Inv, TypeOK
<1>3. Current(s) = "unopened"
  BY <1>1 DEF Current
<1>4. Current(s)' = t
  <2>1. t \in Live(s)'
    BY <1>1, <1>2 DEF Live, LiveRows
  <2> QED
    BY <2>1, LiveIsCurrentNext DEF CurrentIsLive
<1>5. ASSUME NEW u \in Sessions, u # s PROVE Current(u)' = Current(u)
  <2>1. (u \in Opened) = (u \in Opened)'
    BY <1>1, <1>2, <1>5 DEF Opened
  <2>2. Live(u)' = Live(u)
    BY <1>1, <1>2, <1>5 DEF Live, LiveRows
  <2> QED
    BY <2>1, <2>2, CurrentStays
<1> QED
  BY <1>1, <1>3, <1>4, <1>5 DEF Lifecycle!Open, Lifecycle!Issue

\* A rotation replaces the current token of its session and touches no other.
LEMMA RotationRefines ==
  ASSUME Inv, Inv', NEW h \in Handlers, req[h].pc = "claim",
         req[h].active \in LiveRows, NEW n \in Tokens \ issued, Rotation(h, n)
  PROVE  \E s \in Sessions : Lifecycle!Rotate(s, n)
PROOF
<1>0. PICK s \in Sessions : s = sid[req[h].presented]
  BY DEF Inv, RequestOnOneSession, LinksWithinIssued, Waiting
<1>a. PICK a \in issued : a = req[h].active /\ sid[a] = s
  BY <1>0 DEF Inv, RequestOnOneSession, Waiting
<1>2. /\ issued' = issued \cup {n} /\ rows' = rows \cup {n}
      /\ sid' = [sid EXCEPT ![n] = s] /\ revoked' = revoked \cup {a}
  BY <1>0, <1>a DEF Rotation, Store
<1>3. /\ sid \in [Tokens -> Sessions \cup {None}] /\ issued \subseteq Tokens
      /\ rows \subseteq issued /\ revoked \subseteq issued
  BY DEF Inv, TypeOK
<1>4. Current(s) \in Tokens
  <2>1. a \in Live(s)
    BY <1>a DEF Live
  <2> QED
    BY <2>1, <1>a, <1>3, LiveIsCurrent DEF CurrentIsLive
<1>5. Current(s)' = n
  <2>1. n \in Live(s)'
    BY <1>a, <1>2, <1>3 DEF Live, LiveRows
  <2> QED
    BY <2>1, LiveIsCurrentNext DEF CurrentIsLive
<1>6. ASSUME NEW u \in Sessions, u # s PROVE Current(u)' = Current(u)
  <2>1. (u \in Opened) = (u \in Opened)'
    BY <1>2, <1>3, <1>6 DEF Opened
  <2>2. Live(u)' = Live(u)
    BY <1>a, <1>2, <1>3, <1>6 DEF Live, LiveRows
  <2> QED
    BY <2>1, <2>2, CurrentStays
<1>7. Lifecycle!Rotate(s, n)
  BY <1>2, <1>4, <1>5, <1>6 DEF Lifecycle!Rotate, Lifecycle!Issue
<1> QED
  BY <1>7

\* Any other step closes the sessions whose live row it revokes or deletes.
LEMMA ShrinkRefines ==
  ASSUME Inv, Inv', UNCHANGED <<issued, sid, rotatedTo>>,
         rows' \subseteq rows, revoked \subseteq revoked'
  PROVE  \E S \in SUBSET Sessions : Lifecycle!Close(S)
PROOF
<1> DEFINE S == {s \in Sessions : Live(s) # {} /\ Live(s)' = {}}
<1>1. ASSUME NEW s \in Sessions PROVE (s \in Opened) = (s \in Opened)' /\ Live(s)' \subseteq Live(s)
  BY DEF Opened, Live, LiveRows
<1>2. ASSUME NEW s \in S PROVE Current(s) \in Tokens /\ Current(s)' = "closed"
  <2>1. PICK t \in Live(s) : t \in issued /\ t \in Tokens
    BY DEF Live, LiveRows, Inv, TypeOK
  <2>2. Current(s) = t
    BY <2>1, LiveIsCurrent DEF CurrentIsLive
  <2>3. (s \in Opened)'
    BY <2>1, <1>1 DEF Opened, Live
  <2> QED
    BY <2>1, <2>2, <2>3 DEF Current
<1>3. ASSUME NEW s \in Sessions, s \notin S PROVE Current(s)' = Current(s)
  <2>1. Live(s)' = Live(s)
    BY <1>1, <1>3 DEF Inv, OneLiveTokenPerSession, Live
  <2> QED
    BY <2>1, <1>1, CurrentStays
<1>4. Lifecycle!Close(S)
  <2>1. ASSUME NEW s \in Sessions
        PROVE  Current(s)' = IF s \in S THEN "closed" ELSE Current(s)
    BY <1>2, <1>3
  <2>2. \A s \in S : Current(s) \in Tokens /\ s \in Sessions
    BY <1>2
  <2> HIDE DEF S
  <2> QED
    BY <2>1, <2>2 DEF Lifecycle!Close
<1> QED
  BY <1>4

\* Every step is a step of the lifecycle or leaves it alone.
LEMMA NextRefines ==
  ASSUME Inv, Inv', [Next]_vars
  PROVE  Lifecycle!Next
PROOF
<1>1. ASSUME NEW s \in Sessions, NEW t \in Tokens, Login(s, t) PROVE Lifecycle!Next
  BY <1>1, LoginRefines DEF Lifecycle!Next
<1>2. ASSUME NEW h \in Handlers, NEW n \in Tokens \ issued, Rotation(h, n), Claim(h)
      PROVE  Lifecycle!Next
  <2>1. req[h].pc = "claim"
    BY <1>2 DEF Claim
  <2>2. CASE req[h].active \in LiveRows /\ rotatedTo[req[h].active] = None
    BY <1>2, <2>1, <2>2, RotationRefines DEF Lifecycle!Next
  <2>3. CASE ~(req[h].active \in LiveRows /\ rotatedTo[req[h].active] = None)
    BY <1>2, <2>3, ShrinkRefines DEF Claim, Lifecycle!Next
  <2> QED
    BY <2>2, <2>3
<1>3. CASE /\ ~\E s \in Sessions, t \in Tokens : Login(s, t)
           /\ ~\E h \in Handlers, n \in Tokens \ issued : Rotation(h, n) /\ Claim(h)
  BY <1>3, OtherStepsShrink, ShrinkRefines DEF Lifecycle!Next
<1> QED
  BY <1>1, <1>2, <1>3

\* Sessions are opened once, have one current token that only rotation replaces,
\* by a token nobody held, and stay closed once closed: a rotation racing a
\* logout, a password change or a replay verdict never revives a session.
THEOREM Refinement == Spec => ImplementsLifecycle
PROOF
<1>1. Init => Lifecycle!Init
  BY InitRefines
<1>2. Inv /\ Inv' /\ [Next]_vars => Lifecycle!Next
  BY NextRefines
<1> QED
  BY <1>1, <1>2, Invariance, PTL DEF Spec, ImplementsLifecycle, Lifecycle!Spec

-----------------------------------------------------------------------------
(* Verdicts: who is served, and when a session is revoked for replay *)

\* Why revoking the session of handler h for replay is justified.
Justified(h) ==
  LET t == req[h].presented
      c == rotatedTo[t]
  IN  \/ t \in expired \/ t \in replayed
      \/ c = None /\ t \in revoked
      \/ c # None /\ c \in revoked \cup expired

\* The token a handler tries to claim: the presented one, on the first attempt
\* only, or its replacement, or a later one once the replacement is used up.
ClaimsAlongChain(h) ==
  LET t == req[h].presented
      a == req[h].active
      c == rotatedTo[t]
  IN  req[h].pc \in {"claim", "reread", "regrace"} =>
        \/ a = t /\ req[h].attempt = 1
        \/ a # t /\ c # None /\ (a = c \/ c \in revoked \cup expired)

\* What a handler read and keeps across an await is still true of the table:
\* a revoked row never changes its successor.
ReadsStayTrue(h) ==
  LET t == req[h].presented
      a == req[h].active
  IN  /\ req[h].pc = "lookup" => a = t /\ req[h].attempt = 1
      /\ req[h].pc = "grace" => /\ a = t /\ t \in revoked /\ req[h].to = rotatedTo[t]
                                /\ req[h].flagged => t \in replayed
                                /\ req[h].attempt = 1
      /\ req[h].pc = "regrace" => /\ a \in revoked /\ req[h].to = rotatedTo[a]
                                  /\ req[h].flagged => a \in replayed
      /\ req[h].pc \in {"reread", "revoke", "commit"} => a \in revoked \/ a \notin rows

\* A superseded token leads to a replay verdict or a refusal, never to a claim.
SupersededRefused(h) ==
  LET t == req[h].presented
  IN  req[h].superseded =>
        /\ t \in issued /\ rotatedTo[t] # None /\ rotatedTo[t] \in revoked
        /\ req[h].pc \notin {"claim", "reread", "regrace", "ok"}

HandlerInv(h) ==
  /\ req[h].pc \in Waiting \cup {"replay"} => req[h].presented \in issued
  /\ ClaimsAlongChain(h) /\ ReadsStayTrue(h) /\ SupersededRefused(h)
  /\ req[h].pc \in {"revoke", "commit", "replay"} => Justified(h)

VerdictInv ==
  /\ Inv
  /\ issued \ rows \subseteq expired
  /\ replayed \subseteq revoked
  /\ \A h \in Handlers : HandlerInv(h)

-----------------------------------------------------------------------------
(* How the table evolves *)

History ==
  /\ issued \subseteq issued' /\ revoked \subseteq revoked'
  /\ replayed \subseteq replayed' /\ expired \subseteq expired'
  /\ \A t \in issued : t \in rows' => t \in rows
  /\ \A t \in issued : sid'[t] = sid[t]
  /\ \A t \in revoked : rotatedTo'[t] = rotatedTo[t]
  /\ \A t \in issued : rotatedTo[t] # None => rotatedTo'[t] = rotatedTo[t]

\* Nothing is forgotten: tokens stay issued, revoked, flagged and expired, a
\* deleted row stays deleted, and neither the session of a token nor a link,
\* once written, is ever changed.
LEMMA TableHistory == ASSUME TypeOK, [Next]_vars PROVE History
PROOF
<1> USE DEF History
<1>t. /\ rotatedTo \in [Tokens -> Tokens \cup {None}] /\ revoked \subseteq issued
      /\ rows \subseteq issued /\ issued \subseteq Tokens /\ sid \in [Tokens -> Sessions \cup {None}]
  BY DEF TypeOK
<1>1. ASSUME NEW s \in Sessions, NEW t \in Tokens, Login(s, t) PROVE History
  BY <1>1, <1>t DEF Login, Store
<1>2. ASSUME NEW h \in Handlers, Claim(h) PROVE History
  <2> DEFINE head == req[h].active \in LiveRows /\ rotatedTo[req[h].active] = None
  <2>1. CASE head
    <3>1. PICK n \in Tokens \ issued : Rotation(h, n)
      BY <1>2, <2>1 DEF Claim
    <3> QED
      BY <1>2, <2>1, <3>1, <1>t DEF Claim, Rotation, Store, LiveRows
  <2>2. CASE ~head
    BY <1>2, <2>2, <1>t DEF Claim
  <2> QED
    BY <2>1, <2>2
<1>3. ASSUME NEW h \in Handlers, CommitReplay(h) PROVE History
  BY <1>3 DEF CommitReplay, CommitOrRollback, CommitMatching
<1>4. ASSUME NEW h \in Handlers, Refresh(h), ~Claim(h), ~CommitReplay(h) PROVE History
  BY <1>4 DEF Refresh, Lookup, Grace, Reread, Regrace, RevokeForReplay, tableVars
<1>5. ASSUME NEW h \in Handlers, NEW t \in Tokens, Start(h, t) PROVE History
  BY <1>5 DEF Start, tableVars
<1>6. ASSUME NEW r \in Revokers, ResetPassword(r) PROVE History
  BY <1>6 DEF ResetPassword, BeginUpdate, tableVars
<1>7. ASSUME NEW r \in Revokers, NEW s \in Sessions, Logout(r, s) \/ ChangePassword(r, s)
      PROVE  History
  BY <1>7 DEF Logout, ChangePassword, BeginUpdate, tableVars
<1>8. ASSUME NEW r \in Revokers, Revoke(r) PROVE History
  BY <1>8 DEF Revoke
<1>9. ASSUME NEW t \in Tokens, Expire(t) PROVE History
  BY <1>9 DEF Expire, tableVars
<1>10. CASE Cleanup
  BY <1>10 DEF Cleanup
<1>11. CASE Crash \/ UNCHANGED vars
  BY <1>11 DEF Crash, vars, tableVars
<1> QED
  BY <1>1, <1>2, <1>3, <1>4, <1>5, <1>6, <1>7, <1>8, <1>9, <1>10, <1>11 DEF Next

\* A handler that does not move keeps its part of the invariant.
LEMMA HandlerWaits ==
  ASSUME VerdictInv, History, NEW h \in Handlers, req'[h] = req[h]
  PROVE  HandlerInv(h)'
PROOF
<1>1. /\ HandlerInv(h)
      /\ req[h].pc \in Waiting => req[h].active \in issued
      /\ revoked \subseteq issued
  BY DEF VerdictInv, Inv, RequestOnOneSession, TypeOK
<1>2. ClaimsAlongChain(h)'
  BY <1>1 DEF History, HandlerInv, ClaimsAlongChain, Waiting
<1>3. ReadsStayTrue(h)'
  BY <1>1 DEF History, HandlerInv, ReadsStayTrue, Waiting
<1>4. SupersededRefused(h)'
  BY <1>1 DEF History, HandlerInv, SupersededRefused
<1>5. req'[h].pc \in {"revoke", "commit", "replay"} => Justified(h)'
  BY <1>1 DEF History, HandlerInv, Justified, Waiting
<1>6. req'[h].pc \in Waiting \cup {"replay"} => req'[h].presented \in issued'
  BY <1>1 DEF History, HandlerInv
<1> QED
  BY <1>2, <1>3, <1>4, <1>5, <1>6 DEF HandlerInv

-----------------------------------------------------------------------------
(* One step of a refresh handler *)

\* A failed grace check justifies the verdict against a revoked token whose
\* row was read as it still is.
LEMMA NoGraceJustified ==
  ASSUME VerdictInv, NEW h \in Handlers, ~GraceChild(h),
         req[h].presented \in issued, req[h].presented \in revoked,
         req[h].to = rotatedTo[req[h].presented],
         req[h].flagged => req[h].presented \in replayed
  PROVE  Justified(h)
PROOF
<1> DEFINE t == req[h].presented
           c == rotatedTo[t]
<1>1. CASE req[h].flagged \/ c = None
  BY <1>1 DEF Justified
<1>2. CASE ~req[h].flagged /\ c # None
  <2>1. c \in issued /\ sid[c] = sid[t]
    BY <1>2 DEF VerdictInv, Inv, SessionIsOneChain
  <2>2. rotatedTo[c] # None => c \in revoked
    BY <2>1 DEF VerdictInv, Inv, SessionIsOneChain
  <2>3. c \notin rows => c \in expired
    BY <2>1 DEF VerdictInv
  <2>4. c \in replayed => c \in revoked
    BY DEF VerdictInv
  <2>5. c \in revoked \/ c \in expired
    BY <1>2, <2>1, <2>2, <2>3, <2>4 DEF GraceChild
  <2> QED
    BY <1>2, <2>5 DEF Justified
<1> QED
  BY <1>1, <1>2

\* Moving on to another await leaves the other fields alone.
LEMMA GotoFields ==
  ASSUME TypeOK, NEW h \in Handlers, NEW pc \in Waiting, Goto(h, pc)
  PROVE  /\ req'[h].pc = pc /\ req'[h].presented = req[h].presented
         /\ req'[h].active = req[h].active /\ req'[h].attempt = req[h].attempt
         /\ req'[h].superseded = req[h].superseded
PROOF BY DEF TypeOK, Request, Goto

\* Reading a row remembers its successor and its replay flag.
LEMMA ReadRowFields ==
  ASSUME TypeOK, NEW h \in Handlers, NEW t \in Tokens, NEW pc \in Waiting, ReadRow(h, t, pc)
  PROVE  /\ req'[h].pc = pc /\ req'[h].presented = req[h].presented
         /\ req'[h].active = req[h].active /\ req'[h].attempt = req[h].attempt
         /\ req'[h].superseded = req[h].superseded
         /\ req'[h].to = rotatedTo[t] /\ (req'[h].flagged => t \in replayed)
PROOF BY DEF TypeOK, Request, ReadRow

\* An answer keeps the presented token and the history field.
LEMMA AnswerFields ==
  ASSUME TypeOK, NEW h \in Handlers, NEW a \in Answers, Answer(h, a)
  PROVE  /\ req'[h].pc = a /\ req'[h].presented = req[h].presented
         /\ req'[h].superseded = req[h].superseded
PROOF BY DEF TypeOK, Request, Answer, NewRequest

\* A handler that answers without serving, and judges a replay only with cause.
LEMMA HandlerAnswers ==
  ASSUME VerdictInv, History, NEW h \in Handlers, req[h].pc \in Waiting,
         NEW a \in Answers, Answer(h, a),
         a = "ok" => ~req[h].superseded,
         a = "replay" => Justified(h)
  PROVE  HandlerInv(h)'
PROOF
<1>1. /\ req'[h].pc = a /\ req'[h].presented = req[h].presented
      /\ req'[h].superseded = req[h].superseded
  BY AnswerFields DEF VerdictInv, Inv
<1>2. /\ HandlerInv(h) /\ req[h].presented \in issued /\ revoked \subseteq issued
  BY DEF VerdictInv, HandlerInv, Inv, TypeOK
<1>3. a \notin Waiting /\ a \in {"ok", "denied", "replay", "error"}
  BY DEF Answers, Waiting
<1>4. ClaimsAlongChain(h)' /\ ReadsStayTrue(h)'
  BY <1>1, <1>3 DEF ClaimsAlongChain, ReadsStayTrue
<1>5. SupersededRefused(h)'
  BY <1>1, <1>2, <1>3 DEF HandlerInv, SupersededRefused, History
<1>6. a = "replay" => Justified(h)'
  BY <1>1, <1>2 DEF Justified, History
<1> QED
  BY <1>1, <1>2, <1>3, <1>4, <1>5, <1>6 DEF HandlerInv, History

\* A handler that goes on to revoke the session for replay.
LEMMA HandlerRevokes ==
  ASSUME VerdictInv, History, NEW h \in Handlers, req[h].pc \in Waiting, Goto(h, "revoke"),
         req[h].active \in revoked \/ req[h].active \notin rows,
         Justified(h)
  PROVE  HandlerInv(h)'
PROOF
<1>1. /\ req'[h].pc = "revoke" /\ req'[h].presented = req[h].presented
      /\ req'[h].active = req[h].active /\ req'[h].superseded = req[h].superseded
  BY GotoFields DEF VerdictInv, Inv, Waiting
<1>2. /\ HandlerInv(h) /\ req[h].presented \in issued /\ req[h].active \in issued
      /\ revoked \subseteq issued
  BY DEF VerdictInv, HandlerInv, Inv, TypeOK, RequestOnOneSession
<1>3. ClaimsAlongChain(h)' /\ ReadsStayTrue(h)'
  BY <1>1, <1>2 DEF ClaimsAlongChain, ReadsStayTrue, History
<1>4. SupersededRefused(h)'
  BY <1>1, <1>2 DEF HandlerInv, SupersededRefused, History
<1>5. Justified(h)'
  BY <1>1, <1>2 DEF Justified, History
<1> QED
  BY <1>1, <1>2, <1>3, <1>4, <1>5 DEF HandlerInv, History

\* The handler that moves keeps its part of the invariant.
LEMMA HandlerMoves ==
  ASSUME MaxAttempts > 1, VerdictInv, History, NEW h \in Handlers, Refresh(h)
  PROVE  HandlerInv(h)'
PROOF
<1> DEFINE t == req[h].presented
           a == req[h].active
           c == rotatedTo[t]
<1>i. /\ HandlerInv(h) /\ Inv /\ TypeOK /\ req[h] \in Request
      /\ revoked \subseteq issued /\ rows \subseteq issued /\ issued \subseteq Tokens
      /\ issued \ rows \subseteq expired
  BY DEF VerdictInv, Inv, TypeOK
<1>p. req[h].pc \in Waiting
  BY DEF Refresh, Lookup, Grace, Claim, Reread, Regrace, RevokeForReplay, CommitReplay, CommitOrRollback, CommitMatching, Waiting
<1>w. t \in issued /\ a \in issued /\ t \in issued'
  BY <1>i, <1>p DEF Inv, RequestOnOneSession, History
<1>r. \A u \in issued : rotatedTo[u] # None => u \in revoked
  BY <1>i DEF Inv, SessionIsOneChain
<1>1. CASE Lookup(h)
  <2>1. CASE Answer(h, "denied")
    BY <2>1, <1>p, HandlerAnswers DEF Answers
  <2>2. CASE ReadRow(h, t, "grace") /\ (rotatedTo[t] # None \/ t \in revoked)
    <3>1. /\ req'[h].pc = "grace" /\ req'[h].presented = t /\ req'[h].active = a
          /\ req'[h].attempt = req[h].attempt /\ req'[h].superseded = req[h].superseded
          /\ req'[h].to = rotatedTo[t] /\ (req'[h].flagged => t \in replayed)
      BY <2>2, <1>i, <1>w, ReadRowFields DEF Waiting
    <3>2. UNCHANGED <<issued, rows, rotatedTo, revoked, replayed, expired>>
      BY <1>1 DEF Lookup, tableVars
    <3>3. t \in revoked /\ a = t /\ req[h].attempt = 1
      BY <2>2, <1>1, <1>r, <1>w, <1>i DEF Lookup, HandlerInv, ReadsStayTrue
    <3> QED
      BY <3>1, <3>2, <3>3, <1>w, <1>i
         DEF HandlerInv, ClaimsAlongChain, ReadsStayTrue, SupersededRefused
  <2>3. CASE Goto(h, "claim") /\ rotatedTo[t] = None
    <3>1. /\ req'[h].pc = "claim" /\ req'[h].presented = t /\ req'[h].active = a
          /\ req'[h].attempt = req[h].attempt /\ req'[h].superseded = req[h].superseded
      BY <2>3, <1>i, GotoFields DEF Waiting
    <3>2. a = t /\ req[h].attempt = 1 /\ ~req[h].superseded
      BY <2>3, <1>1, <1>i DEF Lookup, HandlerInv, ReadsStayTrue, SupersededRefused
    <3> QED
      BY <3>1, <3>2, <1>w DEF HandlerInv, ClaimsAlongChain, ReadsStayTrue, SupersededRefused
  <2> QED
    BY <1>1, <2>1, <2>2, <2>3 DEF Lookup
<1>2. CASE Grace(h)
  <2>0. /\ a = t /\ t \in revoked /\ req[h].to = c /\ (req[h].flagged => t \in replayed)
        /\ req[h].attempt = 1 /\ req[h].pc = "grace"
        /\ UNCHANGED <<issued, rows, rotatedTo, revoked, replayed, expired>>
    BY <1>2, <1>i DEF Grace, HandlerInv, ReadsStayTrue, tableVars
  <2>1. CASE GraceChild(h)
    <3>1. /\ c # None /\ c \notin revoked
      BY <2>0, <2>1 DEF GraceChild
    <3>2. /\ req'[h].pc = "claim" /\ req'[h].presented = t /\ req'[h].active = c
          /\ req'[h].superseded = req[h].superseded
      BY <1>2, <2>0, <2>1, <1>i DEF Grace, TypeOK, Request
    <3>3. ~req[h].superseded /\ c # t
      BY <3>1, <2>0, <1>i DEF HandlerInv, SupersededRefused
    <3> QED
      BY <3>1, <3>2, <3>3, <2>0, <1>w
         DEF HandlerInv, ClaimsAlongChain, ReadsStayTrue, SupersededRefused
  <2>2. CASE ~GraceChild(h)
    <3>1. Goto(h, "revoke") /\ Justified(h)
      BY <1>2, <2>0, <2>2, <1>w, NoGraceJustified DEF Grace
    <3> QED
      BY <3>1, <2>0, <1>p, HandlerRevokes
  <2> QED
    BY <2>1, <2>2
<1>3. CASE Claim(h)
  <2>0. req[h].pc = "claim" /\ ~req[h].superseded
    BY <1>3, <1>i DEF Claim, HandlerInv, SupersededRefused
  <2>1. CASE Answer(h, "ok")
    BY <2>1, <2>0, <1>p, HandlerAnswers DEF Answers
  <2>2. CASE ~(a \in LiveRows /\ rotatedTo[a] = None) /\ Goto(h, "reread")
    <3>1. /\ req'[h].pc = "reread" /\ req'[h].presented = t /\ req'[h].active = a
          /\ req'[h].attempt = req[h].attempt /\ req'[h].superseded = req[h].superseded
      BY <2>2, <1>i, GotoFields DEF Waiting
    <3>2. a \in revoked \/ a \notin rows
      BY <2>2, <1>r, <1>w DEF LiveRows
    <3>3. UNCHANGED <<issued, rows, rotatedTo, revoked, replayed, expired>>
      BY <1>3, <2>2 DEF Claim
    <3> QED
      BY <3>1, <3>2, <3>3, <2>0, <1>w, <1>i
         DEF HandlerInv, ClaimsAlongChain, ReadsStayTrue, SupersededRefused
  <2> QED
    BY <1>3, <2>1, <2>2 DEF Claim
<1>4. CASE Reread(h)
  <2>0. /\ req[h].pc = "reread" /\ ~req[h].superseded
        /\ a \in revoked \/ a \notin rows
        /\ UNCHANGED <<issued, rows, rotatedTo, revoked, replayed, expired>>
    BY <1>4, <1>i DEF Reread, HandlerInv, ReadsStayTrue, SupersededRefused, tableVars
  <2>1. CASE a \in rows
    <3>1. /\ req'[h].pc = "regrace" /\ req'[h].presented = t /\ req'[h].active = a
          /\ req'[h].attempt = req[h].attempt /\ req'[h].superseded = req[h].superseded
          /\ req'[h].to = rotatedTo[a] /\ (req'[h].flagged => a \in replayed)
      BY <1>4, <2>1, <1>i, <1>w, ReadRowFields DEF Reread, Waiting
    <3> QED
      BY <3>1, <2>0, <2>1, <1>w, <1>i
         DEF HandlerInv, ClaimsAlongChain, ReadsStayTrue, SupersededRefused
  <2>2. CASE a \notin rows
    <3>1. a \in expired
      BY <2>2, <1>w, <1>i
    <3>2. Justified(h)
      BY <3>1, <2>0, <1>i DEF HandlerInv, ClaimsAlongChain, Justified
    <3> QED
      BY <1>4, <2>2, <3>2, <1>p, HandlerRevokes DEF Reread
  <2> QED
    BY <2>1, <2>2
<1>5. CASE Regrace(h)
  <2>0. /\ req[h].pc = "regrace" /\ ~req[h].superseded
        /\ a \in revoked /\ req[h].to = rotatedTo[a] /\ (req[h].flagged => a \in replayed)
        /\ UNCHANGED <<issued, rows, rotatedTo, revoked, replayed, expired>>
    BY <1>5, <1>i DEF Regrace, HandlerInv, ReadsStayTrue, SupersededRefused, tableVars
  <2>c. \/ a = t /\ req[h].attempt = 1
        \/ a # t /\ c # None /\ (a = c \/ c \in revoked \cup expired)
    BY <2>0, <1>i DEF HandlerInv, ClaimsAlongChain
  <2>1. CASE GraceChild(h) /\ req[h].attempt < MaxAttempts
    <3> DEFINE b == req[h].to
    <3>1. b # None /\ rotatedTo[b] = None
      BY <2>1 DEF GraceChild
    <3>2. /\ req'[h].pc = "claim" /\ req'[h].presented = t /\ req'[h].active = b
          /\ req'[h].superseded = req[h].superseded
      BY <1>5, <2>0, <2>1, <1>i DEF Regrace, TypeOK, Request
    <3>3. c # None /\ (b = c \/ c \in revoked \cup expired)
      BY <2>c, <2>0, <3>1
    <3>4. b # t
      BY <3>1, <3>3
    <3> QED
      BY <3>2, <3>3, <3>4, <2>0, <1>w
         DEF HandlerInv, ClaimsAlongChain, ReadsStayTrue, SupersededRefused
  <2>2. CASE ~(GraceChild(h) /\ req[h].attempt < MaxAttempts)
    <3>1. Justified(h)
      <4>1. CASE a = t /\ req[h].attempt = 1
        BY <4>1, <2>0, <2>2, <1>w, NoGraceJustified
      <4>2. CASE a # t /\ c # None /\ (a = c \/ c \in revoked \cup expired)
        BY <4>2, <2>0 DEF Justified
      <4> QED
        BY <2>c, <4>1, <4>2
    <3>2. Goto(h, "revoke")
      BY <1>5, <2>2 DEF Regrace
    <3> QED
      BY <3>1, <3>2, <2>0, <1>p, HandlerRevokes
  <2> QED
    BY <2>1, <2>2
<1>6. CASE RevokeForReplay(h)
  <2>1. /\ req'[h].pc = "commit" /\ req'[h].presented = t /\ req'[h].active = a
        /\ req'[h].superseded = req[h].superseded
        /\ req[h].pc = "revoke"
        /\ UNCHANGED <<issued, rows, rotatedTo, revoked, replayed, expired>>
    BY <1>6, <1>i DEF RevokeForReplay, TypeOK, Request, tableVars
  <2> QED
    BY <2>1, <1>w, <1>i
       DEF HandlerInv, ClaimsAlongChain, ReadsStayTrue, SupersededRefused, Justified
<1>7. CASE CommitReplay(h)
  <2>1. req[h].pc = "commit" /\ Justified(h)
    BY <1>7, <1>i DEF CommitReplay, CommitOrRollback, CommitMatching, HandlerInv
  <2> QED
    BY <1>7, <2>1, <1>p, HandlerAnswers DEF CommitReplay, CommitOrRollback, CommitMatching, Answers
<1> QED
  BY <1>1, <1>2, <1>3, <1>4, <1>5, <1>6, <1>7 DEF Refresh

-----------------------------------------------------------------------------
(* The inductive step *)

\* Rows disappear only after they expired, and only revoked rows are flagged.
LEMMA TableVerdict ==
  ASSUME VerdictInv, [Next]_vars
  PROVE  (issued \ rows \subseteq expired)' /\ (replayed \subseteq revoked)'
PROOF
<1> USE DEF VerdictInv
<1>1. ASSUME NEW s \in Sessions, NEW t \in Tokens, Login(s, t)
      PROVE  (issued \ rows \subseteq expired)' /\ (replayed \subseteq revoked)'
  BY <1>1 DEF Login, Store
<1>2. ASSUME NEW h \in Handlers, Claim(h)
      PROVE  (issued \ rows \subseteq expired)' /\ (replayed \subseteq revoked)'
  BY <1>2 DEF Claim, Rotation, Store
<1>3. ASSUME NEW h \in Handlers, CommitReplay(h)
      PROVE  (issued \ rows \subseteq expired)' /\ (replayed \subseteq revoked)'
  <2>1. req[h].active \in rows => req[h].active \in revoked
    BY <1>3 DEF CommitReplay, CommitOrRollback, CommitMatching, HandlerInv, ReadsStayTrue
  <2> QED
    BY <1>3, <2>1 DEF CommitReplay, CommitOrRollback, CommitMatching
<1>4. ASSUME NEW h \in Handlers, Refresh(h), ~Claim(h), ~CommitReplay(h)
      PROVE  (issued \ rows \subseteq expired)' /\ (replayed \subseteq revoked)'
  BY <1>4 DEF Refresh, Lookup, Grace, Reread, Regrace, RevokeForReplay, tableVars
<1>5. ASSUME NEW h \in Handlers, NEW t \in Tokens, Start(h, t)
      PROVE  (issued \ rows \subseteq expired)' /\ (replayed \subseteq revoked)'
  BY <1>5 DEF Start, tableVars
<1>6. ASSUME NEW r \in Revokers, ResetPassword(r) \/ Revoke(r)
      PROVE  (issued \ rows \subseteq expired)' /\ (replayed \subseteq revoked)'
  BY <1>6 DEF ResetPassword, BeginUpdate, Revoke, tableVars
<1>7. ASSUME NEW r \in Revokers, NEW s \in Sessions, Logout(r, s) \/ ChangePassword(r, s)
      PROVE  (issued \ rows \subseteq expired)' /\ (replayed \subseteq revoked)'
  BY <1>7 DEF Logout, ChangePassword, BeginUpdate, tableVars
<1>8. CASE Cleanup \/ Crash \/ UNCHANGED vars \/ \E t \in Tokens : Expire(t)
  BY <1>8 DEF Cleanup, Crash, vars, Expire, tableVars
<1> QED
  BY <1>1, <1>2, <1>3, <1>4, <1>5, <1>6, <1>7, <1>8 DEF Next

\* A handler that receives a request is in order from the start.
LEMMA HandlerStarts ==
  ASSUME VerdictInv, History, NEW h \in Handlers, NEW t \in Tokens, Start(h, t)
  PROVE  HandlerInv(h)'
PROOF
<1>1. /\ req'[h].pc = "lookup" /\ req'[h].presented = t /\ req'[h].active = t
      /\ req'[h].attempt = 1
      /\ req'[h].superseded => rotatedTo[t] # None /\ rotatedTo[t] \in revoked
  BY DEF Start, NewRequest, VerdictInv, Inv, TypeOK
<1>2. t \in issued /\ UNCHANGED <<issued, rows, rotatedTo, revoked, replayed, expired>>
  BY DEF Start, tableVars
<1> QED
  BY <1>1, <1>2 DEF HandlerInv, ClaimsAlongChain, ReadsStayTrue, SupersededRefused

\* A step of one handler leaves the others where they are.
LEMMA OthersWait ==
  ASSUME NEW h \in Handlers, NEW k \in Handlers, k # h, TypeOK,
         Refresh(h) \/ \E t \in Tokens : Start(h, t)
  PROVE  req'[k] = req[k]
PROOF
<1>1. CASE Refresh(h)
  BY <1>1 DEF Refresh, Lookup, Grace, Claim, Reread, Regrace, RevokeForReplay, CommitReplay, CommitOrRollback, CommitMatching,
              Goto, Answer, ReadRow, TypeOK
<1>2. CASE \E t \in Tokens : Start(h, t)
  BY <1>2 DEF Start, TypeOK
<1> QED
  BY <1>1, <1>2

\* Every step keeps VerdictInv.
LEMMA NextVerdictInv ==
  ASSUME MaxAttempts > 1
  PROVE  VerdictInv /\ [Next]_vars => VerdictInv'
PROOF
<1> SUFFICES ASSUME VerdictInv, [Next]_vars PROVE VerdictInv'
  OBVIOUS
<1>1. Inv' /\ History /\ TypeOK
  BY NextInv, TableHistory DEF VerdictInv, Inv
<1>2. ASSUME NEW k \in Handlers PROVE HandlerInv(k)'
  <2>1. ASSUME NEW h \in Handlers, Refresh(h) \/ \E t \in Tokens : Start(h, t)
        PROVE  HandlerInv(k)'
    <3>1. CASE k = h
      BY <3>1, <2>1, <1>1, HandlerMoves, HandlerStarts
    <3>2. CASE k # h
      BY <3>2, <2>1, <1>1, OthersWait, HandlerWaits
    <3> QED
      BY <3>1, <3>2
  <2>2. CASE Crash
    <3>1. req'[k].pc = "idle" /\ ~req'[k].superseded
      BY <2>2 DEF Crash, IdleRequest, NewRequest
    <3> QED
      BY <3>1 DEF HandlerInv, ClaimsAlongChain, ReadsStayTrue, SupersededRefused, Waiting
  <2>3. CASE req' = req
    BY <2>3, <1>1, HandlerWaits
  <2>4. \/ \E h \in Handlers : Refresh(h) \/ \E t \in Tokens : Start(h, t)
        \/ Crash \/ req' = req
    BY DEF Next, vars, Login, ResetPassword, Revoke, Logout, ChangePassword, BeginUpdate,
           Expire, Cleanup
  <2> QED
    BY <2>1, <2>2, <2>3, <2>4
<1> QED
  BY <1>1, <1>2, TableVerdict DEF VerdictInv

\* VerdictInv holds initially.
LEMMA InitVerdictInv == Init => VerdictInv
PROOF
<1>1. Init => \A h \in Handlers : HandlerInv(h)
  BY DEF Init, IdleRequest, NewRequest, HandlerInv, ClaimsAlongChain, ReadsStayTrue,
         SupersededRefused, Waiting
<1> QED
  BY <1>1, InitInv DEF VerdictInv, Init

-----------------------------------------------------------------------------
(* Theorems *)

\* VerdictInv is an invariant as soon as the loop may try twice; with a single
\* attempt the loser of a race would be judged a replay.
THEOREM VerdictInvariance ==
  ASSUME MaxAttempts > 1
  PROVE  Spec => []VerdictInv
PROOF BY InitVerdictInv, NextVerdictInv, PTL DEF Spec

\* A token superseded twice before the request arrived never yields new tokens,
\* whatever runs concurrently with the refresh handler.
THEOREM SupersededIsRefused ==
  ASSUME MaxAttempts > 1
  PROVE  Spec => []SupersededNeverServed
PROOF
<1>1. VerdictInv => SupersededNeverServed
  BY DEF VerdictInv, HandlerInv, SupersededRefused, SupersededNeverServed
<1> QED
  BY <1>1, VerdictInvariance, PTL

\* A session is revoked for replay only with cause: the retry of a lost
\* rotation, or the loser of a race, is never taken for a thief while the
\* replacement of its token is unused.
THEOREM ReplayIsJustified ==
  ASSUME MaxAttempts > 1
  PROVE  Spec => []ReplayVerdictJustified
PROOF
<1>1. VerdictInv => ReplayVerdictJustified
  BY DEF VerdictInv, HandlerInv, Justified, ReplayVerdictJustified
<1> QED
  BY <1>1, VerdictInvariance, PTL

=============================================================================

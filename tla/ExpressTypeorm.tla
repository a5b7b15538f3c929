--------------------------- MODULE ExpressTypeorm ---------------------------
(***************************************************************************)
(* The Express port on TypeORM: what each of its handlers does, given as   *)
(* the steps between its awaits.  AuthAccounts, RefreshPorts, EntityCrud   *)
(* and ServiceConfigCache define the steps.                                *)
(***************************************************************************)
EXTENDS Sequences

(* Accounts: routes.ts, session.ts, verification-jobs.ts *)

persistence == "columns"
issueAuthSession == <<"openSession">>
sendInitialVerificationEmail == <<"readUnverified", "mintVerification">>

signup ==
  <<"findEmail", "countUsers", "insertUser">> \o issueAuthSession \o sendInitialVerificationEmail
login == <<"readUnlocked", "verifyPassword", "rereadForMfa">> \o issueAuthSession
verifyChallenge == <<"readMfaUnlocked", "verifyFactor">> \o issueAuthSession
enroll == <<"readWithoutMfa", "writeSecret">>
enrollVerify == <<"readPending", "enableMfa">>
disable == <<"readMfa", "disableMfa">>
regenerate == <<"readMfaUnlocked", "regenerateCodes">>
logout == <<"revokeSession">>
changePassword == <<"readUser", "changePassword", "revokeOtherSessions">>
sessions == <<"listSessions">>
me == <<"readUser">>
forgotPassword == <<"readUser", "mintReset">>
resetPassword == <<"findToken", "redeemMatching">>
verifyEmail == <<"findToken", "redeemMatching">>
resendVerification == <<"readUnverified", "mintVerification">>

auth ==
  [signup |-> signup, login |-> login, verifyChallenge |-> verifyChallenge,
   enroll |-> enroll, enrollVerify |-> enrollVerify, disable |-> disable,
   regenerate |-> regenerate, logout |-> logout, changePassword |-> changePassword,
   sessions |-> sessions, me |-> me, forgotPassword |-> forgotPassword,
   resetPassword |-> resetPassword, verifyEmail |-> verifyEmail,
   resendVerification |-> resendVerification]

-----------------------------------------------------------------------------
(* POST /auth/refresh, by the steps of RefreshPorts, and the nightly job *)

resolveRotationGraceChild == {"grace", "regrace"}
refreshPresented == {"lookup"}
revokeForReplay == {"revoke", "commitMatching"}
refreshActive == refreshPresented \cup resolveRotationGraceChild
rotate == {"claim", "reread"}
refresh == refreshActive \cup rotate \cup revokeForReplay
cleanupAuthArtifacts == {"refresh_tokens", "verification_tokens"}

-----------------------------------------------------------------------------
(* Entity routes: auto-routes.ts and the audit trail *)

list == <<"readRows">>
get == <<"readRows">>
writeAudit == <<"auditEach">>
auditedCreate == <<"loadBody", "saveBody">> \o writeAudit
auditedCreateMany == <<"loadBody", "saveBody">> \o writeAudit
auditedUpdate == <<"loadForSave", "saveEntity">> \o writeAudit
auditedDelete == <<"findOlds", "deleteIds">> \o writeAudit
auditedDeleteMany == <<"findOlds", "deleteIds">> \o writeAudit
create == auditedCreate
patch == <<"findRow">> \o auditedUpdate
remove == auditedDelete
bulkCreate == auditedCreateMany
bulkDelete == auditedDeleteMany

entity ==
  [list |-> list, get |-> get, create |-> create, patch |-> patch, remove |-> remove,
   bulkCreate |-> bulkCreate, bulkDelete |-> bulkDelete]

\* This port has no option softDelete.
softEntity == entity

-----------------------------------------------------------------------------
(* service-config.ts *)

getServiceConfig == <<"cached", "readRow", "fill">>
setServiceConfig == <<"findRow", "saveFound", "invalidate">>
invalidateServiceConfigCache == <<"invalidate">>

config ==
  [get |-> getServiceConfig, set |-> setServiceConfig,
   invalidate |-> invalidateServiceConfigCache]

-----------------------------------------------------------------------------

port ==
  [auth |-> auth, persistence |-> persistence, refresh |-> refresh,
   cleanup |-> cleanupAuthArtifacts, entity |-> entity, softEntity |-> softEntity,
   config |-> config]

=============================================================================

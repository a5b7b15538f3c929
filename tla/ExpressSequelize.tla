-------------------------- MODULE ExpressSequelize --------------------------
(***************************************************************************)
(* The Express port on Sequelize: what each of its handlers does, given as *)
(* the steps between its awaits.  AuthAccounts, RefreshPorts, EntityCrud   *)
(* and ServiceConfigCache define the steps.                                *)
(***************************************************************************)
EXTENDS Sequences

(* Accounts: routes.ts, session.ts, verification-jobs.ts *)

persistence == "changed columns"
issueAuthSession == <<"openSession">>
sendInitialVerificationEmail == <<"readUnverified", "mintVerification">>

signup ==
  <<"findEmail", "countUsers", "insertUser">> \o issueAuthSession \o sendInitialVerificationEmail
login == <<"readUnlocked", "verifyPasswordSaved">> \o issueAuthSession
verifyChallenge == <<"readMfaUnlocked", "verifyFactor">> \o issueAuthSession
enroll == <<"readWithoutMfa", "writeSecret">>
enrollVerify == <<"readPending", "enableMfa">>
disable == <<"readMfa", "disableMfa">>
regenerate == <<"readMfaUnlocked", "regenerateCodes">>
logout == <<"revokeSession">>
changePassword == <<"readUser", "changePassword", "revokeOtherSessions">>
sessions == <<"listSessions">>
me == <<"readUser">>
forgotPassword == <<"readUser", "mintReset">>
resetPassword == <<"findToken", "redeemMatching">>
verifyEmail == <<"findToken", "redeemMatching">>
resendVerification == <<"readUnverified", "mintVerification">>

auth ==
  [signup |-> signup, login |-> login, verifyChallenge |-> verifyChallenge,
   enroll |-> enroll, enrollVerify |-> enrollVerify, disable |-> disable,
   regenerate |-> regenerate, logout |-> logout, changePassword |-> changePassword,
   sessions |-> sessions, me |-> me, forgotPassword |-> forgotPassword,
   resetPassword |-> resetPassword, verifyEmail |-> verifyEmail,
   resendVerification |-> resendVerification]

-----------------------------------------------------------------------------
(* POST /auth/refresh, by the steps of RefreshPorts, and the nightly job *)

resolveRotationGraceChild == {"grace", "regrace"}
refreshPresented == {"lookup"}
revokeForReplay == {"revoke", "commitMatching"}
refreshActive == refreshPresented \cup resolveRotationGraceChild
rotate == {"claim", "reread"}
refresh == refreshActive \cup rotate \cup revokeForReplay
cleanupAuthArtifacts == {"refresh_tokens", "verification_tokens"}

-----------------------------------------------------------------------------
(* Entity routes: auto-routes.ts and the audit trail *)

list == <<"readRows">>
get == <<"readRows">>
writeRow == <<"auditEach">>
auditCreate == writeRow
auditBulkCreate == writeRow
auditUpdate == writeRow
auditDelete == writeRow
auditBulkDelete == <<"findOlds", "deleteIds">> \o writeRow
create == <<"insertBody">> \o auditCreate
patch == <<"findRow", "updateInstance">> \o auditUpdate
remove == <<"findRow", "destroy">> \o auditDelete
bulkCreate == <<"insertBody">> \o auditBulkCreate
\* DELETE /:id is registered first and takes /bulk for an id; the handler of
\* DELETE /bulk is never reached.
bulkDelete == <<"noSuchRow">>

entity ==
  [list |-> list, get |-> get, create |-> create, patch |-> patch, remove |-> remove,
   bulkCreate |-> bulkCreate, bulkDelete |-> bulkDelete]

\* This port has no option softDelete.
softEntity == entity

-----------------------------------------------------------------------------
(* service-config.ts *)

getServiceConfig == <<"cached", "readRow", "fill">>
setServiceConfig == <<"findOrCreate", "saveFound", "invalidate">>
invalidateServiceConfigCache == <<"invalidate">>

config ==
  [get |-> getServiceConfig, set |-> setServiceConfig,
   invalidate |-> invalidateServiceConfigCache]

-----------------------------------------------------------------------------

port ==
  [auth |-> auth, persistence |-> persistence, refresh |-> refresh,
   cleanup |-> cleanupAuthArtifacts, entity |-> entity, softEntity |-> softEntity,
   config |-> config]

=============================================================================

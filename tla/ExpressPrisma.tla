---------------------------- MODULE ExpressPrisma ---------------------------
(***************************************************************************)
(* The Express port on Prisma: what each of its handlers does, given as    *)
(* the steps between its awaits.  AuthAccounts, RefreshPorts, EntityCrud   *)
(* and ServiceConfigCache define the steps.                                *)
(***************************************************************************)
EXTENDS Sequences

(* Accounts: routes.ts, session.ts, verification-jobs.ts *)

persistence == "columns"
issueAuthSession == <<"openSession">>
sendInitialVerificationEmail == <<"readUnverified", "mintVerification">>

signup ==
  <<"findEmail", "countUsers", "insertUser">> \o issueAuthSession \o sendInitialVerificationEmail
login == <<"readUnlocked", "verifyPasswordReturning">> \o issueAuthSession
verifyChallenge == <<"readMfaUnlocked", "verifyFactor">> \o issueAuthSession
enroll == <<"readWithoutMfa", "writeSecret">>
enrollVerify == <<"readPending", "enableMfa">>
disable == <<"readMfa", "disableMfa">>
regenerate == <<"readMfaUnlocked", "regenerateCodes">>
logout == <<"revokeSession">>
changePassword == <<"readUser", "changePassword", "revokeOtherSessions">>
sessions == <<"listSessions">>
me == <<"readUser">>
forgotPassword == <<"readUser", "mintReset">>
resetPassword == <<"findToken", "redeemOrRollback">>
verifyEmail == <<"findToken", "redeemOrRollback">>
resendVerification == <<"readUnverified", "mintVerification">>

auth ==
  [signup |-> signup, login |-> login, verifyChallenge |-> verifyChallenge,
   enroll |-> enroll, enrollVerify |-> enrollVerify, disable |-> disable,
   regenerate |-> regenerate, logout |-> logout, changePassword |-> changePassword,
   sessions |-> sessions, me |-> me, forgotPassword |-> forgotPassword,
   resetPassword |-> resetPassword, verifyEmail |-> verifyEmail,
   resendVerification |-> resendVerification]

-----------------------------------------------------------------------------
(* POST /auth/refresh, by the steps of RefreshPorts, and the nightly job *)

resolveRotationGraceChild == {"grace", "regrace"}
refreshPresented == {"lookup"}
revokeForReplay == {"revoke", "commit"}
refreshActive == refreshPresented \cup resolveRotationGraceChild
\* Three statements without a transaction.
rotate == {"claimRow", "create", "link", "reread"}
refresh == refreshActive \cup rotate \cup revokeForReplay
cleanupAuthArtifacts == {"refresh_tokens", "verification_tokens"}

-----------------------------------------------------------------------------
(* Entity routes: auto-routes.ts and the audit trail *)

list == <<"readRows">>
get == <<"readRows">>
writeAudit == <<"auditEach">>
auditedCreate == <<"insert">> \o writeAudit
auditedCreateMany == <<"createMany">> \o writeAudit
auditedUpdate == <<"lookupOld", "updateById">> \o writeAudit
auditedDelete == <<"lookupOld", "deleteById">> \o writeAudit
auditedHide == <<"lookupOld", "hideById">> \o writeAudit
auditedDeleteMany == <<"lookupMatching", "deleteIds">> \o writeAudit
update == <<"findRow">> \o auditedUpdate
delete == <<"findRow">> \o auditedDelete
deleteSoft == <<"findRow">> \o auditedHide
deleteManySoft == <<"lookupNext", "hideNext">> \o writeAudit \o <<"again">>
create == auditedCreate
patch == update
remove == delete
removeSoft == deleteSoft
bulkCreate == auditedCreateMany
bulkDelete == auditedDeleteMany
bulkDeleteSoft == deleteManySoft

entity ==
  [list |-> list, get |-> get, create |-> create, patch |-> patch, remove |-> remove,
   bulkCreate |-> bulkCreate, bulkDelete |-> bulkDelete]

\* With the option softDelete.
softEntity ==
  [entity EXCEPT !.remove = removeSoft, !.bulkDelete = bulkDeleteSoft]

-----------------------------------------------------------------------------
(* service-config.ts *)

getServiceConfig == <<"cached", "readRow", "fill">>
setServiceConfig == <<"upsert", "invalidate">>
invalidateServiceConfigCache == <<"invalidate">>

config ==
  [get |-> getServiceConfig, set |-> setServiceConfig,
   invalidate |-> invalidateServiceConfigCache]

-----------------------------------------------------------------------------

port ==
  [auth |-> auth, persistence |-> persistence, refresh |-> refresh,
   cleanup |-> cleanupAuthArtifacts, entity |-> entity, softEntity |-> softEntity,
   config |-> config]

=============================================================================

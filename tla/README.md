# Verification of projx

projx is a CLI (`create-projx`) that scaffolds full-stack projects from
templates, keeps scaffolded projects up to date with later template releases,
and installs features, of which `auth` is the one that exists, into the
generated backends. This directory holds TLA+ models of the parts in which
order, interruption and concurrency decide the outcome:

- **template update**: how `init`, `update`, `add`, `pin`, `unpin` and
  `doctor --fix` change a git repository that its owner is working in;
- **refresh-token rotation**: how concurrent HTTP handlers change the table of
  refresh tokens, in the eight Node ports of the auth feature;
- **accounts**: registration, login lockout, MFA, password and e-mail endpoints
  of the same eight ports, on the tables of users and verification tokens;
- **entity routes**: the generated CRUD endpoints of the Node templates and the
  audit trail they keep;
- **service configuration**: the cached settings of the Node, Go, Rust and
  FastAPI servers;
- **browser session**: the auth clients of the two web frontends.

TLC checks all of them on small instances. TLAPS proves the safety properties of
all of them, for any number of files, releases, tokens, sessions, accounts, rows,
requests and processes; section 4 names the few it does not reach.

## 1. Inventory

| Part | State | Operations | Hard behaviour | What makes it correct |
|---|---|---|---|---|
| Template application, `cli/src/baseline.ts` | work tree, index, HEAD, `refs/projx/baseline`, temporary branch, `.projx`, `.projx-component` | `applyTemplate` in three tiers, `saveBaselineRef`, marker migration | process death between steps; a merge base that is not the template; three code paths for one skip list | no loss of uncommitted work, no committed markers, pins honoured, clean tree after success |
| `update`, `cli/src/update.ts` | the same, and the list of conflicted files | guards, legacy migration, prompt, resumed prompt | rerun over an unfinished run | refuses what it cannot undo; defaults applied once |
| `add`, `init`, `pin`, `doctor`, `scaffold` | the same | write, adopt, edit skip lists, repair the baseline | order of commands, missing guards | as above; owner's code kept |
| Feature engine, `cli/src/features.ts` | files and markers of one instance | copy, patch at anchors, merge JSON, record | re-application on every update, failure midway | idempotent; complete or reported |
| `diff`, `detect`, `sync`, `gen`, prompts, generators | none, or generated text | | none: sequential text processing | left to unit tests |
| Session handling, `features/auth/{fastify,express}/{prisma,drizzle,sequelize,typeorm}` | `refresh_tokens` | login, refresh, logout, change and reset password, cleanup | handlers interleave at every await; READ COMMITTED; retries of lost answers; crash | one usable token per session, one chain, justified replay verdicts, every request answered |
| Login lockout, MFA, registration, single-use tokens | `users`, `verification_tokens` | login, verify, enroll, recover, reset | counters, codes and tokens read before an await and written after it; whole rows saved | lockout bounded, locks hold, the second factor is asked for, a used link is refused, there is an administrator |
| Other auth ports (fastapi, go, laravel, rust) | as above | as above | as above | as above |
| Entity routes and audit trail, `fastify`, `express`, `addons/orms` | the entity's table, `audit_logs` | create, read, patch, delete, bulk forms, soft deletion | no transactions: read, write and audit entry are separate; crash in between | what is gone is in the trail; snapshots are values the row had; a patch changes its own columns |
| Service configuration cache, `service-config.ts`, `serviceconfig.go`, `serviceconfig.rs`, `ServiceConfigRepository` | cache per process, table | Get, Set, Delete, Invalidate | fill after unlock races with an invalidation | staleness bounded; a process sees its own writes |
| Browser clients, `vitejs/src/auth.ts`, `nextjs/src/lib` | tokens in memory and storage | single-flight refresh, logout | one promise shared by all calls; late answers; reloads | newest token kept, calls finish, a page is shown, no tokens after logout |
| Admin panel (its own login and MFA lockout), backend, frontend, mobile, infra, e2e, scripts | generated projects | CRUD, UI, deployment | no protocol of their own | their tests |

How the parts interact: every CLI command reads and writes the same files and
refs; `update`, `init` and `add --name` call `applyTemplate`, `add` calls
`writeTemplateToDir` directly, `pin` and the prompt edit the skip lists that the
next run reads, `doctor --fix` writes the ref the next merge uses as its base.
The server's handlers share nothing but the database; the accounts decide when a
session is opened or revoked, the rotation what becomes of it. The browser talks
to an identity provider of its own. `PROJECT.json` lists every
component, with those left out and why, and the hazards at their lines.

## 2. Modules

| Module | What it is |
|---|---|
| `TemplateUpdate` | the CLI commands on one clone, the owner, the publisher of templates |
| `TemplateUpdateProofs` | all its safety properties |
| `MCTemplateUpdate` | for TLC; adds `ScaffoldedSpec` (projects scaffolded by this CLI version) |
| `FastifyPrisma`, `FastifyDrizzle`, `FastifySequelize`, `FastifyTypeorm`, `ExpressPrisma`, `ExpressDrizzle`, `ExpressSequelize`, `ExpressTypeorm` | what each Node port does, as data: one program per endpoint |
| `NodePorts` | the eight of them, and `Representatives` |
| `ServerPorts` | the service configuration of Go (GORM, ent, sqlc), Rust and FastAPI, as data |
| `AuthAccounts` | the steps of the account programs: the tables `users` and `verification_tokens` |
| `AuthAccountsProofs` | types, an administrator, the second factor, used links, locks, passwords |
| `GuessCountProofs` | how many wrong guesses there can be before a lock |
| `MCAuthAccounts` | `AuthAccounts` alone, for TLC |
| `EntityCrud` | the steps of the entity routes: one table and its audit trail |
| `EntityCrudProofs` | a complete trail, real snapshots, who may change a row |
| `ServiceConfigCache` | the steps of the configuration: one row, a cache per process, a clock |
| `ServiceConfigCacheProofs` | bounded staleness, a process sees its own writes |
| `MCBackend` | `AuthAccounts`, `EntityCrud` and `ServiceConfigCache` for TLC, for every way in which the ports do them |
| `BrowserSession` | one tab: tokens, the shared refresh, API calls, navigation |
| `BrowserSessionProofs` | newest token, fresh tokens, logout, calls and pages that wait |
| `MCLive` | `RefreshRotation` and `BrowserSession` for TLC, with fairness |
| `SessionLifecycle` | abstract specification: what a login session promises |
| `RefreshRotation` | the handlers and the table; its refinement mapping to `SessionLifecycle` |
| `MCRefreshRotation` | `RefreshRotation` alone, for TLC |
| `RefreshPorts` | the ways in which the eight ports differ from it |
| `MCRefreshPorts` | for TLC; adds the representative ports and the symmetry set |
| `RefreshRotationProofs` | type correctness, one usable token, one chain; `RefreshRotation` implements `SessionLifecycle`; who is served, and when a replay verdict is justified |
| `RefreshPortsProofs` | the same of the eight ports, that each implements `SessionLifecycle`, and that refreshes end |

Definitions whose comment begins with "Fault:" are variants with a plausible
bug. Nothing uses them; `PROJECT.json` lists which property rejects which.

### TemplateUpdate

A tree (`work`, `index`, `head`) maps every template path to its content and
carries `.projx` and the component's marker. A file is a function from
`Regions`, the hunks a line merge treats separately, to the set of lines a
region holds: one line in ordinary text, two between conflict markers. A
template line is the number of the release that wrote it, a line of the owner a
member of `Edits`. So "the owner's line was lost" and "the file is still at an
older release" are statements about sets; text is left out. Regions stand for
hunks far enough apart for `git merge-file` to treat them separately.

| Source | Model |
|---|---|
| `update()` before `applyTemplate` | `Update`: no pending markers, clean tree, a component; the legacy test; recording the package manager |
| `init()`, `addInstance()`, `add()` | `InitProject`, `AddInstance` (no clean-tree check: the code has none), `AddComponents` |
| `createOrphanWorktree`, writing and committing the template | `Begin`; its content is `Theirs` |
| tier 1, `git merge --allow-unrelated-histories` | `Tier1Merge`, `Tier1Abort` |
| tier 2, `tryThreeWayMerge` | `Tier2File` per path |
| tier 2 afterwards: markers, `.projx` | `Tier2Migrate`, `Tier2Manage` |
| tier 2 without conflicts: `git add -A`, commit; with: staging what merged | `Tier2AddAll`, `Tier2Commit`; `Tier2Stage` |
| tier 3, direct copy | `Tier3Instance`, `Tier3File`, `Tier3Finish` |
| `saveBaselineRef`, `getBaselineRef` | `SaveBaseline`, `BaselineRef` with its fallback `projxCommit` |
| `promptSkipLearning`, `learnSkips` | `PromptSkipLearning`, `ResumePrompt`, `Discard` |
| `pin`, `unpin`, `doctor --fix` | `Pin`, `Unpin`, `DoctorFix` |
| skip lists, `removeSkippedFiles`, `shouldWrite`, `copyStaticFiles` | `InstanceSkip`, `Writes`, `CopyStaticFiles` |

The process may die between any two of these steps (`Crash`). The owner edits,
creates, deletes, stages and commits while no command runs, and may continue in
a fresh clone, which has no `refs/projx/baseline`. `Publish` issues a release.
Three facts about git are modelled from how the code uses it and were compared
with git itself: a merge without a common ancestor succeeds exactly when the
shared paths are equal and the tree is clean; `git log -1 -- .projx` after such
a merge names the orphan commit; `git checkout -- f` restores from the index, so
discarding a file whose markers are already staged keeps them.

`Init` has scaffolded projects, projects from before default skips were
recorded, and repositories of the owner's own with and without colliding files.

Abstractions: one component directory; glob patterns are the set of paths they
match; the package manager is recorded or not; paths of a renamed component
(`buildPathFallbacks`) coincide. Projects with recorded features are outside the
model (see the plan). No template path is ignored by git, so a tree that equals HEAD
is what `git status` calls clean, and `git status` itself does not fail (`Clean`).
A merge that fails and its `git merge --abort` are one step (`Tier1Abort`): a process
that dies between them leaves a repository in the middle of a merge, with
`MERGE_HEAD` and unmerged index entries that `index` and `work` cannot express. The
next `update` then finds the markers and asks, or is refused for the unclean tree, as
`init` is. Commands are not run concurrently with each other or with
the owner's edits. `init` without detected components, which only writes a bare
`.projx`, is left out.

### RefreshRotation

One user; a refresh token is a row. `issued` and `expired` only grow, `rows` are
those not yet cleaned up, `sid`, `rotatedTo`, `revoked` and `replayed` are the
columns. A handler record holds what the code keeps in local variables across an
await: `presented` (`tokenRow`), `active` (`activeToken`), `to` and `flagged`
(the row last read), `attempt`, and the rows its revocation is about to lock.

| Source (`routes.ts` unless named) | Model |
|---|---|
| `issueAuthSession` (`session.ts`) | `Login` |
| request arrives, `jwt.verify` | `Start` |
| `findUnique` and the tests after it | `Lookup` |
| `resolveRotationGraceChild` | `GraceChild`, used by `Grace` and `Regrace` |
| rotation transaction | `Claim`, `Rotation` |
| lost claim, loop | `Reread`, `Regrace` |
| `revokeForReplay` | `RevokeForReplay` (statement starts), `CommitReplay` (transaction ends) |
| `/auth/logout`, `/auth/change-password`, `/auth/reset-password` | `Logout`, `ChangePassword`, `ResetPassword` start the `updateMany`, `Revoke` ends it |
| `cleanupAuthArtifacts` (`verification-jobs.ts`) | `Cleanup` |

The database is PostgreSQL at READ COMMITTED (Prisma's default; no isolation
level is set anywhere). An `updateMany` picks its rows from a snapshot taken when
it starts and rechecks only those when it gets their locks; it is two steps, and
a row inserted in between escapes. The rotation transaction locks its row with
its first statement and everything it writes afterwards depends on that row, so
it is one step. Revoked rows are kept 30 days and a token lives 7, so cleanup
deletes exactly expired rows; a child is signed after its parent with the same
lifetime, so parents expire first.

Left out: several users (rows of others are never selected); a user who is gone
(`freshUser` null; no code deletes users) and the lookup itself, which is folded
into the claim; a malformed or foreign JWT, which is refused without reading
anything; the password check before a change.

`SessionLifecycle` says what a client may rely on: a session is opened once with
a token nobody held, has one current token, a rotation replaces it by another
unheard-of one, and a closed session stays closed. In the refinement the current
token of a session is its unrevoked row.

`RefreshPorts` adds what the ports do differently. Flagging the replayed token
fails in Prisma when the row is gone and rolls the revocation back
(`CommitOrRollback`); the other ORMs update no row and commit (`CommitMatching`).
Seven ports rotate in one transaction; the Express port on Prisma claims, creates
and links in three statements (`ClaimRow`, `CreateChild`, `LinkChild`). Between the
first two the session has no unrevoked row, yet it is not closed: in the refinement
of the ports (`PortLifecycle`) the handler that claimed its row holds it, until the
child is there or the process dies.

### Ports as data

The auth feature and the entity routes exist eight times in nearly the same
words, about 1100 lines each. Most of it is the same sequence of reads and
writes, and where two ports differ the difference is which statement they use and
on which copy of the row they decide. So a port module gives each endpoint its
*program*, the sequence of steps between its awaits, and the modules that own the
tables give the steps their meaning:

    Prisma, Drizzle   login == <<"readUnlocked", "verifyPasswordReturning">> \o issueAuthSession
    Sequelize         login == <<"readUnlocked", "verifyPasswordSaved">> \o issueAuthSession
    TypeORM           login == <<"readUnlocked", "verifyPassword", "rereadForMfa">> \o issueAuthSession

Every step is one access to the database with the code around it, so requests
interleave exactly where the handlers await. A definition of a port module is
mapped to the handler it stands for; a step is mapped to one port that has it.
`Representatives` picks one port for each distinct behaviour, so that TLC does
not check two equal ports twice.

### AuthAccounts

| Source (`routes.ts` of a port) | Model |
|---|---|
| a `findUnique`/`findOne` and the refusals after it | `Read` and its seven instances |
| `/auth/signup`: look for the address, count, insert | `FindEmail`, `CountUsers`, `InsertUser` |
| `/auth/login`: hash, counter, lock, MFA gate | `VerifyPasswordReturning`, `VerifyPasswordSaved`, `VerifyPassword`, `RereadForMfa` |
| `/auth/mfa/verify-challenge`, `recordMfaFailure`, recovery codes | `VerifyFactor`, `MfaFailure` |
| enroll, confirm, disable, regenerate | `WriteSecret`, `EnableMfa`, `DisableMfa`, `RegenerateCodes` |
| change password | `ChangePassword` |
| forgot, reset, verify, resend | `MintReset`, `MintVerification`, `FindToken`, `RedeemOrRollback`, `RedeemMatching` |
| `issueAuthSession`, revocations | `OpenSession`, `SessionRows`; the effect on sessions is `RefreshRotation`'s |
| `cleanupAuthArtifacts` | `CleanupTokens` |

A row is written by naming columns (Prisma, Drizzle, TypeORM's `update`) or by
`save()`, which leaves out the columns that have not changed since the row was
loaded (Sequelize); `Written` says which. Passwords, secrets and code sets are
numbered in the order in which they are drawn, and a guess is the right number or
0. Clients are anyone who knows an address, holds an access token, a challenge or
a link; a link may be followed at any time and again. Locks and tokens expire at
any time and the server may stop between any two steps.

Left out: hashing, encryption and TOTP themselves; mail, which is lost or not;
deletion of accounts, which no endpoint does.

### EntityCrud

One table with two data columns. Each route reads, writes and logs in separate
statements, and the audit entry is made of what the handler remembers: the row an
`UPDATE` returned (Prisma, Drizzle), the instance in memory (Sequelize), or the
entity that `save()` compared with a row it loaded again (TypeORM: `LoadForSave`,
`SaveEntity`, which writes back a whole stale entity). Any statement may fail
(`StatementFails`); a lookup of the Prisma audit extension that fails is swallowed
and counts as no row (`LookupOld`, `LookupMatching`, `LookupNext`), and the write
goes on. A write of the trail that fails is logged and forgotten. `unlogged`
remembers what the trail lacks for such a reason: an entry that was not written, a
crash between a write and its entry, a swallowed lookup before a bulk deletion, and a
row that was created between the read and the `DELETE` of a deletion
(`Overtaken`). Scoping keeps any subset of the rows, because which one depends on
the hook. Soft deletion is the option `softEntity`.

| Source | Model |
|---|---|
| bodies of `POST /` and `POST /bulk` | `RequestCreate`, `RequestBulkCreate`; `BodyIds`: none in the Prisma ports, whose schema is strict, any in the others |
| `insert`, `create`, Drizzle's `returning` | `Insert`: generated ids are new; an id of the body that exists is a unique violation |
| Prisma `createMany` | `CreateMany`: one entry for the batch, with the data sent and an empty `record_id`; it counts as the entry of each of its rows |
| TypeORM `repo.save(entity)` of a body | `FindOlds` (step `loadBody`), `SaveBody`: inserts what is not there, updates the sent column of what is |
| `PATCH /:id` | `FindRow` or `SelectBefore`, `LookupOld`, `UpdateById`, `UpdateInstance`, `LoadForSave`, `SaveEntity` |
| `DELETE /:id` and `/bulk` | `DeleteById`, `Destroy`, `DeleteReturning`, `DeleteIds`; soft: `HideById`, `LookupNext`, `HideNext`, `Again` |
| `writeAudit`, `writeRows` | `AuditEach`, `AuditAll` |

Left out: a `PATCH` whose body carries another primary key, hooks of the entity's
author, and a write that takes effect although its answer is lost. The trail is a
set, so a second removal of a row with the same values is not told apart from the
first.

### ServiceConfigCache

One setting, numbered by version; a cache per process and a clock. `get` may be
overtaken between its read and the fill of the cache by a write and the
invalidation that follows it. `ConfigTick` lets time pass; a read waits at most
`MaxDelay` ticks before it fills. Ports whose operations another port offers with
the same steps are checked with that port.

### BrowserSession

One tab, from page load to navigation. `auth.ts` keeps tokens in memory and the
refresh token in `sessionStorage`; `ensureFreshToken` shares one `refreshPromise`
among all API calls; `api.ts` retries once after a 401. A flight is a refresh
under way, a caller an API call; when an answer arrives everybody who awaits it
runs before the next event. `strict` is React's StrictMode, which runs the effect
that resumes the session twice. The provider grants or refuses as it likes.

Left out: several tabs, which share nothing (`sessionStorage` is per tab); the
mobile client; the page's own handling of an error answer.

## 3. Runs

Bounds are named constants of the modules; the configurations give their values.

| Run | Instance | Shows |
|---|---|---|
| `update_merge` | one component file with two hunks, 3 releases, 5 operations | `update` and `init` commit no conflict markers; a line written since the baseline survives the per-file merge; only content HEAD has is overwritten, also across crashes and reruns; no command deletes a file |
| `update_pins` | a root file and a default-skipped manifest, 2 releases, 5 operations | a skipped file is not changed in any tier; default skips are added once; an `update` or `init` that reports success leaves a clean, marker-free tree at the new version |
| `rotation` | every way in which ports refresh; 4 tokens, 1 session, 2 refreshes, 1 bulk revocation, 2 attempts | one usable token; a twice superseded token is never served; in the seven transactional ports a replay verdict has a cause; every port implements `SessionLifecycle` |
| `refresh_live` | server: 3 tokens, 1 session, 2 refreshes, 1 bulk revocation, 3 attempts; browser: 2 flights, 2 calls, 4 tokens; fairness | the handlers implement `SessionLifecycle` and answer every refresh; a tab shares one refresh among its calls, finishes them, keeps the newest token, shows its page, and keeps nothing after a logout that no refresh overlapped |
| `backend` | every way in which ports do each part; accounts: 2 addresses, 2 requests, limits of 2; entities: 2 rows, 2 requests, 3 of them in all, patches of either column, bulk deletions of both rows, one row at the start; configuration: 2 processes, 2 calls, TTL of 2 ticks, delay of 1, 2 versions | accounts: types, an administrator, the exact number of guesses before a lock, locks hold, no password comes back, the second factor is asked for, a used link is refused; entities: the trail tells every value a row has had, its snapshots are real, each request changes what it may and only stale saves undo; configuration: staleness below TTL + delay, own writes seen |
| `lost_edits` | violation | see finding 1 |
| `static_pins` | violation | see finding 2 |
| `stale_files` | violation | see finding 3 |
| `init_overwrites` | violation | see finding 4 |
| `password_change` | violation | see finding 5 |
| `single_use` | violation | see finding 6 |
| `express_prisma` | violation | see finding 7 |

Parts that share no state share a run: in `backend` and `refresh_live` each
initial state lets one part run while the others rest in one state (`part`), so
the states add up and do not multiply. For the same reason the parts of `backend`
use the same model values for their requests and keys.

Why the bounds are enough.

- *Update*: five operations cover edit, commit, update, edit, update, and pin,
  commit, update, unpin, update, with a crash anywhere, since steps of a command
  and releases are not counted. Two hunks separate "the file was merged" from "one
  side won". Three releases give a template that moves twice.
- *Rotation*: four tokens give a chain in which a loser of two races stands at the
  attempt limit when that limit is 2; the code's constant is 3, and the theorems
  hold for every value (above 1 where the verdict is concerned). Two handlers race
  for a claim; one revoker suffices because revocations never read each other's
  result. `TokenLeft` starts a request only if every request in flight can still
  rotate, so no run stops for want of a token; it is a bound, not a guard.
- *Accounts*: the budget of 4 pays for two ordinary requests, or four wrong
  guesses, or one and two; a login, an MFA change, a link and its second use fit in
  it because the initial states already have an account with MFA off, begun or on,
  a challenge and a link. Two requests overlap at any step. With limit m and k
  requests in flight, choose(m - 1 + k, k) - 1 wrong guesses can be answered before
  a lock is set: each stale write puts the counter back to what its request read.
  `GuessBound` is that number, and it is reached: one less is violated.
- *Entities*: a run starts with one row and room for another. Three requests give
  read, write, write back over two rows, and removal and creation of one id; bulk
  forms take both rows. A creation sends a 1 in the first column, a patch (`Patches`)
  a 0 in it or a 1 in the second, so equal and separate columns meet. A bulk
  deletion (`Batches`) names both rows; scoping makes it smaller. The Express port on
  Prisma is the Fastify port without scoping and checked with it (`CrudPorts`).
- *Configuration*: two ticks of lifetime and one of delay tell "expired", "about
  to expire" and "filled late" apart; two versions are an old and a new value.
- *Browser*: two flights are the two effects of StrictMode, or a refresh of a
  page that leaves and one of the next; four tokens are a resumption and three
  rotations or logins.

Symmetry is used in the safety runs (tokens, handlers and sessions; requests and
addresses) and not in the runs with liveness. Deadlock is checked in the rotation
runs. Elsewhere it is off: an owner may stop working, clients may stop asking.

Fairness. Of the server: weak fairness of each handler's own steps and of each
bulk statement, since the event loop resumes every settled promise and the
database answers or the request fails. Of the browser: a fetch is answered or
fails. Nothing is assumed of the CLI, clients, owners, expiry, cleanup, navigation
or crashes.

### Findings

1. `lost_edits` — after a merge the baseline is HEAD, with the owner's lines in
   it (`baseline.ts:144`). At the next update a file the owner did not touch
   again equals that baseline and is overwritten by the template
   (`baseline.ts:327`). The repository's README, line 263, says additions are
   preserved; `NewEditsSurviveMerge`, which holds, is the part of this that is true.
2. `static_pins` — `copyStaticFiles` knows no skip list (`utils.ts:433`); README
   lines 270 and 279 say skipped files are not touched.
3. `stale_files` — a file missing from the baseline commit is skipped
   (`baseline.ts:314`) in a run that reports success; README line 249.
4. `init_overwrites` — adoption of a repository with colliding files ends in the
   direct copy (`baseline.ts:1408`); README line 223. The content is still in HEAD
   (`OnlyCommittedOverwritten`).
5. `password_change` — a rotation that commits while the `updateMany` of
   `/auth/change-password` waits for its row leaves a child the statement has not
   seen (`routes.ts:830`); README line 143. Logout, reset and the replay
   revocation have the same shape. `ImplementsLifecycle` shows the other half: a
   session once closed is never revived.
6. `single_use` — a recovery code is removed from the list the handler read before
   it verified the code, and the list is written back (`fastify/prisma`
   `routes.ts:380`). A slower request with another code puts back a code that was
   used meanwhile, and a later request is let in with it; README line 139 says
   "single-use consume". All eight ports write the list this way.
7. `express_prisma` — the Express port on Prisma rotates in three statements
   (`routes.ts:830`, `849`, `860`). A retry between them, or any after a crash
   between them, finds a revoked token without replacement and revokes the session
   as a replay, although the comment at line 782 says a lost-rotation retry is not
   a replay. README line 164 promises "one external contract"; `PortVerdicts` holds
   for the seven ports with a transaction.

Observations without a run.

- After a direct copy the prompt README line 264 describes is not shown, because
  tier 3 reports no conflicted files (`update.ts:273`).
- The hint `unpin <file> && update` (`update.ts:250`) is refused by the clean-tree
  check, since `unpin` modifies a tracked file.
- README line 274 lists default skips for root files; the list has no user any
  more and CHANGELOG line 172 says it was dropped on purpose.
- A resolved conflict is raised again by the next update, because only a run
  without conflicts moves the baseline.
- With three refreshes of one token in flight, the last may find the replacement
  used and be judged a replay; that is the rule `ReplayVerdictJustified` states.
- Two overlapping requests may both use one reset link (README line 141);
  `UsedLinkRefused` is about requests that arrive later.
- Confirming an enrollment twice, with a `disable` in between that finishes before
  the second write, leaves MFA on without a secret; such an account passes no MFA
  endpoint any more.
- TypeORM's `save()` of an entity read earlier undoes what others wrote in
  between, and may insert a deleted row again (`OnlyStaleSavesUndo` says how far this
  goes). Sequelize and TypeORM log the object in memory as the row after the change.
- In the addon ports a POST may carry an id. One that was deleted comes back; in
  TypeORM one that exists is updated, and logged as an insertion (`SaveBody`).
- A bulk deletion of the Prisma ports goes on without entries when the read before
  it fails (`plugins/prisma.ts:97`), and a row created between that read and the
  `DELETE` goes without one.
- A first registration that overlaps another may make two administrators.
- The Express routes on Drizzle (`auto-routes.ts:244`, `288`) and Sequelize (`182`,
  `220`) register `DELETE /:id` before `DELETE /bulk`, so a bulk deletion is taken
  for the deletion of the id "bulk" (step `noSuchRow`); README line 403 calls the
  ORMs equivalent.
- A refresh that answers after a logout saves its tokens, and the next page
  resumes from them (`late` in `LogoutSticks`).
- In a Next.js development build under StrictMode `AuthProvider` stops listening
  to the only `initAuth` there is, and the page stays empty (`Listens` in
  `PageShown`).

## 4. Proofs

**The template update**. `TemplateUpdateProofs` holds for any files, hunks,
releases, owner's lines and number of operations. It assumes that files of the
root and of the component are different paths, static files are root files and
default skips component files, a file has a hunk, an owner's line is no template
line (`ConstantsAssumption`), and `Absent` is neither a content nor a `.projx`
(`AbsentAssumption`).

What a step may overwrite or commit depends on what the command found out when it
began, which the owner, an earlier run or a crash has to have left true. `Inv`
says so in parts: what a process works on are paths of the template
(`RunShape`); a project without `.projx` has no baseline and no conflict markers,
which is why `init` need not look for them (`Unversioned`); while `update` or
`init` applies the template, `HEAD` and the index agree, no marker is committed,
paths still to come are as committed, and every file with markers is one the run
will report (`FromClean`); skipped paths the project has are not on the list of
paths to write and did not conflict (`SkipsHold`); defaults are due only where
they were not recorded (`DefaultsDue`). `FromClean` speaks of `update` and `init`
alone: `add --name` never looks at the tree, and the properties exclude it. With
types, a template free of markers and `SuccessLeavesCleanTree` itself, these are
inductive (`InvariantHolds`). The proof has a lemma per command step, and one for
each thing the owner may do. From `Inv` follow `TypeCorrect` and `SuccessIsClean`;
the action properties `NeverCommitsConflicts`, `PinsHold`, `MergeKeepsNewEdits`,
`OverwritesOnlyCommitted` and `DefaultsOnce` follow step by step: only the steps
of a run write template content, and each reads what `FromClean` or `SkipsHold`
says. `NeverDeletes` follows because paths to write are paths the template has and
a discarded file comes out of an index that has it.

**The rotation**. The theorems hold for arbitrary sets of tokens, sessions,
handlers and revokers and rest on one assumption of `RefreshRotation`: `None` is
no token and no session, and `MaxAttempts` is a positive natural.

`OneLiveTokenPerSession` is not inductive: a
rotation revokes one row and inserts another in the session of the *presented*
token, which keeps one usable row only if the claimed token belongs to that
session. `Inv` therefore adds `RequestOnOneSession` (a request in flight works on
issued tokens of one session) and `LinksWithinIssued` (only issued tokens have a
session, successor or predecessor) to `TypeOK` and the two properties. The proof
is split by what a step does to the table: a login starts a chain of its own, a
rotation replaces the usable row and lengthens the chain, every other step only
revokes or deletes. `TypeCorrect`, `OneLiveToken` and `OneChain` follow.

What a handler read before an await must still mean
something after it. `History` collects what never goes back: tokens stay issued,
revoked, flagged and expired, and `rotated_to`, once written, never changes.
`VerdictInv` says, for each handler, that what it read about a revoked row still
holds (`ReadsStayTrue`), that the token it claims is the presented one on the
first attempt or lies behind a replacement that is used up (`ClaimsAlongChain`),
that a superseded token never reaches a claim (`SupersededRefused`), and that a
verdict has a cause (`Justified`). The theorems `SupersededIsRefused` and
`ReplayIsJustified` assume `MaxAttempts > 1`: with a single attempt the loser of
a race would be judged a replay although the replacement is unused.

`Refinement`: by `Inv` the CHOOSE in `Current` picks the only live row. A login is
`Open`, a won claim is `Rotate`, and any other step is `Close` of the sessions whose
live row it revokes or deletes, possibly none.

These theorems, of `RefreshRotationProofs`, are about `RefreshRotation`, where a rotation is
a transaction and only a row that is there can be flagged. A port with a transaction
is no more than that: flagging a row that is gone is a bulk revocation
(`TransactionalPorts`), so its behaviours are behaviours of `Spec`, and
`PortVerdictsHold` follows from `ReplayIsJustified`.

For all eight ports there is in `RefreshPortsProofs` an invariant of their own, `PortsInv`. A handler between
its three statements is a state `Spec` does not have, in which the table breaks the
links `Inv` speaks of. So `PortsInv` says what such a handler knows
(`StagedClaims`): the row it claimed is revoked and has no successor, and after the
second statement the child is in its session and nobody else's. `OneLiveTokenPerSession`
alone is not inductive then, since the second statement inserts a live row without
revoking one; `OneHeldToken` counts a live row and a handler before its second
statement alike, and allows one of either per session. `Stopped` says that a token superseded
before its request arrived still has its revoked replacement, and that its handler never
gets to a claim or past the grace check; it needs no chain, which the split rotation may
leave in two pieces, and no second attempt. `PortSteps` sorts the
steps into those shared with `RefreshRotation`, the three statements and a crash,
and `HeldSteps` into those that open a session, replace what holds it, or only let go
of it; the second is the refinement (`PortsRefinement`). A crash between the
statements lets go: it is `Close`, which is finding 7 seen from the specification.

`RefreshesShorten` is the part of `RefreshAnswered` that needs no fairness: a number,
`PortStepsLeft`, that starts at or below `3 * MaxAttempts + 4`, which every step of a
handler lowers and no other step raises. That the handler takes those steps is fairness, and
TLC's.

**The accounts**. `AuthAccountsProofs` holds for any set of ports, addresses,
requests and code slots and any limits. What it assumes of the programs is
`ProgramsAssumption`, which TLC evaluates on one port for each distinct set of
programs, so that every program of the eight is seen: a program is not empty;
steps that act on a row belong to endpoints that begin with a read; an insertion comes right after a count, a redemption right after the look at the
token, a login's session right after an MFA gate. So a port whose login opened
the session before the gate would fail the assumption, not the theorem.

The properties are not inductive, since each is about what a request decided
earlier. `Sound` says, for each request in flight, where it stands in its program
(`Placed`), that the link it came with is in the table and, if the request came
late, still consumed (`Linked`), that the row it read was a registered account's
and that MFA which was on at its start is on now and was on in the row it read
(`Informed`), and what it found out before it reaches an insertion, a session or a
redemption (`Entitled`). `AccountsInv` adds the types, `SomeAdmin`, and that only
rows have MFA. The proof is split along what a step does to the tables: `Grows`
(rows only appear, roles do not change, consumed tokens stay consumed) and
`Armed` (MFA stays on) keep every other request sound (`OthersSound`), `Learnt`
keeps the one that goes on (`Proceeded`), and `RowWritten` shows that any write of
named columns, be it all of them or those that differ, does no more. Switching
MFA off is the one step that is not `Armed`; it disarms the other requests of the
account. `AccountsTyped`, `AdminExists`, `FactorIsRequired` and
`UsedLinkIsRefused` follow.

`LocksAreKept` and `PasswordsAdvance` rest on `LockInv`, which adds that no row has
a password beyond the last one drawn and that only rows are locked (a registration
writes a fresh row, which must not count as an unlock). `Handled` says what a
handler's step may do to a row; since a patch names its columns, it has to be shown
only which patches name a lock or the password, and what they write there.

`GuessCountProofs` assumes finitely many requests besides. `GuessesBounded` says how
long requests that count from what they read, and so put the count in the row back,
can go on before one of them locks the account, and needs a quantity that no
interleaving brings down. A request's level (`Levels`) is the count it goes by: the
one it read, or, while it has read none, the one in the row. The `Profile` of an
account tells, for each `i` below the limit, how many requests are on a level below
`i`, and its `Rank` is the number of profiles that come before it in the order that
looks at the low counts first. Reading, replying, a new request and a crash lower no
level (`Follows`, `LevelsKept`), so the rank stays or rises (`RankKept`). A wrong guess
that sets no lock writes a count `n` and may lower other requests to it, but it takes one
request from below `n` for good, and the rank rises by one at least (`RankGrows`).
`GuessInv` is that an account has answered no more guesses than its rank, and
`GuessesAreBounded` follows since profiles are weakly rising functions from `m - 1`
places to `0..k`, of which there are choose(m - 1 + k, k) (`RisingCount`). The prover
has no rule for induction over naturals with an operator as parameter; `SetInduction`
has the set of the numbers for which the claim holds instead, and follows from the fact
that an injection of a finite set into itself is onto.

**The configuration cache**. `ServiceConfigCacheProofs` holds for any number of
processes, calls, versions and ticks. `ConfigProgramsAssumption`, which TLC
evaluates on every distinct program of the ports, says that only the program
`cached`, `readRow`, `fill` carries a value to the cache and that `findOrCreate` has two steps after it.
`ServedValueRecent` bounds the age of what a cache holds, but an entry gets its age
from the call that filled it, so `CacheInv` bounds the age of what calls carry as
well. Its parts: the row has the last value drawn or is gone, and nothing written
or carried is newer (`Numbered`); a call stands at a step of its program (`Busy`);
what a call carries is at most as stale as the call has waited, which is at most
`MaxDelay`, and if it is older than the process's own write it is marked as raced
(`Carried`); the age of an entry and the ticks it has left add up to at most
`CacheTTL + MaxDelay` (`Held`), a sum that a tick does not change.
`StalenessBounded` and `OwnWritesAreSeen` follow.

**The entity routes**. `EntityCrudProofs` holds for any number of rows, requests and
writes, any bodies and any failures. Of the requests it assumes their types
(`EntityRequestsAssumption`), of the programs `EntityProgramsAssumption`, which TLC
evaluates on all eight ports in `backend` (`EveryPortAssumption`): a route has the
steps of its kind, a write is followed at once by its entry, and a step that uses what
was read comes right after that read.

`TrailCoversTable` is about rows of which nobody owes an entry, so it is not
inductive: between a write and its entry the trail lacks one. `EntityInv` counts the
entries requests still owe with those in the table (`Entries`): together they tell
every value a row has had (`Covered`), each gives values its row had (`Real`), and the
history these two refer to has the row's present value (`Rows`). A request in flight
stands in its program (`Placed`) and works on a row it names (`Aimed`); what it has
read is a value the row had (`Recalls`), also where the read was swallowed and it has
read nothing; and before its next step it owes no entry unless that step writes it
(`Due`). The part that makes deletions go through is `Prepared`: at its `DELETE` a
request has read every row it is about to delete, except rows in `unlogged`, which is
where a failed lookup and an insertion that overtakes it (`Overtaken`) have put theirs.

The proof is split by what a step does. History only grows, which keeps the other
requests' part (`OthersOK`); reads and failed statements change one request and no row
(`ReadKeeps`, `FailureKeeps`); a write changes rows and leaves the entries it owes
(`WriteKeeps`), by a lemma for each kind of write, `SaveBodyKeeps` for a body that
updates some rows and inserts others; an audit step moves an entry from the request to
the table or, if it fails, its ids to `unlogged` (`AuditsKeep`); an arrival or a crash
keeps all of it. `EntitiesTypeCorrect`, `TrailComplete` and `SnapshotsReal` follow.
`OnlyStaleSaves` goes through the writes once more with what each may change of a row;
for a `save()` the columns that differ were found a step before, so what it changes
beyond the column it was sent is exactly what somebody wrote in between.

**The browser session**. `BrowserSessionProofs` holds for any number of flights,
calls and tokens. `BrowserAssumption` asks for at least two flights, finitely
many, none of them called `"none"`. `NewestTokenKept` speaks of a moment with no
answer on its way; what makes it inductive is that two refreshes are never under
way (`OneAtATime`), which needs the shared promise to be exactly the refresh of
`ensureFreshToken` that is airborne (`OneLock`) and the refresh of `initAuth` to be
over when the page is shown (`Quiet` and the first conjuncts of `OneAtATime`).
`LoggedOut` strengthens `LogoutSticks` by saying that nothing is airborne that
could bring tokens back. With `strict` effects run twice and `OneAtATime` claims
nothing. `KeepsNewestToken`, `SendsFreshToken` and `LogoutHolds` follow.

The safety half of `CallsFinish` rests on `EveryCallAwaits`: a call that waits names a
refresh under way, and no other call names one. `CallLeft` counts the
answers a call may still have to wait for, its own and those of the refresh it is
waiting for. `CallsShorten` says that no step, of any call, refresh or page, raises it
before the call is over, and that each answer the call waits for lowers it; it is
never above 6. In the same way `PageAwaitsAnswer` says that a page that resumes a
session and listens to the answer has one to come, and that the first one ends the
wait (`PageShown`). What is left to TLC is that the answers come.

Only model-checked: the liveness properties (`RefreshAnswered`, `CallsFinish`,
`PageShown`), which are beyond this prover, and that the bound of
`GuessesBounded` is reached. Of each liveness property a theorem has the part that
needs no fairness (`RefreshesShorten`, `CallsShorten`, `PageAwaitsAnswer`): a step that is due brings the end nearer and no other step puts
it off. That the step is enabled, and therefore taken, is what TLC checks.

## 5. Plan

1. `FeatureApply`: anchored patches and JSON merges, re-applied after the merge,
   with failure midway; composed with `TemplateUpdate` through the state of the
   tree after `SaveBaseline`.
2. The auth ports to FastAPI, Go, Laravel and Rust as further port modules. They
   use other transaction scopes and row locks, so new steps will be needed.

## 6. Not modelled

`diff`, `detect` and `list` only read. `gen`, `sync`, the generators and the
prompts are sequential text processing, left to their unit tests; the feature
engine's patches are text too, and what a failure midway leaves is listed as a
hazard. The other ports of the auth feature repeat the protocol modelled here, but
each needs its own comparison, its isolation level in particular. The admin panel
keeps its state in a cookie and one table. The remaining templates have no
protocol beyond one statement per request, and the infrastructure none at all.

## 7. Running the checks

    tlc -workers 2 -config rotation.cfg MCRefreshPorts
    tlc -workers 2 -config backend.cfg MCBackend
    tlc -workers 2 -config refresh_live.cfg MCLive
    tlc -workers 2 -config update_merge.cfg MCTemplateUpdate
    for m in *Proofs.tla; do tlapm $m; done

`PROJECT.json` names the module, the configuration and the expected result of
each run.

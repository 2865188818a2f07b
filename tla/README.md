# SLC Central Admin: TLA+ verification

Specifications, model-checking configurations and machine-checked proofs for
SLC Central Admin: its API (`apps/api`), its web client (`apps/web`), its
database seed (`prisma`) and its scripts. Each module is a translation of the
TypeScript it names; paths below are relative to the repository, and the file
`PROJECT.json` gives the source lines of every definition.

    tlc -workers 2 -config Admin.cfg AdminAccessMC.tla     # a run
    tlapm AdminAccessProofs.tla                            # the proofs

## 1. The system

SLC Central Admin is a web console and an Express/Prisma API that manage the
administrators of a family of applications, the *integrations* through which
those applications are reached, and some records of the applications
themselves. The API runs as one Node.js process over PostgreSQL. There are no
threads: two requests interleave exactly at their `await`s, that is at every
database call, password hash and outbound call, and nowhere else. Almost no
handler wraps its reads and writes in a transaction, so what a request has read
may be stale when it writes. A restart loses the requests in progress and
everything in memory (circuit breakers, token caches, the cached discovery) and
keeps the database. In the browser the same holds between a request and its
answer, with several tabs over one set of cookies.

| Component | Source (under `apps/api/src` unless it says otherwise) | State | Operations |
|---|---|---|---|
| Password sign-in, sessions | `modules/auth/{auth,session}.service.ts`, `middleware/` | `AdminUser`, `AdminSession` rows, cookies | login, logout, change password, resolve a session, revoke all sessions |
| Admin users | `modules/admin-users/` | `AdminUser`, `AdminUserRole` rows | create, set status, set roles, with a last-SUPER_ADMIN guard |
| Bootstrap | `scripts/bootstrap-admin.ts` | the same rows | create the first SUPER_ADMIN |
| MFA | `lib/totp.ts`, `scripts/mfa-enroll.ts`, login | `mfaSecret`, `mfaLastUsedStep` | enrol, verify a code |
| Single sign-on | `modules/auth/oidc/` | `AdminUser.ssoSubject`, roles, `AdminSession.idpSessionId`, transaction cookie, cached discovery | redirect, callback, sign in and sync, back-channel logout |
| Retry, timeout, circuit breaker | `integration/policies.ts` | in memory, one breaker per integration | `withTimeout`, `withRetry`, `CircuitBreaker.exec` |
| Integrations | `integration/integration.service.ts` | `ApplicationIntegration`, `CredentialReference` rows | configure, test the connection |
| Outbound HTTP | `integration/http/`, `integration/ssrf.ts` | none between requests | redirect hops, address policy, pinning, timer |
| Stock Management adapter | `integration/adapter/stock-management/` | cached token, login in flight | read with one re-login |
| Identity | `modules/identity/` | Keycloak (external), cached token | invite, set roles, enable/disable, sign out everywhere |
| Firebase bridge | `modules/bridge/` | Firebase (external) | exchange, sweep, back-channel logout |
| Field applications | `modules/apps/` | Firestore, Supabase (external) | review, publish, cancel, delete, verify, disable; lists |
| Application registry | `modules/applications/` | `Application` rows | create, update, list |
| Audit log | `modules/audit/` | `AuditLog` rows | best-effort append, list |
| Seed | `prisma/seed.ts`, `seedApplications.ts` | roles, permissions, registry rows | reconcile at every deployment |
| Configuration | `config/env.ts` | the process's settings | accept or refuse an environment |
| Web client | `apps/web/src` | status and user per tab, drafts, lists | sign in and out, pages, forms, the access panel |
| Live check | `scripts/keycloak-live-check.ts` | a throw-away administrator in Keycloak | one pass of checks and the clean-up |

How they interact. Everything meets in the database rows: password login, SSO
and bootstrap create the same accounts and sessions, and the administration of
users revokes them. Every request passes `requireAuth`, which takes a snapshot
of the caller's status and roles; the guards of the rest of the request use
that snapshot. `testConnection` calls an adapter through
`breaker.exec(withRetry(withTimeout(...)))`, and the adapter sends every
request through `SafeHttpClient`. The identity provider calls the API
(back-channel logout) independently of the browser that is signing in. The web
client shows what it was told at its start, and the API decides by what it
finds in the rows now.

What is hard here, and hardly reached by the unit tests (which run one request
at a time over mocks):

* two requests that both pass a check before either writes (the
  last-SUPER_ADMIN guard, the last used TOTP step, the link of an account, a
  unique key, the status of a certificate);
* a revocation (disable, change of password, logout) that runs while a sign-in
  is between its check and its `createSession`;
* the two statements of "change, then revoke", "delete, then delete the file",
  "write, then log", when the second never runs;
* verdicts of overlapping calls that reach the breaker after its state has
  changed; retries within one call, which the breaker does not see;
* a token that is cached, shared, refused and renewed by several callers;
* timers that are cleared too early, or that abort only part of what runs;
* a status (`TESTING`) written before a long call and depended on after it,
  over restarts and failing database calls;
* configuration written over a test that finished meanwhile; a form or a panel
  that saves everything it once loaded;
* answers that reach the browser in another order than they were asked for;
* tables that are kept in several places (routes, pages, links, buttons) and
  rules that are written one by one (start-up settings).

`PROJECT.json` lists the hazards line by line with the property that covers
each; section 8 names those that none does.

What makes each component correct:

* sessions: after a revocation no session of the account is left; a lost or
  failing revocation is the only exception;
* admin users: somebody can always administer the system;
* MFA: a code opens one session;
* identity: an enabled SUPER_ADMIN remains, and a removal of access reaches the
  sessions;
* SSO: the account keeps its person, carries the roles of the token, and loses
  its sessions on logout or disable; a lone sign-in succeeds and a failed
  discovery is not for ever;
* breaker: CLOSED, OPEN and HALF_OPEN mean what they say under any
  overlap, no state is a trap, and a call makes no more attempts than its retries
  allow;
* integrations: `TESTING` is a test in progress, `CONNECTED` was verified, a
  disabled integration makes no call, the credential references are those of
  the last request;
* outbound: only public addresses are connected to, a read re-authenticates
  once, a call ends unless its answer is cut;
* bridge: roles stay within their application, a sign-out reaches every one;
* field applications: the log tells what the record says, a certificate is
  cancelled once, side state follows the record;
* registry and seed: a save changes what was edited, a seeded role has exactly
  its permissions;
* configuration: an accepted environment lets somebody in, and a deployment
  nobody else;
* web client: the status shown is true, a list shows what was asked for, a
  panel saves what is ticked, no button offered is refused.


## 2. Modules

| Module | Models | Used by |
|---|---|---|
| `AdminAccess` | accounts, roles, passwords, sessions, and the requests over them | `AdminAccessMC`, `AdminAccessProofs` |
| `MfaLogin` | the code check of login and the enrolment script | `MfaLoginMC`, `MfaLoginProofs` |
| `SsoLogin` | `completeSsoLogin`, `syncRoles`, `applyBackchannelLogout` and the other writers of the same rows | `SsoLoginMC`, `SsoLoginProofs` |
| `IdentityRoles` | people, roles and requests of `identity.service.ts`, and the Central Admin sessions | `IdentityRolesMC`, `IdentityRolesProofs` |
| `ResilientCall` | breaker, retries and timeout around one adapter | `ResilientCallMC`, `OutboundMC`, `IntegrationTest`, `IntegrationProofs` |
| `BreakerContract` | the abstract breaker that the comment of `CircuitBreaker` promises | `ResilientCall` (refinement) |
| `IntegrationTest` | configure and test of one integration; EXTENDS `ResilientCall` | `IntegrationTestMC`, `IntegrationProofs` |
| `Ssrf`, `SafeHttp` | the address tests; one request over its redirect hops | `StockRead` |
| `StockRead` | the Stock Management adapter's reads and their auth providers; EXTENDS `SafeHttp` | `OutboundMC`, `OutboundProofs` |
| `KeycloakClient` | `kcRequest` and its cached token | `OutboundMC`, `OutboundProofs` |
| `ReadContract` | the abstract reading: two credentials at most, the second after a refusal | `StockRead`, `KeycloakClient` (refinement) |
| `OidcFlow` | redirect, callback, transaction cookie, cached discovery | `OutboundMC`, `OutboundProofs` |
| `FirebaseBridge` | exchange, sweep and back-channel logout | `OutboundMC`, `OutboundProofs` |
| `WebSession` | the tabs' sign-in state, the two cookies, and the sessions behind them | `PortalMC`, `PortalProofs` |
| `AccessPanel` | the access page: list, panel, draft, save | `PortalMC`, `PortalProofs` |
| `ListPage` | filter, loads and actions of a list page | `PortalMC`, `PortalProofs` |
| `Paging` | offset and cursor paging of the list endpoints | `PortalMC`, `PortalProofs` |
| `FieldRecord`, `Pasunestam`, `JeevaMitra`, `NearSip` | a record of a field application: the common request, then each application's operations | `RecordsMC`, `RecordsProofs` |
| `UniqueRow` | racing creations under a unique key | `RecordsMC`, `RecordsProofs` |
| `Registry` | the registry row, the forms that edit it, the reseed | `RecordsMC`, `RecordsProofs` |
| `RoleSeed` | the seed of roles and permissions | `RecordsMC`, `RecordsProofs` |
| `CredentialRefs` | the references that `configureIntegration` stores | `RecordsMC`, `RecordsProofs` |
| `Config` | `loadConfig` over every environment its rules tell apart | `RecordsMC`, `RecordsProofs` |
| `PageAccess` | routes, pages, links, tabs, loads and buttons against the roles | `RecordsMC`, `RecordsProofs` |
| `LiveCheck` | the live-check script | `RecordsMC`, `RecordsProofs` |

The `...MC` modules hold the small sets that the configurations need, and the
`...Proofs` modules the theorems. `OutboundMC`, `PortalMC` and `RecordsMC` put
several components into one instance: `focus` is chosen at the start and only
that component moves, so the graph is the sum of theirs.

The common form. A request is a process with a record: its `pc` (the next
database call) and what it has read so far. **One action is one database or
outbound call together with the synchronous code that follows it**; a handler
without an interleaving point in it is one action. A request that ends, by an
answer, an error or a restart, returns to `Idle`, so a small set of request
names stands for any number of requests over time; it bounds only how many are
in progress together. `Fail`/`Die`/`Breaks` let any call reject at any step:
what was written stays, what was not is lost, which also is what a crash between
two steps leaves. Some state is *history* (named so where it is declared): it
changes nothing and lets an invariant name an exception precisely.

### `AdminAccess`

State: `status`, `roles`, `password` (per account), `session` (per token),
`req` (per request); `overlapped` is history. `Init` is any database that
earlier requests may have left: some active SUPER_ADMIN, anything else in any
status, no session.

| Code | Actions |
|---|---|
| `login` | `LoginVerify` (row read, argon2), `LoginCreateSession` |
| `resolveSession`, `requireAuth` | `ResolveSession`, then `AuthDisabled` + `Kick`, or one of the `Auth...` actions, which is the handler's synchronous start on the snapshot; `SessionExpires` |
| `logout`, `changePassword` | `AuthLogout`, `Logout`; `AuthChangePassword`, `PasswordVerify`, `PasswordWrite`, `PasswordRevoke` |
| `assertNotLastSuperAdmin` | `GuardReadTarget`, `GuardCountOthers` |
| `setAdminUserStatus`, `setAdminUserRoles`, `createAdminUser` | `AuthSetStatus`, `WriteStatus`, `DisableRevoke`; `AuthSetRoles`, `WriteRoles`; `AuthCreate`, `CreateInsert` |
| `bootstrap-admin.ts` | `BootstrapCount`, `BootstrapInsert` |

The permission table is reduced to the two permissions these guards ask for;
the other roles are one role, since nothing here tells them apart. The role
transaction of `setAdminUserRoles` is one action here; `SsoLogin` takes the
other one, of `syncRoles`, apart.

### `MfaLogin`

One account; `now` is the clock in steps of 30 s, a code is a secret with a
step. `Read` is the `findUnique` at the start of login, `Verify` is
`verifyTotp` after the password hash (window of one step either side, strictly
after the last used step *as read*), `Mark` the update of `mfaLastUsedStep`,
`Open` the session. `Enroll` is the script: a new secret and the step of the
code that confirmed it. Two steps whose HMACs agree are ignored.

### `SsoLogin`

State: `account` (status, e-mail, subject), `roles`, `session` (with the
provider session), `login` (per sign-in), `logout` and `revoking` (revocations
that have read or written but not yet deleted); `ended` and `lost` (which
account a person has lost to another one) are history. One action
per call of `completeSsoLogin`: `Exchange`, `FindBySubject`, `FindByEmail`,
`Link` or `Create`, `ReadRoles`, `DeleteRoles` + `InsertRoles`, `FindClash`,
`UpdateProfile`, `CreateSession`. The provider may issue any claims, except a
token of a session it has ended. Unique columns make `Link`, `Create`,
`UpdateProfile` and `InsertRoles` impossible when their value is taken; the
sign-in then only has `Fail`. PostgreSQL runs the role transaction at READ
COMMITTED: `deleteMany` deletes the rows it sees (`doomed`), and rows committed
since by another transaction stay. The other writers of the rows are
`CreateLocal`, `AssignRoles`, `Disable` + `RevokeAll`/`RevokeFails`, `Enable`,
`EndSession`.

### `IdentityRoles`

State: `user`, `granted` and `group` are the rows of the identity provider,
`stored` and `session` those of Central Admin, `login` a token on its way to
becoming a session, `req` a request; `overlapped` and `missed` are history.

| Code | Actions |
|---|---|
| `setUserAppRoles` | `SetRoles` (`getUser`), `GuardRoles` (`superAdminIds`), then `applyAppRoles`, then `Sweep` if something was removed |
| `applyAppRoles` | per application, in any order: `ReadRoles`, `AddRoles`, `DropRoles` |
| `inviteUser` | `Invite`, then `applyAppRoles` |
| `setUserEnabled` | `Enable`, or `GuardDisable`, `Disable`, `LogoutElsewhere`, `Sweep` |
| `signOutUserEverywhere` | `SignOut`, `LogoutElsewhere`, `Sweep` |
| any call that rejects, a restart | `Fail` |
| `completeSsoLogin`, in brief | `IssueToken`, `SignIn`, `Abandon` |

`superAdminIds` is several requests of the provider that together are one read
here; so are `findUnique` and `revokeAllSessions` in `Sweep`, where the first
reads an id that does not change. The person's groups do not change. The actor
is not modelled: `requireSystemManage` refuses nobody who passed the route's
guard, since the role table gives `admin_users.manage` only together with
`system.manage`, and a break-glass administrator has no subject, so
`SELF_DISABLE` cannot be counted on. What administrators do in the provider's own
console, the repetition of a call after a 401, and the back-channel logout that
the provider sends when it ends a session (a session may end at any time,
`EndSession`) are left out.

### `ResilientCall` and `BreakerContract`

`state`, `failures`, `age` are the breaker's fields; `call[c]` is where caller
`c` stands in `exec`. Time exists only as `now() - openedAt` compared with
`resetTimeoutMs`, so `age` counts up to `ResetTimeout` and stays; `failures`
likewise stays at the threshold. Neither cap loses a behaviour. `Start` and
`ShortCircuit` are the synchronous start of `exec`; `Succeed`, `Backoff`,
`GiveUp` are the ways an attempt settles (`withTimeout` turns a rejection after
the timer into TIMEOUT, and returns a late value); `NextAttempt` ends the sleep.
`Hang` is the attempt that never settles: `withTimeout` awaits the task itself,
the stock adapter does not pass the signal on, and a cut response neither
resolves nor rejects. Only a restart ends it.

`BreakerContract` has only `state` and `age`, and four steps: trip, wait, try,
recover. `KeepsContract` states that `ResilientCall` with one
caller implements it, which is proved (section 5). With two callers it does not:
see `breaker_two_trials`.

### `IntegrationTest`

`row` is the `ApplicationIntegration` row, `req[c]` the request that is also
caller `c` of the breaker. `ConfigureRead`/`ConfigureUpsert` are
`configureIntegration`; `TestRead`, `SetTesting`, `Resolve`/`ResolveFails`,
`Exec`, `Progress` (the steps of `ResilientCall`), `Verdict`, `WriteConnected`,
`Answer`, `CatchError`, `Fail` are `testConnection` with its try block and its
`fail` helper. `Restart` clears requests and breaker and keeps the row. Whether
the row's environment is the server's (`row.local`) is chosen once. Adapter
types are `none` (null), `mock` (registered) and `http` (a type without
adapter).

### `Ssrf`, `SafeHttp`, `StockRead`, `ReadContract`

`Ssrf` translates `isBlockedIp` and what it calls onto octets and hextets; an
address is a record, not a string. `http[c]` is the request of a caller: the
hop it is at, the address it is pinned to, whether the timer has fired.
`PinDestination`/`ResolveRejects` is the host list, the resolution and the test
of *every* answer; `AbortTransport` ends a transport after `Timer` has fired,
and a resolution in progress goes on, as in the code; `Redirect` starts the next
hop. `Cut` is a body that stops: the promise of `nodePinnedTransport` has no
handler for it and never settles.

`StockRead` adds `provider[p]` (token, login in flight) and `read[r]`. `Attempt`
asks the provider for a token, which may join the login in flight; `Renew` is
the 401 branch with `onUnauthorized`; `Finish` presents the answer. `Shared`
says whether the reads have one provider; as the factory makes one per adapter
call today, FALSE is the code as it is wired and TRUE, the harder case, what
`auth.ts` is written for. `RereadsAreBounded` says that each read implements
`ReadContract` (refinement by INSTANCE).

### `KeycloakClient`

`cachedToken` and per request `kc[r]`: `SendAuthorized` uses or fetches the
token, `Perform`/`Refused` is what Keycloak does with it, `Refresh` the single
repetition after a 401, `BodyRead` the answer, `Unreachable` a timer or network
error with or without an effect on the other side. `UpstreamAnswer` is the
mapping that keeps the provider's 401 from becoming ours. `ResendIsBounded` is
the second use of `ReadContract`.

### `OidcFlow`, `FirebaseBridge`

`OidcFlow` has the tabs of one browser and their one transaction cookie, which
`Redirected` sets and the callback clears, and the discovery promise that all
sign-ins share (`Awaited`, `DiscoverySucceeds`, `DiscoveryFails`), with restarts
and a provider that goes up and down. `FirebaseBridge` is one person: the
tokens Keycloak has issued, the custom token of each exchange, the Firebase
session of each application, and a sweep that visits the applications one by
one and goes on after a failure.

### `WebSession`, `AccessPanel`, `ListPage`, `Paging`

`WebSession`: `jar` (session cookie, CSRF cookie), `live` sessions, and per tab
`ui` (the context's status) and two calls, the mount's `me()` and the pressed
button. A call takes the cookies when it is sent (`Sends`), is served at some
time (`LoginServed`, `LogoutServed`, `SessionServed`) and arrives at another
(`Arrive`, `Lose`); its cookies are those of the answer. `doubt` and `left` are
history.

`AccessPanel`: the row of one person, what the provider has granted, the open
panel with its ticks and its draft, and the page's loads, action and save in
flight. The search form stays usable while the list loads, so loads overlap: the
first to end shows the list, and the error of one outlasts the success of
another (`view`). `OtherSaves` is another administrator. `ListPage`: what the
controls say, what is shown, the loads in flight and one action, each load with
the filter it was asked with. An action may begin while the page loads, as the
form of NearSip's places allows. `Paging` is the endpoints' `skip/take` with a separate
count, and the cursor of the Firestore lists, over rows that are created,
deleted and moved between the pages; the pages of the client use the first page
of the cursor lists only, so the cursor half is about the API.

### `FieldRecord`, `Pasunestam`, `JeevaMitra`, `NearSip`

One record `doc` (its status and the state kept beside it: the file of a form,
the sessions of an account, the profile of a vet), requests `work[w]`, the
`trail` (what the log, or the application itself, said last) and `past`, which
counts every write of `cancelled`, whatever status stood there. A
request runs `Enter` (middleware and validation), the store's calls one by one,
and `Audit`. `kind` chooses the record: a case, certificate, template, scheme
or vet of Pasunestam; a vet, account or alert of JeevaMitra; a place, review or
user of NearSip. `FieldSpec` (in
`NearSip`, which extends the other two) is any of them.
`AppWrites`, `PnApp`, ... are the applications' own writes,
which are external and modelled as far as the stores rely on them.

### `UniqueRow`, `Registry`, `RoleSeed`, `CredentialRefs`

`UniqueRow` is the shape that `createAdminUser`, `createApplication` and the
account creation of `completeSsoLogin` share: look up, then insert under a
unique index (`Loses` is the index's refusal, which the error handler answers).
`Registry` is one row with its fields, the forms open on it, and `Seed`.
`RoleSeed` is the script statement by statement for one or more runs at a time.
`CredentialRefs` is the delete-then-upsert loop of `configureIntegration`.

### `Config`, `PageAccess`, `LiveCheck`

`Config` enumerates the settings that some rule of `loadConfig` looks at,
reduced to what the rules tell apart; `Boot` starts the service with any of
them. An address is http, https, or http in another spelling (`HTTP://`), which
the two rules that look for the prefix `http:` let pass. `PageAccess` holds the permission table, the guards of every route, the
pages, links, tabs, loads and buttons, for every combination of roles, with the
roles the browser was told apart from those now held. `LiveCheck` follows
`main()` of the script: each check may fail, which it records; each call between
the checks may throw, which ends the script.

## 3. Runs

| Run | Instance | Shows |
|---|---|---|
| `admin` | 2 accounts, 2 role classes, 2 passwords, 2 tokens, 2 requests | `LastSuperAdminSurvives`, `RevocationIsComplete`, `LockoutIsPermanent` |
| `admin_last_super` | 2 accounts, one role | two overlapping removals leave no SUPER_ADMIN |
| `mfa_safety` | 2 logins, 2 secrets, clock to 3 | a code works once, unless writers met |
| `mfa_code_reuse` | the same | two logins in progress accept one code |
| `sso` | 2 people and 2 sessions with 1 account, 1 e-mail and 1 role; 1 person and 1 session with 2 e-mails and 2 accounts, or 2 roles; 2 sign-ins | `LinkIsForLife`, `RolesFollowToken`, `SessionsAreEnded` |
| `identity` | 2 people with SUPER_ADMIN only and 2 requests; a role in each of 2 applications and 1 request; 1 sign-in, 1 session | `SuperAdminRemains`, `AccessIsCurrent` |
| `breaker_two_trials` | 2 calls | two calls pass HALF_OPEN |
| `integration` | 2 requests, threshold 1, reset 1, one retry | `StatusIsEarned`, `DisabledIsQuiet`, `TestingEnds` |
| `outbound` | 2 calls through a breaker, threshold 2, reset 2, one retry; 2 readers, 1 redirect, 1 shared provider, 2 reads, every boundary address; 2 Keycloak requests, 3 tokens; 2 tabs, 4 transactions, 1 restart; 2 Firebase applications | `TypeOK` (the retry budget), `StateIsEarned`, `BecomesReady`, `CallsReturn`, `ContactedIsPublic`, `RetriesAreBounded`, `AnswerIsTrue`, `OutboundCallsEnd`, `LoneSignInSucceeds`, `SignInRecovers`, `SignOutIsTrue` |
| `portal` | 2 tabs, 2 sessions; 2 roles, 2 loads, 2 requests in flight; 2 filters, 2 loads; 3 rows, pages of one | `StatusIsTrue`, `SessionIsHeld`, `PanelIsTrue`, `UntouchedRolesStay`, `ShownIsAsked`, `PagesAreExact` |
| `records` | 3 requests on a record of each kind; 3 creators, 2 people; 2 forms, 2 texts, 2 fields; 2 seed runs, 2 permissions, 2 roles; 2 configurations, 2 references; every environment, every set of roles | `TrailIsTrue`, `SideFollowsRecord`, `CreatedOnce`, `UneditedFieldStays`, `RolesAreSeeded`, `RefsAreAsListed`, `SignInIsSound`, `TablesAgree`, `EndingIsTrue` |
| `config_http_spelled` | every environment | a deployment that talks to its provider over plain http |

`portal` and `records` also check the types of all their components
(`PortalTypeOK`, `RecordsTypeOK`). These, the types of the outbound components
(`OutboundTypes`) and those of the other modules are theorems.

Why these bounds are enough for what is asked. The races are between a reader
and one later writer, so two requests exhibit them; the second account is the
other SUPER_ADMIN, the second password the old one, the second token the
session that a revocation might miss. In `SsoLogin` the two questions need
different worlds: who owns an account needs two people for one account, which
account a person ends up on needs two accounts for one person, with an e-mail
each, and with which roles two of them. What these worlds leave out (a third
sign-in, two people with two e-mails) is inside the theorems of
`SsoLoginProofs`. `IdentityRoles` is split likewise: the guard's races need two requests
and one role, the loop over applications two applications and one request that
may stop anywhere. The constraint `Focus` of these two runs is the union of the
worlds, each of them exhaustive.

In `mfa_safety` the clock passes three steps, so a code is tried before, in and
after its window, and the second secret is a reset. `integration` takes threshold and reset 1,
since the breaker's own counting is a subject of `outbound`; a failure, an
OPEN breaker, a trial and a retry all occur.

In `outbound` the breaker has a threshold of 2, which tells "one failure" from
"enough", and a reset of 2, which lets a late failure restart a clock that was
half way. Two readers of one provider are a leader and a follower of the
shared login, or one that forgets the other's token; one redirect is a first,
a last and a forbidden hop; the addresses are the first and last of each
refused range and one that is public, alone and in either place of a list.
Three tokens are a refused one, its successor, and one that another request
obtained; two tabs overwrite each other's transaction, with two transactions
each; one restart loses the discovery. In `portal` two tabs
and two sessions are the old and the new one; two requests in flight are all
that a reordering needs; three rows with pages of one have a page before,
at and after the place where a row is created, deleted or moved. In `records`
three requests are one that breaks off, one that overtakes it and one that comes
after; three creators are two that race and one that comes late. What is
enumerated in full (the roles of `PageAccess`, the kinds of records, and in
`config_http_spelled` the environments of `Config`) has no bound. Four bounds are
in the MC modules: a setting that no rule of `Config` looks at, because of
another one, is left out (`ConfigBounded`); of the two forms on the registry one
may have failed to load, and an admin's roles change once before the browser
asks again (`RegistryBounded`, `AccessBounded`); and a reading of which `PagesAreExact` claims nothing any more is not followed
(`PortalBound`), since the next reading starts from an initial state.

The values chosen for `Password`, `Email`, ... are model values; symmetry is
used in runs without liveness, over sets that no definition tells apart.

Deadlock is checked except in `admin`, `breaker_two_trials`, `outbound`,
`records` and `config_http_spelled`. A system whose
only SUPER_ADMINs are disabled and which has no session left really does
stop (`LockoutIsPermanent` is about this very state); when every caller of a breaker
hangs nothing moves any more; the seed, the live check and a refused start-up end; and in `outbound` the bounds
on reads, tokens and transactions end what the server could go on with.

### The named exceptions

The passing properties say exactly how far each mechanism reaches:

* `LastSuperAdminSurvives`: ... unless two guarded removals overlapped. The
  guard is sound against grants, creations, logins, failures and demotions of
  the actor; only another removal between its read and its write defeats it.
* `RevocationIsComplete`: ... but for sessions marked `outlived`: the login had
  verified before the revocation, or the revoking call failed.
* `CodeWorksOnceAlone`: ... unless a login met another writer of
  `mfaLastUsedStep` between its read and its write.
* `RolesFollowToken`, `LinkIsForLife`: ... unless two sign-ins (or an
  administrator's assignment) worked on the same roles, or link, at once.
* `SuperAdminRemains`: ... unless two requests that may remove the role (a
  demotion, a disable, or an invitation, which lists roles that its new
  account is not to have) were in progress together.
* `AccessIsCurrent`: ... unless the removing request is about to end the
  sessions (`Pending`), or it failed before, was an invitation that dropped a
  role which somebody granted meanwhile, or ended the sessions while a token
  with the old roles was on its way (`missed`).
* `SessionsAreEnded`: ... but for a session whose revocation is pending,
  failed, or ran before the session was created; and, for a logout at the
  provider, one on an account that another person has taken over (`lost`).
* `CallsReturn`: ... unless an attempt hangs, which the code does not exclude
  (section 4).
* `StatusIsEarned`, `TestingEnds`, `DisabledIsQuiet`: ... unless a request died
  half way, or a configuration ran together with another request; and, for
  `TestingEnds`, unless the adapter call of the test hangs.
* `OutboundCallsEnd`: ... unless a body stops after its headers.
* `LoneSignInSucceeds`: ... unless another sign-in of the same browser met it
  (one cookie holds the transaction), the page was reloaded, or the ten minutes
  of the cookie were over.
* `SignOutIsTrue`: ... but for an application whose project failed, a session
  opened with a custom token that is older than the sweep.
* `StatusIsTrue`: ... but for a tab whose answer is in doubt: calls crossed, an
  answer was lost, or another tab changed the cookies since.
* `SessionIsHeld`: ... but for a session that a log-out has failed to delete, or
  whose cookie an older answer has cleared or replaced.
* `PanelIsTrue`, `UntouchedRolesStay`: ... unless the button of the open panel
  was pressed again, answers crossed or got lost, or somebody else saved.
* `TrailIsTrue`, `SideFollowsRecord`: ... unless requests met, or one broke off
  after its first effect, and until one without company puts it right.
* `UneditedFieldStays`: ... unless the field was written since the form loaded
  it, or the form never loaded.
* `TablesAgree`: ... unless the roles have changed since the browser asked, and
  but for the statistics on the dashboard.

Some of the exceptions have a run of their own that shows what happens without
them (section 6).

## 4. Fairness

* `ResilientCall`: `WF(Elapse)`, `WF(Abort(c))`, `WF(NextAttempt(c))`: the clock
  moves and the event loop fires its timers. `WF(call[c].aborted /\ Settle(c))`:
  an attempt *that has not hung* settles some time after its timer fired. This is
  not because of the signal. `withTimeout` only aborts it and awaits the task;
  the stock adapter, the one that is registered for use, does not pass it on.
  It passes on `timeoutMs`, and `SafeHttpClient` has a timer of its own of that
  length, which ends a request in every phase but one, a response that is cut
  after its headers. That one is `Hang`, which may happen in any attempt, and no
  property assumes that it does not: `CallsReturn` and `TestingEnds` name it. (The
  mock adapter rejects on the signal, the noop adapter at once.)
* `IntegrationTest`: the same for the call inside a test, and `WF(TestStep(c))`, a
  database call that was made answers or rejects.
* `StockRead`: `WF(MovesOn(r))`, a read that a timer, a resolver's answer, an
  aborted transport or a due continuation can move on is moved on. Upstream may
  stay silent for ever; the timer is what ends the read then, and a body that is
  cut off has none.
* `KeycloakClient`: the timer of a fetch fires (`Unreachable`), and the
  repetition after a 401 is sent. Nothing bounds the time that a body takes.
* `OidcFlow`: a discovery settles, one way or the other, and the browser follows
  a redirect.

No fairness is put on starting anything: nobody has to call, test, sign in or
configure. `BecomesReady` therefore says that an OPEN breaker becomes *ready*
for a trial, not that one is made. There is no strong fairness.

## 5. Proofs

All theorems hold for every value of the constants under the assumptions named
in the modules. Most of these say that a marker like `None` is no element of
the set it is told apart from, that a bound is a natural number, or that
SUPER_ADMIN is a role. The others: the threshold of the breaker and the size of a
page are positive;
the address of the Stock Management API is one of the targets; a resolver
answers with sequences of addresses, and every address is four octets or eight
hextets (`ResolutionAssumption`); random transactions do not run out, so if
there are finitely many there are two for each tab (`RandomAssumption`); origins that may exchange tokens belong to
applications of the bridge; the catalog has roles and permissions, and a
configuration lists finitely many references. Bounds like `MaxGrants` or
`MaxReads` stay parameters: a theorem holds for each of them.

The invariants that carry these proofs were checked with TLC on the instances
of the runs before they were proved. They have one shape: the property itself,
the types, and what each request in progress has read that is still true, with
the property's named exceptions as hypotheses.

`AdminAccessProofs`
: `TypeCorrect`, `LastSuperAdmin`, `RevocationComplete`, `PermanentLockout`.
  `TypeInv` adds to the types that a request past `idle` holds an account and,
  where it is about to use one, a password. For `LastSuperAdmin` the inductive
  invariant `GuardInv` says: as long as no two removals overlapped, there is an
  active SUPER_ADMIN, at most one request is between the guard's first read and
  its write, and when it is about to write there is an active SUPER_ADMIN other
  than its target. `LastSuperAdminSurvives` alone is not preserved by
  `WriteStatus` and `WriteRoles`: the write no longer looks, so what the count
  saw has to be carried to it, through the steps of all the other requests.
  For `RevocationComplete`, `RevokeInv` adds that no session and no login in
  progress belongs to an account without a row, so that creating a row, with
  its password, concerns no session. `PermanentLockout` is an action property;
  its lemma `NobodyManages` says that in a locked-out system nobody passes
  `requirePermission`.

`IntegrationProofs`, the breaker
: `TypeCorrect`, `ThresholdDecides`, `TrialInProgress` and from them
  `StateEarned`; `SerialKeepsContract`.
  `RetryLeft` (a call in backoff has a retry left) makes the types inductive;
  the two invariants then are inductive themselves: any verdict, of a trial or
  not, leaves HALF_OPEN, and the other steps of a trial keep it in progress.
  `SerialKeepsContract` maps initial states to initial states and each step to
  a step of `BreakerContract` or a stutter, for a single caller with any
  number of retries; `OpenIsQuiet` (an OPEN breaker has no call in progress)
  is the invariant that excludes the late verdicts which break the contract
  for two callers.

`IntegrationProofs`, configuration and test
: `RequestsTypeCorrect`, `StatusEarned`, `DisabledStaysQuiet`. Every step of `IntegrationNext` is a step of the
  breaker, a caller that takes its result, or a restart, so `BreakerTyped`
  reuses `TypeStep`. What the row says can only be kept with what the requests
  still have to write, which is what `Inv` adds: who writes a configuration is
  alone unless that is on record (`Alone`), the status it has read was true
  (`Upserting`), a failing test has neither TESTING nor CONNECTED to write
  (`Failing`), an acceptance is on its way to the row (`Accepted`), and a
  request beyond the gates found them open (`Quiet`). One lemma for each
  action, one step for each part of `Inv`.

`MfaLoginProofs`
: `TypeCorrect`, `CodeOnce`. The invariant of `CodeOnce` says, unless writers
  met: every accepted code of the current secret is at or below the last used
  step (`AcceptedBelow`); the one login that is checking holds the row as it is
  (`CheckingIsCurrent`); the codes about to open a session are new and
  different (`OpenIsNew`).

`IdentityRolesProofs`
: `TypeCorrect`, `LastSuperAdmin`, `RemovalReachesSessions`. `SuperInv` carries
  what the guard saw to the call that relies on it (`Safe`): unless two
  removals met, the only request that may remove the role has *another*
  SUPER_ADMIN, or a person who also is one through a group; a disable needs
  another one, since a group does not help a disabled person. The steps of the
  other requests keep this, and a request never becomes able to remove the role
  half way (`RemovingState`), which is where the order of `ReadRoles`,
  `AddRoles` and `DropRoles` over the applications matters. `AccessInv`
  strengthens `AccessIsCurrent` to the sign-ins in progress (`Clean`): no token
  on its way has more than its person has, unless a removal is pending or was
  missed; otherwise `SignIn` would break it.

`SsoLoginProofs`
: `TypeCorrect`, `RolesCorrect`, `LinksHold`, `SessionsEnd`. `TypeInv` has the
  unique subject and that no session is without its account. Each of the other
  three needs what the sign-ins in progress know. `RolesInv`: two between
  `deleteMany` and `createMany` on one account have met, and an undisturbed one
  has deleted all the rows there are, so that what it inserts is what the token
  says. `LinkInv`: who is about to link an account finds it vacant or has met
  the other one. `EndInv`: a sign-in past the look-up is on an active account,
  on one about to be revoked, or is `late`; and the account it works on is, or
  was, its person's (`OwnAccount`). The last part is what makes a logout of
  everything a person has find the sessions, since it looks for the *account*
  of the subject. It failed in the first attempt, because an account taken over
  by another person keeps the sessions of the first: hence `lost` (section 6).

`RecordsProofs`
: `RowsUnique`: who was not overtaken finds the table as it looked it up
  (`Unbeaten`), so that the insert fails only for those who were.
  `RolesSeeded`: while a run has a role's rows deleted nobody writes others than
  the catalog's (`Equipped`, `NothingElse`). `FieldsStay`: a form differs from
  the row where its editor or somebody else changed one of them since
  (`Accounted`). `RefsListed`: as long as requests neither met nor broke off,
  the one writing has replaced exactly the names it has come to (`Halfway`).
  `TrailTrue` and `SideFollows` cover all eleven kinds of record of the three
  applications at once. `FieldInv` says what a request in progress will log
  (`Told`: the one that is alone will say what the record says), that an issued
  certificate is cancelled once and a NearSip row removed once
  (`CancelledOnce`, for which every write of `cancelled` must find another status
  there, `RemovedOnce`), and for each side state what the request
  between its two writes still has to do (`SchemeFollows`, `SessionsFollow`,
  `ProfileFollows`); one lemma for each of the operations that the stores share.

`OutboundProofs`
: `ContactedPublic`: `AllowedIpv4IsPublic` and its companion for IPv6 show that
  the comparisons and masks of `ssrf.ts` leave only public addresses, for every
  address and not only the boundaries that the run enumerates. `RereadsBounded`
  and `ResendBounded` are refinements of `ReadContract`. Both rest on tokens
  that are numbered as they are granted, so that a later one differs from those
  presented before, and on a count (`Counted`, `Refetched`): the credentials
  presented are those refused, plus the one that is out. `RetriesBounded` states
  it of their composition. `AnswersTrue`: the effect of a request is known at
  each step (`Effective`). `LoneSignIn`: a tab in a flow that met nobody holds
  the transaction of the cookie (`Undisturbed`). `BridgeTypeCorrect` and
  `SignOutTrue`: roles within one application, and what is due and not in the
  sweep any more has failed.

`PortalProofs`
: `ShownAsked`: while nothing went amiss the page waits for one thing at a time
  (`OneAtATime`). `PanelTrue`, `UntouchedStay`: draft, ticks and the save in
  progress differ from what is granted only where boxes were clicked (`Tracks`,
  `SaveTracks`), and the row shows what is granted but for the one request that
  will set it (`OneByOne`). `SessionHeld`, `StatusTrue`: `CallIsSound` is what
  can be told from a request whatever has happened since it was sent (a cookie
  is cleared only for a session that has ended), `TabIsTrue` what holds of a
  tab while nothing happened behind its back (its requests carry the cookie
  that is still there, and what it will make of their answers is true).
  `PagesExact`, for tables and pages of any size: the run has three rows and
  pages of one. By offset, an unseen row that was there all the time has at
  least as many rows before it as were taken (`Complete`), a seen one fewer
  (`Apart`), and without ties the place of a row in the database's order is the
  number of rows before it (`PlaceIsRank`: the order is a bijection, so that a
  prefix of it is counted). An inserted row only raises these numbers and a
  deleted one only lowers them, which is why the one cannot make the reader
  miss a row and the other cannot show one twice. By cursor, exactly what is up
  to the cursor was seen (`ByCursor`). That the page number stays in its type
  is part of the same invariant: a next page is asked for only while fewer rows
  were skipped than the count told.

The smaller components
: `SignInSound`: what runs is what every rule accepts (`ConfigInv`), and each
  consequence follows from two or three rules that `env.ts` states apart.
  `EndsTrue`: what the script knows and the state of its administrator, step by
  step (`Remembered`: an administrator whose id the script does not know is one
  whose invitation was not answered; `AllPassed`: while no check has failed, each
  has left the roles and tokens that the next ones start from). The "passed" at
  the end only adds up because no later step undoes what an earlier check has
  seen, which the invariant says position by position. `TablesAgreed`: for every set of roles, the links reach exactly the
  pages that the guards open (`PagesLinked`), and page by page what a page loads
  and offers passes the route that it calls (`RefusalsExplained`). These three
  modules have no constants; the proofs are for the reader who wants the
  argument and not the enumeration.

The types of the outbound components
: `StockTypeCorrect` bounds the tokens by the reads: `2 * MaxReads`. This is not
  a bound in a guard but a consequence of the loop, and needs a budget
  (`Allotted`): the tokens granted, the logins under way and the first turns
  that may still have a second one are together at most two for each read that
  was begun. A login shared by several readers is counted for
  its leader only: the others await it. `KcTypeCorrect`:
  whoever presents a token, or is about to, was granted it (`KcNumbers`).
  `OidcTypeCorrect` shows with a counting argument that a transaction unlike
  those of all tabs and of the cookie always exists (`RandomIsNew`).

The instances as a whole
: `OutboundComponents`, `PortalComponents`, `RecordsComponents`: the composed
  specification implies that of each component, its fairness included. From
  them `OutboundTypes`, `PortalTypes` and `RecordsTypes`, and `OutboundKeeps`,
  `PortalKeeps`, `RecordsKeep`, which state all other safety properties of the
  run (those of the breaker in `outbound` are `TypeCorrect` and `StateEarned` of
  `IntegrationProofs`, on `Spec`, which `OutboundComponents` gives): what TLC checks of the instance and what is proved is one formula of one
  specification.

With this every invariant of the passing runs and every action property is a
theorem. Left to TLC are the five liveness properties, `BecomesReady`,
`CallsReturn`, `TestingEnds`, `OutboundCallsEnd` and `SignInRecovers`: they rest
on fairness, that is on ENABLED, which the prover does not handle. The
refinements `KeepsContract`, `RereadsAreBounded` and `ResendIsBounded` are of
safety specifications and are proved.

## 6. What the work found

Four disagreements between a document or comment and the code, each a
violation run with its trace:

| Run | The document | The code |
|---|---|---|
| `admin_last_super` | the last active SUPER_ADMIN cannot be disabled or demoted | two overlapping removals, each counting the other, do it |
| `mfa_code_reuse` | a code works only once | two logins that read before either wrote both accept it |
| `breaker_two_trials` | HALF_OPEN allows a single trial | every call passes until the first verdict |
| `config_http_spelled` | plain http is only ever permitted outside production and staging | the rules refuse the prefix `http:` in small letters; `HTTP://...` is accepted, and the client then allows insecure requests |

Seen while modelling and not given a run:

* `policies.ts:18`: the comment at line 10 promises a "hard timeout", but the
  timer only aborts a signal. An attempt that does not settle is awaited for
  ever (`Hang`, section 4).
* `auth.service.ts:120`: a login that verified the old password before a change
  of password opens its session after the change has revoked all of them
  (`outlived` in `RevocationIsComplete`).
* `oidc.service.ts:202`: a back-channel logout that arrives before
  `createSession` ends nothing, and no later one names that session.
* `oidc.service.ts:101`: an account that was not linked when it was found by its
  e-mail may be by now, and is then taken over by the later of two people with
  one verified e-mail. The sessions that the first opened stay, and a logout of that person
  at the provider does not end them, since it looks for an account with the
  subject (`lost` in `SessionsAreEnded`). The exception stays when the first
  person is linked again. It was found by the proof, with three sign-ins.
* `identity.service.ts:298`: the race of `admin_last_super` exists here too, on
  the provider's rows (`overlapped` in `SuperAdminRemains`).
* `identity.service.ts:313`: sessions are ended only if *this* request removed
  something. A request that failed after a removal and is repeated finds nothing
  to remove, answers success, and leaves the sessions with the old roles
  (`missed` stays).
* `identity.service.ts:336`: a rejecting logout at the provider skips the end of
  the Central Admin sessions of a person who is disabled already.
* `integration.service.ts:279`: `enabled` is read once, at the start of a test.
  A switch-off during the test does not stop the retries, although the comment
  at 278 says a disabled integration is never operated (`DisabledIsQuiet` has
  the exception).
* `integration.service.ts:193`: a live status is kept when the adapter type is
  changed to one without a registered adapter.
* `integration.service.ts:274`: an environment mismatch writes `DISCONNECTED`
  over a status earned elsewhere.
* `policies.ts:110`: a late success of a call made before the breaker opened
  closes it directly from OPEN, a transition the comment at 73-75 does not have.
* `AdminAccess.tsx:151`: pressing the button of the person whose panel is open
  resets the draft and not the ticks, since the editor keeps its key: what is
  saved is then not what is ticked (`reopened` in `PanelIsTrue`).
* `ApplicationForm.tsx:95`: a form whose load failed is shown empty under the
  error and can be saved; the PATCH of the whole form then blanks the row. Two
  open forms undo each other's fields: the last one wins.
* `render.yaml:102` seeds at each deployment, and
  `prisma/seedApplications.ts:147` overwrites the documented fields of the registry, whatever an administrator
  has made of them; its comment says "Safe to run repeatedly".
* `packages/shared/src/index.ts:297-298` says that CONNECTED is set only after a
  real test; `updateApplication` accepts `integrationStatus` in a PATCH.
* The dashboard asks every administrator for `/applications-stats`, which needs
  `applications.view`: without it the card shows an error (`TablesAgree`).
* The client asks who it is when it starts and after a sign-in, and never again
  by itself: a removed role is noticed by refused requests only.
* `safeHttpClient.ts:139`: a body that is cut off after its headers settles
  nothing, and the timer finds nothing to abort (`Cut`); `kcRequest` and the
  NearSip client clear their timer before they read the body.
* `keycloak-live-check.ts`: calls between the checks are not guarded (line 248),
  so that a failure there ends the script without the clean-up and the report
  that its header promises; every failed login passes the check on a disabled
  administrator, and the check on the bridge's refusal passes on every failed
  verification, since all answer SSO_TOKEN_INVALID.

## 7. Plan

Done, in this order: `AdminAccess` (who may administer, revocation), the
breaker and its contract, integrations over it, MFA, SSO, identity; then what
Central Admin calls (`SafeHttp`, `StockRead`, `KeycloakClient`, `OidcFlow`,
`FirebaseBridge`), the web client (`WebSession`, `AccessPanel`, `ListPage`,
`Paging`, `PageAccess`), and the stores (`FieldRecord` and its applications,
`UniqueRow`, `Registry`, `RoleSeed`, `CredentialRefs`, `Config`, `LiveCheck`).
Proofs of every safety property of these, alone and composed (section 5).

What could be added: the liveness properties as theorems, once ENABLED can be
reasoned about; the files that `PROJECT.json` names as partly modelled, in the
order of the state they change.

## 8. Not modelled

* Left out of modelled components: the rate limiters (counters in a library's
  memory), password hashing, TOTP and envelope cryptography, JWT signatures and
  PKCE, and the zod schemas: they decide whether a request gets as far as the
  first action of a module, and nothing later.
* The cache of client identifiers of the Keycloak client
  (`keycloakAdmin.client.ts:174`): no request of this code replaces a client, so
  nothing here makes an entry stale.
* The order in which Firestore answers an unordered query
  (`pasunestam.store.ts:265`): the list of cases reads any window of documents and
  sorts those; no document promises a complete list.
* `requireAuth.ts:42` revokes the sessions of a disabled account from a reading
  that may predate a re-enable. The action (`Kick`) is modelled; what is lost is
  one sign-in, and no document promises otherwise.
* Liveness of the administration modules: nothing is promised to happen
  eventually, except the answer to a request.
* Health probes, logging, wiring of routers, markup, styles and texts: no state
  that a property could be about. The entries of the audit log about sign-ins
  are read by nothing that decides.

Abstractions inside the modules, beside the ones named above. `ListPage` has one
action in flight at a time: the save of NearSip's place form disables its own
button only, so that the code allows a second action beside it; its effects are
those of an action that meets a load, which `mishap` excuses. A page's
error and the list that it hides are one message there. `AccessPanel` has the
requests of its constants in flight together, each kind of action once, and the
person stays on the list whatever is searched for. `Paging` moves rows by any
change of their sort key. `Registry` has two fields that stand for the required
and the optional ones. The components of `OutboundMC`, `PortalMC` and `RecordsMC`
share no state in the code either. The rows of `AdminUser`, `AdminUserRole` and
`AdminSession` are shared by more than one module: `AdminAccess`, `SsoLogin`,
`MfaLogin` and `IdentityRoles` each have those columns, and those writers of
them, that their own properties depend on, and no module has all of them. So
`AdminAccess` has no sign-in through the provider, which also gives and takes
roles: `LastSuperAdminSurvives` and `LockoutIsPermanent` are about the roles that
the console sets and the sessions that a password opens.
`SsoLogin` has the administration's writes as single actions
(`AssignRoles`, `Disable`, `Enable`, `CreateLocal`), and `MfaLogin` has the two
columns of one account that nothing else writes.

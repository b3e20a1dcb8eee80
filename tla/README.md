# TLA+ verification of mycota

mycota is a set of TypeScript packages for serverless backends (NestJS on AWS
Lambda, DynamoDB, S3, SSM, Postgres): sign-in, an OAuth server, a content
service with a connector for language models, a vault for provider tokens, jobs,
payments, social publishing, preview environments.  There is no shared memory
between requests but the tables: every handler reads a row, awaits, decides,
awaits, writes a row.  Nearly all the conditions that matter are read before an
`await` and used after it, and nearly all writes are whole-row puts.  The unit
tests run one call at a time against in-memory stores.  The modules here put the
handlers side by side, one action between two awaits, with calls of the store
and of external services that fail, or that take effect without an answer.

Paths below are relative to `packages/`.

## 1. Inventory

| component | state | operations | talks to | hard behaviours | what makes it correct | module |
|---|---|---|---|---|---|---|
| One-time codes `auth/src/otp*.ts` | one record per channel and identifier: code hash, expiry, attempts, send window | `request*` (issue, send), `confirm*` (check) | OtpStore, mail, SMS | read-check-write over awaits; the attempts counter is a conditional update, the rest plain put, get, delete | few guesses per code, no replay, limited sends | `Otp` |
| OAuth server `oauth/src` | clients, codes, access and refresh tokens, each with an expiry | register, the authorize page and its form, token (code, refresh), bearer authentication | OAuthStore, users, `isAllowed` | take-once races, rotation, crash between the take and the puts, lost responses, TTL sweep, permission withdrawn under way | one live secret per consent, bound to its client and user, never redeemed twice, granted to whom is allowed | `OAuthServer`, `GrantLineage` |
| Content service `cms/src/content.service.ts`, `store.ts` | a table of items; a cached index per warm instance | read, find, create, update, remove, removeDraft, setStatus, publish | ContentStore; the clients | cache filled while a write runs, several writes per call, whole-item puts, two indexes per operation | the tree stays well formed, the status moves only as asked, the cache is not behind | `ContentService`, `ContentTree` |
| Content clients and MCP server `cms/src/mcp-tools.ts`, `crud.controller.ts`, `mcp/src` | none | JSON-RPC bodies and batches, the tools of an entity; REST routes of an editor | OAuth bearer, content service | find, merge and save over three loads; partial failure answered as an error | a tool changes what it was asked to and nothing else | `McpContent` |
| Token vault `tokens/src` | one encrypted record per provider and subject: tokens, health | put, delete, accessToken (refresh before expiry, mark) | TokenStore, the provider's token endpoint | overlapping refreshes of a rotating token, store failure after the rotation | spent tokens never stored as healthy, an account not cut off without cause | `TokenVault` |
| Accounts and professional verification `auth/src/users.service.ts`, `auth.controller.ts`, `email-code.service.ts`, `professional-verification/src` | one row per identity: id, verified flag, professional record, pending code | sign-in by provider, code or work e-mail; request, confirm, list, review; quiz | DynamoDB, mail, homepage, search, classifier | get-then-put on sign-up, whole-item puts over newer fields, a check followed by seconds of fetching | one id per identity, no verification lost, a record's status is that of its own request | `Accounts` |
| Jobs `jobs/src`, `cdk/src/job-queue.ts` | scheduled jobs, attempts; schedules and messages at AWS | schedule, cancel, get, processDue; fire, receive, bury | EventBridge, SQS | overlapping ticks, cancel of a collected job, reappearing messages, restart | a cancelled job stays away, every job is settled | `Jobs`, `Campaign` |
| Social publishing `social/src` | none | publish, publishAll | Meta, TikTok, X | fan-out with partial failure, two-step publish, lost answers | a post is repeated only for a reason | `SocialPublishing`, `Campaign` |
| Postgres `postgres/src` | schema_migrations, the transaction of a call chain | applyMigrations, transaction, query | Postgres | two runners, joined transactions, lost COMMIT | each migration once, in order, all or nothing | `Migrations`, `MigrationLog` |
| Configuration and preview environments `config/src`, `cdk/src/ephemeral-config.ts` and its handler, `auth/src/auth-ssm-config.ts` | SSM parameters per environment | load, push, clone, delete; create, update, delete events | SSM, CloudFormation | partial clone, failed create, changed target, lagging listings | no secrets left behind, a created environment boots, tweaks are kept | `EphemeralConfig` |
| Payments `payments/src` | none of its own (the provider's) | checkout, refund, webhook mapping, onboarding | Stripe | out-of-order and repeated webhooks, direct and destination charges | an event is attributed, a refund finds its payment | `Payments` |
| Strategies, media, mail, SMS, DynamoDB client, other CDK constructs | none | adapters | external services | none of their own; their failures appear in the models as calls that fail | – | not modelled |

## 2. How the modules are put together

`ContentService`, `OAuthServer` and `Migrations` each refine an abstract
specification (`ContentTree`, `GrantLineage`, `MigrationLog`) by a mapping in the
detailed module (`INSTANCE ... WITH`).  `Campaign` composes `Jobs` and
`SocialPublishing`: the handler of a job is a `publishAll`.  The other modules
stand alone; where two components share a row (sign-in and verification) or a
service (the connector and the editor) one module holds both.  An `MCx` module
instantiates `x` for TLC: symmetry sets, values that a cfg cannot write, and
history variables where a property needs to know what overlapped.  `xProofs`
holds the theorems about `x`; `ProviderProofs` those about the three modules
whose other half an external provider keeps, `TokenVault`, `Payments` and
`Campaign`.  The definitions of `Jobs`, `Campaign` and `Payments` carry a prefix
where another module of that proof has the same name (`CampaignNext`).

What could come next, in order: versioned and fixed-id entities of the content
service; parents in the MCP tools; fees and transfers of refunds.

## 3. Modules

### Otp

State: the record of one store key (`record`), the clock (`now`), and the local
variables of each request (`rpc`, `rat`, `rseen`) and confirm (`cpc`, `cat`,
`cseen`).  Handlers touch the record of their own key only, so one key is enough.
`paid` is history.

| actions | code |
|---|---|
| `BeginRequest`, `GetExisting`/`RefuseRequest`, `PutCode`, `Deliver`, `FailRequest` | `OtpService.request`, `issue`, `deliver` |
| `BeginConfirm`, `RefuseMalformed`, `GetRecord`/`RefuseMissing`, `CountMissing`/`CountOver`/`CountAndCompare`, `PurgeRecord`, `Accept`, `FailConfirm` | `OtpService.confirm`, `check`; both stores' `recordAttempt` |
| `Tick`; `Sweep` | `Date.now()`, bounded by `MaxTime`; DynamoDB's TTL, set from the window's start |

Codes are named by the request that issued them, and a guess matches the hash
its handler read or does not: two requests drawing the same digits is left out.
Reads see the last write; DynamoDB's default `GetItem` is only eventually
consistent, which would widen the races shown here.  `Spec` interleaves calls at
every await, and time passes during a call; `SequentialSpec` keeps calls apart and
shorter than a tick.

### OAuthServer and GrantLineage

Consents, exchanges and bearer requests are calls; secrets are named by the call
that makes them, and a caller presents only a secret some response has carried
(`Handed`).  A consent is shown (`ShowPage`, GET) and posted (`BeginConsent`,
`CheckConsent`); who is allowed may change at any time (`SetAllowed`), and
`kallowed`, `bseen` record who was while a call was under way.  Expiry is
`Expire`, at any time; DynamoDB's TTL is `Sweep`, after expiry, and may come long
after or never.  PKCE, the redirect URI and the client secret are the one boolean
`proof`.  A response can be lost and a handler can die at any await
(`FailExchange`).

`GrantLineage` is the promise: a consent opens one line of secrets, of which at
most one is live, and no secret is live twice.  The mapping: `live` is what the
store holds of the line, `phase` is "owed" while an exchange has taken the old
secret and not yet put the next.

### ContentService and ContentTree

Root and child entities of the status lifecycle, on one warm instance with its
cached index.  `loadAll` is one step (the table is a few hundred rows, scanned at
once), every write is a step of its own, and a cached index may expire at any
time.  An item is its parent, its status, the call that last wrote its fields
(`edit`) and the call that stamped `publishedAt` (`pub`).  A load's answer and
its installation in the cache are two steps (`Load`, then the handler's
`Indexed`), because writes can come between.  A failed write may or may not have
reached the table.  An entity's own field checks may refuse an input (`Refuse`);
`defaultStatus` is left out.

| actions | code |
|---|---|
| `Begin`, `ReadCached`, `Load` | the first `index()` of every method |
| `CreateRoot`, `CreateKid`, `Update`, `Remove`, `SetStatus`, `CollectItems`/`PublishItems`, `CheckDraft` | the methods' decisions on their index |
| `Write`, `Invalidate`, `Finish` | the puts and removes, `invalidate()`, the answer on a fresh index |
| `FailLoad`, `FailWrite`, `Expire` | rejections of the store, `cacheTtlMs` |

`ContentTree` is the same content changed by whole operations at once.  The
mapping overlays a writer's pending writes on the table, so an operation takes
effect when its handler decides.  Two writers that overlap can undo each other,
and what is claimed of a writer is claimed of `OneWriterSpec`: a step may not
leave two writers under way, while readers come and go.

### McpContent

A post is one HTTP request of the connector, with a body of up to `MaxBatch`
messages handled in turn (`handleBody`); an edit is one REST request.  Both end
in the same service, here with the fields of a row one by one: a field holds who
gave it its value.  `update_<entity>` is `Load`, `Merge` (`currentInput` under
what was passed), `Load`, `Update`, `Write`; the REST update starts at the second
load.  `delete_draft` and `publish` look first (`Peek`).  `ToolCalls` and
`RestCalls` are what the tools' schemas and the routes admit: no status and no
field of `mcp.omit` from a connector.

### TokenVault

One provider and subject.  The provider is external: it rotates refresh tokens
(TikTok, X), so a refresh spends the token set it is made with.  Token sets are
numbered in the order they are issued, up to `MaxTokens`; `bare` ones have no
refresh token or no refresher.  Everything fails at every await (`Breaks`).

### Accounts

One identity, hence one key of the users table.  Every HTTP call takes one
handler: a provider's callback (`LoginGet`, `Upsert`), a one-time code that was
right (`FindFirst`, `CreateIfAbsent`, `GetWinner`), a work e-mail (`FindByEmail`,
`PutByEmail`, then the request), local sign-in, a request, confirm, list and
review, or a passed quiz.  `At(c, p)` is the first step of a handler, with the
session guard for those that need one, or its next.  A review (`GetById`,
`Decide`) is the call of another verified contributor, of any id and on any
status, as `POST :userId/review` has it; the list of what awaits review is a read
that no operation depends on.  `Screen` and `Classify` are
the seconds of homepage fetch, search and model, whose outcome never stops a
request.  A row records whose request its professional record and its code are
(`by`).  `CreateUnanswered` is the conditional put whose answer is lost and whose
retry, by the AWS SDK, finds the caller's own row.  `raced`, `crossed` and
`decided` are history: a put made on an empty read replaced a row; the record
changed to another request between a confirm's read and its write; a decision was
written on a record of that request.

### Jobs, SocialPublishing, Campaign

`Jobs` has both backends, chosen in `Init`: "memory" is `FakeJobScheduler`, whose
overlapping `processDue` calls are the workers; "aws" is
`EventBridgeJobScheduler`, its schedules, and the queue of the `JobQueue`
construct with visibility timeout, receive count and dead-letter queue.  When a
job is due is nondeterministic; one that has run already is.  `SocialPublishing`
is `publishAll`: one flight per post that reaches an adapter, one step per HTTP
request, an effect that may have happened although its answer was an error or a
timeout.  `Campaign` is an application's job handler, the one thing here that is
not in the repository: it waits for `publishAll` and fails, to be tried again,
when that rejects or a result is `retryable`.  When `Promise.all` rejects, the
other posts go on and nobody waits for them (`Waited`).  `posted` counts the
effects of each post of a job, for a payload may hold two of one platform.

### Migrations and MigrationLog

Runners are deployments, of releases that know the migrations up to some number,
in transactions of their own or joined to their caller's (`joined`:
`AsyncLocalStorage` makes `transaction` run its work in the open one).  Every
statement is a step and may fail; a COMMIT may take effect without an answer.
Postgres is external, at READ COMMITTED: an insert of a key that another open
transaction has inserted waits, and is refused once that commits.
`MigrationLog` is one migrator that adds whole migrations in order.

### EphemeralConfig

Parameters per environment and name; the clone or delete each actor has under
way (the custom resource's handler, and somebody at the command line); what
CloudFormation does with the stack.  `leafName` is modelled by what it does
(`Leaf`): two names of the source may have one last part, and the configuration
that is loaded has one value per last part (`Leaves`).  A delete lists first and deletes in
batches, and a listing may still show what is gone (`ghosts`, the lag that
`ssm-config.ts` describes).  An update with another `TargetEnv` moves the stack
and clones nothing.  The Delete of the old environment that follows is no step of
the model: the handler's role is that of the new `TargetEnv` by then
(`ephemeral-config.ts:54-59`), so that its first call, the listing, is denied.
`cloned`, `dirty`, `moved` and `tweaks` are history: what was cloned, what a failed
create or somebody's hand has left, what an update has moved the stack away from,
and what somebody set in the environment of a stack that is up.

### Payments

Sessions and accounts are Stripe's (external), `events` is what it has reported
and may deliver any number of times in any order, `inbox` what `parseWebhook`
has told the application.  An application refunds what a completed checkout
reported, with the payment and account it named.

## 4. What the runs check

`CHECK_DEADLOCK FALSE` is in the cfgs of the modules whose calls are finitely
many: they end, and the system is then at rest.

| run | bounds | shows |
|---|---|---|
| `OtpConcurrent` | 2 requests, 3 confirms, 2 guesses and 2 sends allowed, clock 0..2 | `TypeOK`, `BudgetPerCode`, `NoReplay`, `CountedSendsSpaced` under every interleaving.  Three confirms exceed the limit of two, and the clock crosses cooldown, window and expiry |
| `OtpSequential` | 4 requests, 2 confirms, window 4, retention 6, clock 0..6 | more sends than two caps over two windows: `TwoWindowLimit` |
| `OAuthGrants` | 1 consent, 2 exchanges, 1 bearer request, 2 clients, 2 users | `TypeOK`, `TokensBound`, `PresentedIsGone`, `GrantedWasAllowed` and the refinement.  Two exchanges race for the code or follow one another (a rotation, or a reuse); longer lines are covered by the theorems |
| `Content` | 1 root, 2 children, 2 calls, every well-formed initial table | `TypeOK`, `OrphansGoing`, `StatusAsAsked`, `CacheCurrentUnlessTorn`, and `ImplementsTree` until a write fails: a cascade of three rows torn anywhere, a second call before, after or reading during it |
| `McpContent` | 1 connector body of 2 messages, 1 editor, 2 rows, 2 fields of which one is hidden | `OnlyAskedChanges`, `RefusedWroteNothing`: a tool against the editor's update, delete or publish at each of its loads, and a second tool after it |
| `Vault` | 4 calls, 4 token sets | `TypeOK`, `HealthyIsGood` whatever overlaps and fails; `CutOffOnlyByOverlap`, `NewestKept` of calls that do not overlap or break |
| `VaultOverlap` | 3 calls, 3 token sets | a counterexample to `NeverCutOff`, see below |
| `Accounts` | 5 calls of one identity | `SessionsResolve`, `VerifiedStays`, `StatusIsItsOwn`.  Sign-up, request, confirm and review take four calls, the fifth is whatever disturbs them |
| `Campaign` | 2 workers; 2 jobs in memory or 1 at AWS; 2 attempts; payloads with a rejected kind, an unconfigured page and a draft | `PostsExplained`, `CancelHolds`, and under fairness `Settles` |
| `Migrations` | 2 runners, 3 migrations | `OnceInOrder`, `ImplementsLog` |
| `EphemeralConfig` | 2 target environments, 5 names of which two share a last part, batches of 2 | `NoLeftovers`, `BootsConfigured`, `TweaksKept`; a delete takes two batches and more |
| `Payments` | 2 checkouts, 1 seller, a price of 2 cents, expiry at and beside Stripe's limits | `RefundsFindPayment`, `Attributed`; a refund in two parts, of payments with and without a seller |

Time units stand for the ratios that matter (cooldown ≤ window, expiry against
cooldown); limits of 5 become 2.  Symmetry is over calls, over checkouts and, in
the content runs, over the ids of a kind; the properties do not name members.

Fairness is stated in `Campaign` only: workers keep taking and ending work
(`WF` of `Begin` and `Finish` of each), requests end because ky's total timeout
ends them, and AWS fires, redelivers and buries.  Nothing obliges the application
to schedule or cancel.  `Settles` is what `maxAttempts` and `maxReceiveCount` are
for: no job is tried for ever.  In the other modules a handler ends when its
awaits do, or its process dies, and nothing retries or waits for another, so no
liveness is claimed.

### Where code and documents differ

`VaultOverlap` ends in a counterexample: two `accessToken` calls refresh the same
tokens; the first stores what the provider has issued; the second was refused, and
its `mark` puts the record it had read, with the spent tokens and `needs_reauth`,
over the fresh ones (`vault.ts:91`).  The vault "marks `needs_reauth` when refresh
fails" (`vault.ts:13-14`), but the refresh had succeeded.  `NeverCutOff` speaks of
states with no call under way, so nothing is left to heal the record.

Two more follow from the modules without an interleaving and have no run of their
own.

* The workflow is "request/confirm/review" (`README.md:15` of the repository), but
  `reviewProfessional` loads whatever user the path names and asks for no status
  (`users.service.ts:311-351`): a request whose code nobody has typed can be
  approved, with no two calls overlapping (`GetById` and `Decide` after
  `SetPending`).  What holds instead is `StatusIsItsOwn`: whatever overlaps, a
  decision stays with the request it was made on.
* The construct "tears it down when the stack is destroyed"
  (`ephemeral-config.ts:22-23`).  When the `TargetEnv` of a stack changes, the Delete
  of the old one is denied, and what was cloned into it outlives the stack
  (`UpdateStack`).  CloudFormation cleans up when every resource of the stack has
  been updated, the role's policy among them, and completes an update whose
  clean-up fails.

Seen while modelling, and kept as the condition of a property that holds:

* A one-time code that two overlapping confirms read is accepted twice
  (`NoReplay` is about confirms that start later); confirms overlapping a resend
  charge their guesses to the new record (`BudgetPerCode` counts what a record
  pays for); the send window is fixed, not rolling (`TwoWindowLimit`), and a
  successful confirm deletes the send limits with the record (`LimitsKept`).
* `removeDraft` of a draft root removes its published children, as `ContentTree`
  says.  An update that loaded before a publish stores the draft status again;
  a child created under a root that is being removed stays behind
  (`StatusAsAsked` and `OrphansGoing` have one writer, `OnlyAskedChanges` speaks
  of rows nobody else wrote).  A load answered before a write can be installed as
  the index after its invalidation, and a write that throws skips `invalidate()`
  (the two conditions of `CacheCurrentUnlessTorn`).
* Two first sign-ins of one provider account, or of one work e-mail, mint two
  ids; only `findOrCreateByIdentifier` is conditional (`raced`).  A sign-in puts
  back the whole row it read and loses what was written in between
  (`VerifiedStays` excepts it).  A confirm lands on whatever request the record
  holds by then (`crossed`), as does a decision, and a rejection leaves
  `verifiedContributor` as it was.
* `cancel` after a restart does not know the job; a schedule whose
  `createSchedule` answer was lost can never be cancelled.  Every failed or
  overlapping run posts again what had succeeded (`PostsExplained`).  TikTok's
  `direct_post` is implemented, and refused by `PLATFORM_CAPABILITIES`.
* A stack update that changes `TargetEnv` never clones: the new environment is
  empty (`BootsConfigured` speaks of environments a Create has cloned).  A failed
  create leaves what it had put, and a move what the stack had (`NoLeftovers`
  excepts both).
* A declined payment of a checkout with no seller carries no metadata
  (`Attributed` excepts it).  A refund of one carries none either: it is attributed
  by the completion that named the same payment and account before it.

## 5. What is proved

TLAPS proves the following for all values of the constants, from the named
assumptions of the modules (`*Assumption`), which TLC evaluates on every run.
Most say that limits are naturals and that the placeholder for a missing row is
no row.  Those with content:

* `Otp.LimitsAssumption`: `MaxSends` and the window are positive, and a record is
  kept at least as long as its window (its `ttl` is the window's start and two
  hours, the window one hour).
* `EphemeralConfig`: the source and the shared environment are no targets, a
  batch holds something, the last part of a last part is itself
  (`LeafAssumption`), and the source has the secret that an application boots with
  (`SourceAssumption`), which the stack that provisions it puts there.
* `ContentService.ItemsAssumption`: no id is of both kinds.

Each proof has one inductive invariant (`IInv` unless another name is given),
which TLC was given as an invariant first.

* `OtpProofs`: `OtpTypeOK`, `OtpBudget`, `OtpNoReplay`, `OtpSendsSpaced`,
  `OtpTwoWindowLimit`.  `BudgetPerCode` is not inductive: that a record's
  comparisons never exceed the limit needs that they equal at most the attempts
  on the record stored now (`PaidByRecord`); `NoReplay` needs that only the issuing
  request, once, puts a record of its name (`RecordIssued`, `SeenIssued`);
  `CountedSendsSpaced` needs the same of what each request has read (`SeenSpaced`),
  and the arithmetic of one send is lemma `NewRecordSpaced`.  `TwoWindowLimit` is
  about `SequentialSpec`.  Its invariant `SequentialInv` gives every code that was
  sent a window and a place in it (`Windowed`), the stored record the last window
  and its highest place (`CountsLast`).  The sends of a rolling window
  lie in at most two of these windows, and those of the earlier one are not its
  first, which lies before: the count is an injection into
  `1 .. 2 * MaxSends - 1`.
* `OAuthProofs`: `OAuthTypeOK`, `OAuthTokensBound`, `OAuthPresentedIsGone`,
  `OAuthGrantedWasAllowed`, `OAuthImplementsLineage`.  The inductive invariant
  adds that a stored secret's maker is past the put (`StoredByOwner`), that
  entries in flight are bound like stored ones (`AllBound`), that what is
  presented has been handed out (`PresentedWasHanded`), and that a line has one
  holder: a stored secret or one exchange in flight, never two (`OneHolder`).  The
  last carries the refinement; each step is then an action of `GrantLineage` or
  leaves its variables alone.  `GrantedWasAllowed` needs that the history of who
  was allowed contains who is now, as long as a call is under way (`AllowedSeen`).
* `ContentProofs`: `ContentTypeOK` whatever overlaps; `ContentOrphansGoing`,
  `ContentStatusAsAsked` and the refinement `ContentImplementsTree` for
  `OneWriterSpec`; `ContentCacheCurrent` for the specification of the run.  With
  one writer, the table is what it has loaded until it writes (`Sighted`), a
  parent is a root (`Rooted`), an id is handed out once (`HandedOut`), and every
  write still to make is one to make on the table as it is, whatever has been
  written of its batch (`Due`, `Decided`): the order of a cascade does not matter.
  The refinement maps the decision to an operation of `ContentTree` and every
  write to a stutter.  The cache needs that what was loaded and not yet cached is
  the table as long as no write came between (`Current`).
* `McpProofs`: `McpTypeOK`, `McpRefusedWroteNothing`, `McpOnlyAskedChanges`, for any
  bodies, rows and fields.  `moved` is the history of which rows others have
  written since a call looked at them; of a row that did not move, each load is
  the table (`Sees`), the merged input is what was given over what the row holds
  (`Inputs`), a draft is still a draft (`Drafts`), and each write decided on changes
  what was asked (`Due`).  That a row being created is known to its creator alone
  (`Own`) rests on ids being handed out once (`HandedOut`).
* `AccountsProofs`: `AccountsTypeOK`, `AccountsSessionsResolve`,
  `AccountsStatusIsItsOwn`, `AccountsVerifiedStays`.  `SessionsResolve` needs
  that no row is ever deleted (`RowThere`) and that until a put replaces a row it
  did not see, every row read and every id about to be issued is the stored one
  (`OneId`).  `StatusIsItsOwn` needs that a pending code is of the request the record is
  of (`CodeOfRecord`), that the record a sign-in has read and will put back has
  earned its status (`Earned`), and that until a record changes under a confirm, the
  confirm lands on the request whose code it found right (`Relied`).
* `EphemeralProofs`: `EphemeralTypeOK`, `EphemeralNoLeftovers`,
  `EphemeralBootsConfigured`, `EphemeralTweaksKept`.  A stack's delete has all that
  is there on its list, however many batches that takes (`DeletesAll`); a cloned
  environment has what its source has or the create has yet to put it (`Cloned`),
  because nobody writes to a source (`SourcesStay`).  `TweaksKept` needs that no
  clone or delete is under way on an environment with a tweak (`Untouched`): the
  handler's have ended when a stack is up (`Phases`), an update starts none, and the
  command line's own starts only after a push.
* `MigrationsProofs`: `TypeCorrect`, `Versioned`, `Implements`, for any number of
  runners.  `OnceInOrder` needs what a runner's transaction holds at each
  statement (`Holds`: the sql and the row of the same migrations, save the one it
  is between), that the lower migrations of what it is at are committed or in its
  own transaction (`Lower`), and that no two open transactions hold one row
  (`Exclusive`, which is Postgres' unique key).  With these a commit is one step
  of `MigrationLog` and every other step leaves the log alone.
* `ProviderProofs`, the vault: `VaultTypeOK`, `VaultHealthyIsGood` of all calls.  A
  refresh starts from a healthy record of issued tokens (`ReadsHealthy`,
  `WasIssued`), and a token set on its way to the store is known to its carrier
  alone (`CarriesItsOwn`).  `VaultCutOffOnlyByOverlap` and `VaultNewestKept` are about
  the specification of the run, with its history: the invariant `AloneInv` says that
  until calls overlap or something fails there is one call (`OneActive`), which
  works on the record that is stored and carries the newest tokens
  (`WorksOnStored`, `NewestStored`).
* `ProviderProofs`, payments: `PaymentsTyped`, `PaymentsRefundsFindPayment`,
  `PaymentsAttributed`.  Every event is a report on a checkout that stays true of
  it (`Reported`), every message says what some event says (`Told`), only a payment
  with no seller goes untagged (`Tagged`), and Stripe reports a refund only of what
  the application asked for, by a completion it had been told (`RefundsAsked`).
* `ProviderProofs`, campaigns: `CampaignTyped`, `CampaignPostsExplained`,
  `CampaignCancelHolds`, for any number of workers, jobs, attempts and posts.  Every
  run of a job but one has a reason, a failure or an overlap, and where another run
  is owed, that one too (`Owed`, `RunsExplained`); the times a post took effect and
  the flights that may still make it public are together no more than the runs
  (`Counted`).  A cancel holds because a schedule that still exists has neither
  fired nor been cancelled (`NotFired`).

Only model-checked: `Settles`, because liveness under fairness and ENABLED are out
of the prover's reach, and the counterexample of `VaultOverlap`.  The content
theorems have one writer because their properties are false of two, see above;
`TwoWindowLimit` has calls one after another for the same reason.

## 6. What is not modelled, and why

* Versioned and fixed-id entities, `onDelete` effects and linked publishing of
  the content service: their logic is in the specs of an application.  Tools that
  read, and parents, in the connector.
* Other warm instances of the content service: each serves its own index for up
  to `cacheTtlMs` after another's write, as documented.
* Cryptography (hashing, PKCE, encryption of vault records, webhook signatures):
  secrets are names that cannot be guessed.
* The inside of domain screening: redirects, retries, prompts.  Its result is
  advice to a reviewer, and the request goes on without it.
* Fees, transfers and prices of payments, and what Stripe accepts of their
  combinations; the status names of the two Connect versions; the fake gateway.
* Insights and the connect flows of social publishing: reads, and redirects whose
  result is the vault's `put`.
* The HTML pages, cookies and discovery documents of the OAuth server; the HTTP
  shapes of provider calls; the connection pool; adapters without state of their
  own (media, mail, SMS); CDK constructs other than the job queue and the
  ephemeral configuration, which are templates.

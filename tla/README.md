# A TLA+ model of AssureCode

AssureCode holds a client's money in escrow while a freelancer delivers code,
verifies the delivery by automated audits, and releases the money when an oracle
approves. This directory holds TLA+ modules of the parts of that system that keep
state under concurrency and failure, or compute something a decision about money
rests on; TLC configurations that check them on small instances; and proofs, checked
by TLAPS, of what matters most for every instance.

Paths below are relative to the repository. `worker.ts` without a path is
`apps/settlement-worker/src/worker.ts`; routes are in `apps/api-gateway/src/routes/`.

## 1. The system

### Components, their state and operations

| Component | State it keeps | Operations | Interacts with |
|---|---|---|---|
| API gateway (`apps/api-gateway`) | rows in Postgres; an in-memory idempotency cache | contract creation, assignment, lock, funding, settlement request, audits, scores, KYC, sessions | publishes on the bus, appends to the ledger, calls Razorpay, AI service, scope guard |
| Settlement worker (`apps/settlement-worker`) | `settlements`, `escrow`, `repo_provisioning`, `contract_assignments`, `oracle_state` rows | settles a contract, recovers abandoned settlements, pays freelancers, provisions repositories, records audits and asks for scores | consumes the bus, captures payments, appends to the ledger, calls GitHub |
| CI worker (`apps/ci-worker`) | `audit_results` | fetches, analyses, tests and scans a push, saves and publishes the audit | consumes `CODE_PUSH_RECEIVED`, publishes `AUDIT_COMPLETED` |
| Webhook ingest (`apps/webhook-ingest`) | none | checks a GitHub push, resolves it to a contract and publishes it | GitHub, bus |
| Oracle (`packages/oracle`) | `oracle_state` | records audits and scores, evaluates, finds the payment to capture | read by worker and gateway |
| Ledger (`packages/ledger-client`, `infra/migrations/postgres/V002,V009`) | `merkle_ledger` (a hash chain per contract), `merkle_roots` | append, append with outbox row, read, verify, seal legacy rows, seal the root, store a signature | every other component |
| Event bus (`packages/event-bus`) | Redis streams or Kafka partitions, consumer groups; `outbox` | publish, deliver with retries and dead letters, reclaim, relay the outbox | every other component |
| Payment adapter (`packages/razorpay-adapter`) | none; the fakes keep payouts in memory | orders, capture, refund, fetch, payouts, signature checks; retries of a call | Razorpay, RazorpayX |
| Scope guard (`apps/scope-guard`), AI service (`apps/ai-service`) | embeddings, `scope_checks`, trust scores of the graph | classify a message, drift, match, score, review | gateway |
| Web application (`apps/web`) | token, contract and tab in localStorage; React state of session, workspace, postings, settlement view and funding panel | sign in and out, post and lock a contract, fund it, request the release, poll for its outcome | gateway, Razorpay Checkout |
| KYC, e-mail, telemetry, configuration | their own | calls to external services | gateway, worker |

Processes: the manifests in `infra/k8s` run three gateways, two CI workers, two
webhook ingests and one settlement worker. A Node process interleaves its handlers
at every `await`; handlers of two processes meet in Postgres, in the provider and
on the bus only.

### What is hard

* **Money moves at a provider, the books are in Postgres.** Between the capture and
  the transaction there is an `await`, at which the process may die, time out or be
  overtaken.
* **A call that was not answered may have been done.** The adapter repeats it under
  the same idempotency header; the sweeps repeat the whole call later.
* **At-least-once delivery.** Redis redelivers unacknowledged messages, and hands a
  message that was pending for 15 s to another consumer although its first one may
  be alive. Kafka delivers again whatever was not committed. The outbox relay may
  publish a row twice. Razorpay repeats webhooks.
* **Three writers of one escrow row**: checkout callback, webhook, bus subscriber.
* **Four writers of one payout status**: the settlement, two sweeps that overlap,
  the webhook, none of them guarded.
* **Long tasks that overlap themselves**: a provisioning sweep overlaps the handler of
  the same acceptance and its own next run, and each has read its row long before it
  acts on it.
* **Requests without locks**: assignment, reset of a password, enrolment of a second
  factor and linking of an identity read in one statement and write in another.
* **A score is computed from an audit that may be replaced meanwhile**, and the oracle
  is told of audits and scores over two topics.
* **Answers that overtake each other in the browser.** A callback closes over the
  person and the contract of the render that made it, whoever is signed in and
  whichever contract is shown when it runs.
* **A lock that ends before its transaction does** (`append_ledger`).
* **Errors handled by a catch block that is too wide**: a failed publication marks a
  committed settlement FAILED; the idempotency wrapper runs a failed handler again; a
  CI run that throws is acknowledged.
* **Functions a decision rests on**: signals, trust score, metrics, counts of tests. An
  audit that measured nothing must not look like one that found nothing.

`PROJECT.json` lists each of these hazards at its line with the properties that cover
it. One has none, the trimming of a stream to about 10 000 entries: a model
with a cap of two would show it as an ordinary behaviour, which it is not.

### What makes each part correct

| Part | Properties |
|---|---|
| Settlement | a completion is announced only when booked; handlers book a payment once; settlement, escrow and chain tell one story of the payment (`PaymentBook`); an abandoned capture is resolved; every request is answered |
| Payout | at most one payout at the provider; COMPLETED only if processed; a call with its repetitions is one step; a payout of a settlement whose completion was announced is resolved |
| Funding | a row that shows money names a payment that is held; an authorised payment is recorded, unless a failed attempt took its order out of play |
| Ledger | a call appends once; a stored signature is over the stored root; roots and proofs are sound; an honest chain verifies, an altered entry or sealed hash shows; (claimed) the chain does not fork |
| Outbox and bus | both transports owe a group the entries added while it is there, and settle them only when handled or parked; no row and no entry is left behind |
| Verification | the oracle approves on signals that were measured in one audit; scores never go back in time; a score and the backlog are worked off; what was delivered in chat was checked |
| Lifecycle | a decision has one winner; a repository belongs to one contract; ACTIVE has a repository and a collaborator; an acceptance whose provisioning was written down ends |
| Idempotency | undisturbed, a key's requests take effect once; everyone is answered |
| Access | a change of password ends sessions; uses of one token overlap, none follows an answered one; an identity keeps its account |
| Web | what the screens tell of money was taken and, but for an order that a failed attempt took out of play, is on record; a request for release is answered; a tab has one session, and its badge is about the contract it shows |

## 2. Modules

| Module | Models | EXTENDS / INSTANCE |
|---|---|---|
| `PaymentBook` | abstract: one payment goes from held to taken to released | – |
| `Settlement` | `subscribeSettlementRequests`, `commitSettlement`, `claimSettlement`, the start-up recovery, the bus as the handler sees it, POST /settle | INSTANCE `PaymentBook` |
| `Payout` | `attemptPayout`, `reconcilePendingPayouts`, the payout branch of the webhook, onboarding | – |
| `PaymentApi` | the payment and payout ports: choice of adapter, `requestWithRetry`, the fakes | – |
| `EscrowFunding` | POST /escrow and /escrow/verify, the payment branch of the webhook, `subscribeEscrowEvents` | – |
| `Merkle` | the tree of `merkle.ts`, as functions | – |
| `Ledger` | `append_ledger`, `append_ledger_and_outbox`, the client's append methods, sealing and signing | `Merkle` |
| `Canonical` | canonical JSON (`canonical.ts`) | – |
| `ChainAudit` | both hash formats, `verifyChain`, the legacy anchor, the root's coverage | `Merkle`, `Canonical` |
| `Topic` | abstract: what a bus owes to a consumer group | – |
| `Delivery` | `OutboxRelay.pump`, and a topic of `RedisStreamsBus` with one group | INSTANCE `Topic` |
| `KafkaBus` | a partition of `KafkaBus` with its consumer | INSTANCE `Topic` |
| `Idempotency` | `withIdempotency` for one key in several gateways | – |
| `Lifecycle` | creation, lock, assignment and its decisions; provisioning with its sweep | – |
| `Analysis` | security findings, oracle signals, trust score, drift detector, chunker, as functions | – |
| `SourceMetrics` | the measures of a syntax tree | – |
| `AuditRun` | a CI run from the world it finds to the audit it saves | `SourceMetrics` |
| `Verification` | push → CI run → audit row and event → score → oracle, and the chat's scope checks | `Analysis` |
| `AnalysisSamples`, `AuditRunSamples` | the small inputs the functions are tried on, and their properties | |
| `Access` | accounts, sessions, one-time tokens, second factors, identities | – |
| `EscrowScreens` | `EscrowSettlementView`, `EscrowFundingPanel`, the loader of the Checkout script | – |
| `Browser` | one tab: `AuthContext`, `App`, the sign-in screens, `ContractInitialization`, `useLedgerStatus` | – |
| `MCSettlement`, `MCPayout`, `MCEscrow`, `MCLedger`, `MCDelivery`, `MCLifecycle`, `MCVerification`, `MCAccess` | instances for TLC | |
| `SettlementProofs`, `LifecycleProofs` | theorems about the module they are named for | it, `TLAPS` |
| `LedgerProofs`, `PayoutProofs`, `EscrowProofs`, `BusProofs`, `AccessProofs`, `GatewayProofs` | theorems about `Ledger`, `Merkle`, `Canonical` and `ChainAudit`; `Payout` and `PaymentApi`; `EscrowFunding` and `EscrowScreens`; `Delivery` and `KafkaBus`; `Access` and `Browser`; `Idempotency`, `Verification`, `AuditRun` and `Analysis` | these, `TLAPS` |

Where an MC module joins two modules that share no state it says so and starts each
behaviour in one of several *scenes*: the joined behaviour is that of one of them, and
neither constrains the other.

### Settlement

State: the `settlements` row of a contract (`settlement`, `transfer`), the `escrow`
rows (`escrow`), the `SETTLEMENT_COMPLETED` entries of the chain (`ledger`), the
payments the provider has captured (`captured`), what the oracle would answer
(`approved`), the stream (`requests`), the events published (`events`), and for each
fiber - the handler and the start-up sweep of each worker - its program counter and
locals.

An action is the code from one `await` to the next: `Evaluate`, `Claim`, `Find`,
`Capture`, `Commit`, `Publish`, `Fail`, `Reject`, `Ack` for the handler; `Sweep`,
`SweepNext`, `Reevaluate`, `Fetch` and the shared steps for recovery. The transaction
of `commitSettlement` is one action (`Record`), because Postgres makes it one; its
four outcomes are in `Commit`. Which operations may fail is the constant `Faults`.
Orders are numbered by age, so that "newest" is `>=`. `Crash` ends both fibers of a
worker at any step.

`oracle.evaluate` is an answer that may turn to yes at any time and, with the fault
"regress", back to no; `Verification` has the oracle itself. `sealAndSignMerkleRoot`
and `attemptPayout`, which run after the publication and swallow their errors, are
modelled in `Ledger` and `Payout`.

### Payout and PaymentApi

The provider is a function from idempotency keys to payouts, so that "paid once" is a
statement about keys: the code derives one key from the contract, and a key for each
attempt would be a second payout. A sweep reads its rows and their attempts at once
(`Select`) and visits them later (`Visit`). Two members of `Sweeps` are two runs of the
interval timer that overlap. `Settle` is the commit of a settlement and `Announce` the
publication after it: when that throws the settlement is marked FAILED, leaves `settled`,
and neither the settlement's own attempt nor a sweep sees it again. `PayoutResolves`
claims a payout of the others only.

`PaymentApi` is what `Payout` and `Settlement` take for one step: a call with its
attempts. The provider may answer, refuse, ask for patience, break or never be heard,
and what it was asked may have been done in all but two of these cases. Whether a
refusal is final, which calls carry the idempotency header, and what the fakes
remember follow the code; waiting times do not.

### EscrowFunding

A gateway request is a fiber with a route (`job`) and a step. `Pay` is the customer at
Razorpay Checkout: an order may see several attempts, at most one of them authorised,
and each leaves a webhook. `Record` is `recordPaymentEvent`, which answers alike for a
duplicate and for a failed insert. `Consume` is the worker, which may see each
announcement again at any time. `Choose` and `Release` are what the settlement does to
the row, seen from here. `PaidIsRecorded` asks for the row to show the money and for the
payment to be its own (`Recorded`), and excepts an order that the `payment.failed` of
another attempt took out of play (`OutOfPlay`).

### Merkle, Ledger, Canonical and ChainAudit

Hashes are free terms: equal exactly when their inputs are. `Level`, `Height` and
`InclusionPath` are recursive functions. `Ledger` models a database session as the
sequence lock, read, insert, unlock, (stage), commit; an uncommitted entry is in
`draft` and becomes visible at the commit. `depth` is the number of times a session
holds the advisory lock: a refused INSERT leaves it held, as the code does.

`Canonical` takes a JSON value to the sequence of its tokens: members sorted by code
units, one zero, no text for what JSON cannot hold. `serialize` is written level by level:
`Serialize` writes one level of a value and leaves its parts to be written, `Written` does
so as often as values are nested (`MaxNesting`). Beside numbers and strings, null and the
two truth values would be further values without parts. `SameJson` is what JSON takes
for equal, and `Jsonb` is what PostgreSQL keeps of a payload: the members of every object
in an order of its own, zero without its sign. What `verifyChain`, the anchor and the root
say of an altered row are three statements (`EntriesTell`, `AnchorTells`, `RootTells`): an
entry in the new format shows, an entry from before the migration shows only through the
hash that was stored with it. `ChainAudit` writes rows in the
old format, runs the migration, seals the old rows with an anchor, appends in the new
format and stores the root; then one row is changed or taken out by a statement that
is none of these, and `verifyChain`, the anchor and the root are asked again.

### Topic, Delivery and KafkaBus

`Topic` is the promise of the bus in six variables: entries added while the group
is there are owed to it, and leave `owed` only when `done`. `Delivery` and `KafkaBus`
each implement it, under a mapping of their own.

`Delivery` is the way of an event from a committed outbox row to a handler. A relay's
transaction is `locked` (the rows selected with SKIP LOCKED), `todo` and `marked`;
`End` is its commit or its rollback, and drops the locks. A row in `Poison` can never
be published, the case the comment in `pump` is about; the assumption that there are
fewer of them than a batch holds is the code's limit. The stream is a sequence of
rows; `last` is the group's position and `pending` its list of unacknowledged entries,
of which those in `idle` have waited longer than `claimIdleMs` - which the clock may
do to an entry while its consumer is still at work. A consumer alternates between
`Reclaim` and `Read` and works its batch off entry by entry; a call that throws ends
the batch, as the catch blocks of `reclaimStale` and `poll` do. The up to three runs of
a handler are one step: `Settlement` has them one by one.

`KafkaBus` has the offset of the group (`committed`), the consumer's `position`, its
life from connecting to polling, the retries of a handler, the dead-letter topic, and
the connection that breaks at any of them. kafkajs and the broker are modelled from
their use.

### Idempotency

Requests that carry one key, in several gateway processes. A process has at most one
cache entry for the key (`cache`), and what it holds is the promise of the request that
put it there (`promise`); a promise settles once (`Resolve`), as in JavaScript. `row` is
the key's row in `idempotency_keys`: absent, reserved (`status_code` 0) or a response. A
response is the handler run that returned it, so that "the response of some handler"
can be told from a placeholder. The cache look-up and the claim (`Arrive`) are one step,
since no `await` lies between them; `Wait`, `Reserve`, `Handle`, `Persist`, `Release`,
`Poll` and `Fallback` are the awaits. `Release` goes on to `Fallback`, because the code
rethrows into the catch block of the reservation. `Expire` only sets a flag: nothing
deletes a row, and an expired one still conflicts with a reservation. The time limits
of `Wait` and `Poll` may pass at any time, and `late` records that one did.

### Lifecycle

`contract`, `assignments`, `chain`, `row` (`repo_provisioning`) are the tables, `github`
the organisation's repositories by name, `req` the requests at the gateway and `run`
the tasks of the workers. /assign, /assignment/accept and /assignment/reject are
several steps each, since a decision is read, written, appended and published by
different statements; the client's short requests are one. A runner is the handler of
an `ASSIGNMENT_*` message or one row of a sweep, and keeps the copy of the row it read
(`snap`). A statement on `repo_provisioning` may fail (`Stumble`): before the first
row is written there is then none for a sweep to find (`refused`). Attempt, name, creation, template, invitation, completion and failure are
steps of `attemptProvisioning`. All contracts have the same title, so that their
repositories compete for the same numbered names.

### Analysis, SourceMetrics, AuditRun and Verification

The first three are functions. Rates are in hundredths or as fractions, logarithms and
calibration are tables of integers given by the constants; what is kept is what the
code tells apart - a boundary, a clip, a missing value, the order of the steps. `AuditRun`
takes a world (what GitHub answers, whether there are tests, whether the sandbox is
provisioned, what its process prints and how it ends) to the audit the code saves.
`SourceMetrics` walks a syntax tree.

In `Verification` a push waits in `pushMail`, a replica audits it (`ci`) and saves it
(`audits`) before it publishes (`auditMail`); the settlement worker records the
signals and, once a freelancer is assigned, calls GET /score as `triggerScoring` does -
from the handler and from the sweep - and the gateway reads the latest audit, answers,
stamps and publishes (`scoreMail`). A chat message is checked and recorded before it is
delivered. `dismissed` counts the rejected checks that somebody has marked as not to
count: the oracle leaves them out, the score does not.

### Access

A request is a process, each of its statements a step. Sessions, tokens and secrets are
sequences, numbered by creation. `ended` and `spent` are history: the sessions an
answered change of password was to end, and the tokens whose use was answered.
`UseSpendsToken` is about the latter: a request that begins takes up none of them. Bytes of
tokens, hashing and one-time codes are abstracted to possession.

### EscrowScreens

`rows`, `outcome`, `requested`, `charged` and `declined` (orders of which an attempt
failed) are what gateway, worker and provider know; they move as `EscrowFunding` and `Settlement` say they may, at any time. A call of the
view is `Sent`, served, and answered, each a step, and two calls may be answered in the
other order. A poll (`polls`) and a funding (`checkout`) keep the contract their
callbacks closed over. A panel that is unmounted leaves its callbacks running, with
nowhere to show what they find (`Kept`). `toast` is what the user was told last, with
its contract, which is what `ToldIsSo` compares with the rows.

### Browser

`page` is the app, the page GitHub redirects to, or that page while it is being
replaced. `storedToken`, `storedDeal` and `storedTab` are localStorage, which survives a
reload; the rest does not. React runs the effects of a render before it handles the next
answer, so they are part of the action that causes the render (`Render`,
`UserBecomes`). Look-ups, sign-ins and postings in flight are sets of records; two whose
component is gone, and which are otherwise alike, are one (`Gone`). `parties` says whom
the gateway would let see a contract.

## 3. Runs

| Run | Instance | Shows |
|---|---|---|
| SettlementSafety | 2 workers, 1 request, 2 orders; capture, commit and decline may fail | `AnnouncedIsBooked`, `HandlerReleasesOnce`; implements `PaymentBook` (`BookSpec`) |
| SettlementLive | 1 worker, 2 requests, 2 crashes, 2 handler runs; publications fail | `AbandonedIsRecovered`, `RequestsAnswered` |
| Payout | 1 contract, 2 sweeps, cap 2, 1 crash, send, write, notice and announcement fail; apart from it, 2 users of the ports with 3 attempts | `NeverPaidTwice`, `CompletedIsPaid`, `CallIsOneStep`, `PayoutResolves` |
| EscrowFunding | 1 order, 2 payments, 2 requests, 1 abort; apart from it, screens with 2 contracts, 2 calls in flight, 1 interval of 2 attempts, 1 checkout, 2 orders, 3 clicks | `HeldIsReal`, `PaidIsRecorded`; `ToldIsSo`, `ReleaseIsAnswered` |
| Ledger | 2 sessions, 2 sealers, 2 calls, 2 faults, chain of 0 or 3; apart from it, 4 rows of which 2 are older than V009, 1 change | `CallAppendsOnce`, `SignatureCoversRoot`, `TreeIsSound`, `VerificationTells` |
| LedgerFork | 2 sessions, no faults | **violated** `ChainVerifies`: two entries link to one predecessor |
| Idempotency | 3 requests in 2 gateways, 1 failure (throw, database or crash) | `TakesEffectOnce`, `Answered` |
| Delivery | Redis: 2 relays, 2 consumers, 2 rows of which one cannot be published, 1 failure or crash. Kafka: 4 messages of which one is no JSON, 2 breaks | `RedisTopic`, `KafkaTopic`, `RowsDrain`, `EntriesDone` |
| Lifecycle | 2 contracts, 2 freelancers (one without a GitHub login), 2 requests at a time, 2 runners, 1 fault, 2 attempts, 2 names | `DecisionsAreFinal`, `RepositoriesAreOwn`, `ActiveIsReady`, `AcceptanceResolves` |
| Verification | 2 CI workers, 2 score requests, 2 chats, 2 pushes, 2 runs, 1 fault; the functions on every small sample | `Evidence`, `SignalsHaveAudit`, `DeliveredIsRecorded`, `ScoresKeepOrder`, `ScoreResolves`, `BacklogDrains`; `AnalysesSound`, `AuditIsMeasured` |
| HarnessFailures | the samples of test files | **violated** `FailuresReported`: a failed assertion that was not awaited is counted as passed |
| Access | 2 users, 2 identities, 2 requests at a time, 4 in all, 1 fault; apart from it, a tab with 2 people of whom one is a client, 2 contracts, 2 postings at work, 6 acts | `PasswordChangeEndsSessions`, `UseSpendsToken`, `IdentityNeverMoves`; `SessionIsWhole`, `BadgeIsOfContract` |

The violated runs each quote, in the comment of their property and in `findings`, the
line of the repository that claims what the code does not do.

**Bounds.** One contract is enough where no statement reads the rows of two; `Lifecycle`
has two, because repositories share one name space and freelancers are shared. Two
workers, sessions, requests or gateways give every pairwise interleaving of the code;
two orders, the case in which "the newest authorised order" changes between two attempts. A chain
of three entries plus two appends covers odd levels at the bottom and above it. The
bounds on crashes, faults, calls, requests, pushes and the like (`Max...` of the
"bound:" comments) are guards of the actions they bound; the theorems hold without
values for them. `MaxNesting` is 3 there, and in the theorems any depth an anchor, an object
of arrays, has room in; a payload is always nested to some depth. `MaxRetries`, `MaxAttempts`, `NameTries`,
`ScoreMaxAttempts` and `PollAttempts` are the code's own limits with smaller values. `CHECK_DEADLOCK FALSE` stands where a
behaviour ends because its calls or requests are used up. `SettlementSafety` has no
crashes, to leave room for two workers with their sweeps: a worker that has not started
its sweep yet stands in for one that restarts, and `SettlementLive` and the theorems
have crashes. `MCLifecycle`, `MCVerification` and `MCAccess` start from several states
that the system reaches by other requests, so that the bound on requests is spent on
the interleavings that matter.

**Fairness.** `Settlement`: a worker's poll loop, its start-up code and the
orchestrator's restart go on (weak fairness); nothing is assumed of gateway, customer,
provider or oracle. `Payout`: the interval timer goes on. `EscrowFunding`: an accepted
request goes on unless it is aborted, and the provider keeps redelivering a webhook
until it is answered (strong fairness, since requests come and go); aborts are bounded
and `PaidIsRecorded` claims nothing once one has happened, because a webhook recorded
but not applied is lost. `Delivery`: the relays' timers, the consumers' loops and time
go on, and a dead consumer is restarted. `KafkaBus` is checked for safety only: what
the broker does after a break is not in this repository. `Idempotency`: a request that
has arrived goes on, since each of its waits is limited; nothing is assumed of clients,
eviction, expiry or crashes. `Lifecycle`: a runner goes on and a waiting message is
taken; the sweep visits a row again and again (strong fairness, since runners come and
go); faults are bounded. `Verification`: replicas, score requests, callers, the
recording of audits and scores and the sweep go on; pushes, users and chats need not.
`EscrowScreens`: a call is served and answered or fails, and an interval goes on
ticking (weak fairness for each); nothing is assumed of the user, the worker or the
provider, so that the answer to a request may well be that nothing has been released yet.
`Ledger`, `Access` and `Browser` have no liveness property: how long a leaked lock blocks depends
on the pool's time-outs, and a request of `Access` may end at any step.

## 4. Proofs

The theorems rest on the assumptions about the constants that the modules name and TLC
evaluates on every run: `ConstantsAssumption`, or `ApiAssumption`, `KafkaAssumption`,
`NoneIsNoRecord` (`Lifecycle`), `VerificationAssumption` with `AnalysisAssumption`,
`AccessAssumption`, `AuditAssumption`, `ScreenAssumption` and `BrowserAssumption`. They say
that bounds are numbers and that a null is none of the values it stands beside; the only ones
beyond that are that payloads are JSON values or what a caller takes for one, the fewer poisonous rows than a batch of `Delivery`, which is the code's limit, the
finitely many chat messages of `Verification`, which it counts, and what `Analysis` says of
its tables: the rules of the rule file are finitely many, calibration, gains and threshold
are whole numbers, and a residual with more of the calibration above it gains no more -
the logarithm of a power with a negative exponent falls. Numbers of processes, contracts, requests, attempts,
faults and crashes are arbitrary. Each proof follows one argument: an inductive invariant,
one lemma per action or group of actions, and the theorems as consequences.

**SettlementProofs**: `TypeCorrect`; `NothingReleasedUntaken`, `BooksAgree`,
`CompletedHasPayment`, `AnnouncementsTrue`, `HandlersReleaseOnce`; `Refinement`
(`Spec => BookSpec`). `IInv` adds what the program counters stand for: a fiber past the
start of its loop has a contract and, before commit, an order of that contract
(`LocalsOK`); a fiber at `commit` holds a captured payment (`CommitsCaptured`); a fiber
at `publish` is about a settled contract (`PublishesBooked`). `HandlerOwnsCapture` is
the core of `HandlerReleasesOnce`: a handler is at `commit` only if its own capture took
the money, so no other handler is there with the same payment and no entry of a handler
for it exists. None of the invariants is inductive without them. For the refinement
every action is shown to be `Take`, `Release` or a stutter of `phase`; that a release
comes after a take is `CommitsCaptured`.

**PayoutProofs**: `PaidOnce` (`NeverPaidTwice`), `CompletedWasPaid` (`CompletedIsPaid`),
`TracesFirst` (what was sent to the provider is marked on the row, and nothing is
attempted before the freelancer has an account). `IInv` says that all payouts of a contract
have the contract's one key (`OneKey`), that an answer a caller holds is true of the
provider (`AnswersAreTrue`), and that a caller past its first steps has an account and
has marked its row (`CallersOnboarded`, `CallersMarked`). `CallsAreAtomic`
(`CallIsOneStep`) is about `PaymentApi`: all payouts of a contract carry one header
(`OneHeader`), and at every attempt of a call what it reports is in effect, and what it
has done is reported or known to be in doubt (`CallTells`); that effects are never undone
(`EffectsStay`) keeps the calls of the other users true.

**EscrowProofs**: `MoneyIsHeld` (`HeldIsReal`), `ChainedOnce` (one chain entry per
authorisation, and every announcement has one), `PayableHasRow` (an order a customer can
pay has its row), `RowsNeverBack` (a row never returns to an earlier status). `IInv`:
what requests and messages say of a payment is true (`LocalsAreTrue`, `MessagesAreTrue`,
`PaidByIsReal`), an order offered has its row (`OffersHaveRows`), and of the requests
that try to authorise a row one wins (`OneWinner`). `WhatIsToldIsSo` (`ToldIsSo`) is
about `EscrowScreens`. A reading says what was so when it was served; the invariant
(`ScreenInv`) says what is *still* so when it arrives: a reading of RELEASED is of a
contract with a released row (`CallFits`), a verified payment is charged and its row no
longer pending (`FundFits`). That these survive any number of steps of the others is
`RowsOnlyMove`: a row never returns to PENDING, and never leaves RELEASED. That a row not
pending shows the money, or an attempt of its order failed, is `OneRowFails` and
`FailedWasDeclined`.

**LedgerProofs**: `AppendedOnce` (`CallAppendsOnce`), `LinksAreCommitted` (an entry
links to committed ones), `EntryHasEvent` (an entry and its outbox row come together),
`SignatureIsOfRoot` (`SignatureCoversRoot`, which is inductive by itself). `IInv`: ids
are drawn once (`IdsDrawn`), a tail that was read is committed (`TailCommitted`), two
sessions serve two calls (`CallsApart`), a draft belongs to its session's call
(`DraftOfCall`), and the steps come in order (`StepsInOrder`). That the chain does not
fork is not among them: `LedgerFork` refutes it. `TreesAreSound` (`TreeIsSound`) is about
the tree over the chain, and rests on three theorems about `Merkle` for any list of
leaves: two lists with one root are one list (`RootDeterminesLeaves`), the proof built for
a leaf proves a leaf under the root exactly if it is equal (`PathProvesItsLeaf`), and
whatever a proof proves is a node of the tree (`ProvedIsInTree`). The argument for the
first goes by the height: a root is a term, and a tree with more leaves than another of
its root would have a leaf where the other has a node (`TooDeep`), so that the heights
agree, and the levels agree downwards from the root (`SameBelow`). The values of the
recursive functions come from their existence (`RecursionExists`: all beginnings exist and
agree) and induction is over sets of numbers (`Induction`, from the least number of a set).
That the leaves are distinct is `IdsAreApart`: no id is used twice in the chain, drafts
included, which takes that a session holds a draft of its own.

`VerificationIsTelling` (`VerificationTells`) is about `ChainAudit`, for any payloads, any
number of rows before and after V009 and any number of changes. `AuditInv` says what the
ledger wrote (`Chain`: each row numbered by its place, linked to the one before, new ones
hashed over the text of what is stored), that the rows from before V009 come first
(`OldRows`), what an anchor and a stored root were made over (`SealedAsWritten`), and that a
changed row still says which row it is and has a text if it had one (`RowsKept`). The rest
follows from three facts: a root says all of the rows under it (`RootSays`, by
`RootDeterminesLeaves`), a hash says its text, and a text says its payload. The last is
`OneTextForOneValue`: two JSON values have one canonical text exactly when they say the
same. One direction is induction on the depth (`SameWritten`). The other is unique
readability: of two texts that begin with the text of a value, continued in any way, both
values say the same and the continuations are equal (`Readable`). It goes by induction on
the depth and, within an object or an array, on the number of pieces up to the closing mark
(`ListsRead`), from what a first token tells (`OpeningTells`, `PieceBegins`). Keys come in
one order because code units order them totally (`KeysOrdered`, `InOrderIs`).
`StoredValueHasItsText` is why honest rows verify: what jsonb makes of a payload, at every
depth (`StoredTo`), has the payload's text.

**BusProofs**: `KafkaImplementsTopic` (`KafkaTopic`) and `RedisImplementsTopic`
(`RedisTopic`): the initial states map to initial states, and every step is a step of
`Topic` or a stutter. For Kafka what has to be known is that committed offset, position
and end of the log are in this order (`PositionInLog`), and that whatever the consumer has
passed since it joined was handled or parked (`PassedIsDone`), so that a commit settles
nothing that is still owed. For Redis it is `GivenIsOwed`: an entry the group was given is
pending, or was handled or parked, although entries change hands between consumers, and a
consumer acknowledges only the latter.

**LifecycleProofs**: `OneWinner` (`DecisionsAreFinal`), `DecisionsStay` (the same as an
action property: no step takes a decision back), `NobodyElsesRepository`
(`RepositoriesAreOwn`), `ReadyWhenActive` (`ActiveIsReady`), `TypeCorrect`. The gateway's
half of the invariant (`GInv`): a request that has decided an assignment and not yet
recorded it is the only one to hold that decision, and the chain does not have it
(`HolderOk`, `RequestsOk`); what the chain says was decided was (`LedgerTells`). The
workers' half (`WInv`): a repository at GitHub belongs to the contract whose row has its
name (`GitHubOk`), and what a runner's copy of a row says of GitHub is still true when
it acts on it (`RunnerOk`), however many runners work on one row - which is why the copy
may be stale in everything else. `ActiveIsReady` is not inductive without it: `activate`
tests nothing, it relies on the steps before it.

**AccessProofs**: `ChangedPasswordEnds` (`PasswordChangeEndsSessions`), `SpentForGood`
(`UseSpendsToken`, from `SpentIsClosed` and what each arrival takes up), `NobodyIsNobody` (sessions, tokens, credentials and identities name
accounts that exist), `IdentitiesStay` (`IdentityNeverMoves`). `IInv`: what a request has
seen are sessions of its own account without the caller's (`SeenAreOwn`), a token it holds
is a row that cannot be redeemed again once the request has marked it (`HoldsToken`). The
other requests do not disturb that because sessions only end, tokens only close and
accounts stay (`SessionsOnlyEnd`, `TokensOnlyClose`, `AccountsStay`). About `Browser`:
`TabHasOneSession` (`SessionIsWhole`) from `OneToken` - while a stored token is being
looked up nobody is signed in and nobody can be signing in - and `BadgeIsRight`
(`BadgeIsOfContract`) from `BadgeFollows` - a look-up that was not cancelled is about the
contract on the screen.

**GatewayProofs**, about `Idempotency`: `EffectOnce` (`TakesEffectOnce`), from `OneWinner` -
while nothing has failed and no wait has been given up, one request owns the reservation;
`AnswersWereReturned` (whoever is answered gets what a handler returned, or an error);
`ClaimsAreReleased` (with no request in progress and neither database nor process
failed, no reservation is left behind and no cached promise is pending). About
`Verification`: `ApprovalHasEvidence` (`Evidence`), `SignalsAreOnRecord`
(`SignalsHaveAudit`), `NewestScoreStays` (`ScoresKeepOrder`), `DeliveriesAreRecorded`
(`DeliveredIsRecorded`). What a CI run publishes and an event says is in `audit_results`
(`PipeInv`); a score on its way, and the one the oracle has, is that of an audit on
record under scope checks on record (`ScoreInv`, `Earned`), which stays true because rows
of the two tables are added and never changed (`Kept`). Nothing is assumed of the
telemetry there: neither its type nor the measures in it. About the score of `Analysis`,
for all telemetry of the shape the request demands in which no more tests passed than
there were (`Counted`), and any scope checks: `ScoreInRange` (0 to 100), `ScoreGrows` (no
worse run scores more), `FullMarks` (a run without a fault has 100) and
`ThresholdIsDemanding` (85 takes 62 % of the tests, a maintainability of 40 and a security
score of 25). They are about exact quotients of whole measures, halves rounded up; the code
computes in floating point and maintainability has a fraction, so that a term at a half may
differ by a hundredth. They rest on lemmas about rounded quotients (`DivIs`, `RoundedGrows`,
`RoundedCancels`) and on the largest value of each term (`TermMaxima`). With `Evidence`
they give `ApprovalIsDemanding`: an approval goes back to an audit on record that was
worth that much, unless its counts do not add up. For the chat the counts of rows and deliveries are compared with the
messages answered and not yet delivered (`ChatInv`).

About `AuditRun`: `AuditsMeasure` (`AuditIsMeasured`), for every push and every world whose
repository, suite and findings are sequences and whose cases are of the six kinds the
harness tells apart (`IsWorld`), however many there are; TLC's samples are such worlds
(`SamplesMeasure`). It follows the run backwards from the audit: what the harness prints
counts each case of the suite that is not skipped, or none (`CountsAre`, from its loop,
`CasesCounted`), and is what the audit says unless the pushed code printed such a line
before (`FirstLineCounts`), a scan has all that the rules find and what the model finds elsewhere
(`FindingsAre`), and a filter keeps what stands at the places asked for (`FilteredIs`).
About the drift detector: `AlarmsStay`, for conversations of any length, by induction on the
number of residuals (`DetectorIs`, `BeginningAgrees`); that a larger residual gains no less
is counted in the calibration (`GainGrows`). The loops of harness and detector are written
as recursive functions of the number of turns, whose existence is proved (`Recursion`)
by `Induction` on a set of numbers.

Only model-checked, and why:

* all liveness (`AbandonedIsRecovered`, `RequestsAnswered`, `PayoutResolves`,
  `PaidIsRecorded`, `ReleaseIsAnswered`, `Answered`, `RowsDrain`, `EntriesDone`,
  `AcceptanceResolves`, `ScoreResolves`, `BacklogDrains`): fairness and ENABLED are outside
  the provers' reach;
* `AnalysesSound` as a whole, a statement about every small sample of the functions of
  `Analysis` and `SourceMetrics`. Of its parts, `AlarmStays` and the range and the growth of
  the score are proved; that only a faultless run has 100 holds of the samples and not of
  every run (section 6); what the scope term adds, the chunker (a fold over sequences of
  sequences) and the syntax trees are left to TLC.

## 5. Not modelled

* Text and numbers the properties do not tell apart (amounts, currencies, titles),
  logging, metrics, configuration, type declarations, manifests.
* Of the web application: the lists and notifications, the streams of the verification
  dashboard, the freelancers' views, a second tab, layout.
* The isolation of the sandbox; the Docker sandbox's own cloning, which the worker never
  uses; the patterns of the security rules.
* Embeddings, retrieval, matching and generation: numerical, or calls of models, whose
  answers are left open.
* Signature checks of webhooks and of checkout, token bytes, rate limits, waiting times
  between attempts, partial refunds.
* Routes that only read: `/mine`, `/owned`, the ledger and audit views, the reads of
  `auth.ts` (338-370, 1018-1074).
* Trimming of a stream, entries without an envelope, consumer groups of Kafka with
  several partitions.
* KYC, e-mail and notifications, but for the payout account: one row or one call each.

`components` in `PROJECT.json` gives the state of each part.

## 6. Observations without a run

Met while modelling; the models do what the code does, and the properties are stated so
that they are true of it.

*Settlement and payments.* The start-up sweep takes rows that are in flight, and books
them a second time (`worker.ts:1289`, against the comments at 1188-1190 and in
`infra/k8s/08-settlement-worker.yaml:8-13`). A settlement that failed after its capture
is FAILED for good: recovery looks for PROCESSING only (823, 735-742, 1289-1291). A
refusal that follows a lost attempt hides that the lost one took effect
(`razorpay-adapter/src/index.ts:428`); recovery asks the provider (1233-1242), the live
handler does not (1130). A body that is cut off after good headers, and a good answer that
is no JSON, are thrown without another attempt. An order that is created again after a
lost answer leaves one behind. The fakes forget payouts when the process restarts. The
cap on payout attempts is tested against a number read with the list (1007), and payouts
that are merely queued use up attempts. A settlement that was committed and whose
SETTLEMENT_COMPLETED could not be published is marked FAILED (1157, 1172-1174): its payout
is not attempted (1169) and no sweep selects it (993), so the freelancer is never paid.

*Funding.* The `payment.failed` of one attempt makes the whole order FAILED
(`webhooks.ts:213`). A later authorised attempt finds it so: the updates of the webhook
(190) and of /escrow/verify (`contracts-escrow.ts:232`) match no row, `payment_id` stays
NULL, and the payment is held and never captured. /escrow/verify answers 200 AUTHORIZED
all the same, so that the panel announces an escrow that the gateway does not show.

*Webhooks and idempotency.* A Razorpay webhook is answered 200 although its
deduplication row could not be inserted (`webhooks.ts:178`, `context.ts:243-245`). A
handler that throws is run again in the same request (`idempotency.ts:128`, 148-150,
against 121-122). The webhook ingest does not recognise a GitHub delivery it has seen.

*Bus.* A Kafka group without a committed offset starts at the end of the log, also after
a restart (against the comment of `sendToDlq`, `event-bus/src/index.ts:613-622`); topics
whose creation failed count as ensured.

*Verification.* A score is stamped when it is answered, not when its audit was read, and
may overtake that of a newer audit (`contracts-audit.ts:515`; `worker.ts:236-238` drops
by the stamp). A declined score exhausts the attempts, so an assignment made later is
not scored by the sweep (`worker.ts:205`). A demo audit may follow a real one
(`contracts-audit.ts:287-298`). An audit may be saved and not published
(`audit-store.ts:11-13`). The row's `passed` and the oracle's signals use different tests.
`_validate_telemetry` refuses "inconsistent counts" (`xai.py:142-143`) of findings, not of
tests: `passed_tests` may exceed `total_tests`, and a score then 100. Of more than
8000 tests the rounding hides one that failed: the score is 100.00.
The CI handler acknowledges whatever it caught. A sandbox run that is killed after it has
printed its summary keeps its counts; files GitHub does not return are left out in
silence (`fetchSource`, 146-148); `countSourceLines` counts lines of a block comment that do
not begin with `*`. The last chunk may be longer than the chunker's "hard max". Two
replicas of the scope guard may number checks out of order (`main.py:236-240`);
`update_trust_score` answers True although no row matched, and stores 0-100 where the
matchmaker clips to [0, 1].

A rejected scope check that was dismissed does not block an approval
(`oracle/src/index.ts:123-131`) but still lowers the score (`scope_log.py:144-149`). No
migration creates `scope_checks.dismissed` (`RESEARCH_PAPER_RESULTS/16_DEFECT_TRACKING/critical_defects.md:3-12`),
and nothing in the repository sets it: on a database built by `infra/migrations/postgres`
alone, `evaluate` throws and every settlement is refused (`worker.ts:1079-1089`). The models
take the column to be there and somebody to set it. The sandbox's standard output is
shared by harness and pushed code (`docker-sandbox.ts:249-250`,
`node-permission-sandbox.ts:168-186`), and `parseTestOutput` takes the first line with
counts (`sandbox/types.ts:109-138`): code that prints such a line itself is audited by its
own line, and "passes only if it ran every case" holds of other code only.

*Ledger.* A row whose `hash_version` is set back to 1 is counted as unverifiable, not as
altered. The last entry of a chain may be changed together with its hash, and `verifyChain`
passes: only a stored root tells. So is a row from before V009 whose payload was altered and whose `current_hash`
was kept: the anchor is made over the stored hashes and stays intact, although
`legacy-anchor.ts:133-135` says that "altering a legacy row is detectable".

*Lifecycle.* /assign overwrites `freelancer_id` before an insert that may be refused, and
reject clears it after its own update (`contracts-lifecycle.ts:458`, 855), so that "one
decision pending" and "one accepted" (428-430, `V022:8-11`) are not invariants. A
contract may stay short of ACTIVE although its provisioning is COMPLETE
(`worker.ts:636`), also when a slower attempt marks it FAILED (706). An acceptance whose
append fails is never provisioned. Nor is one whose provisioning row cannot be written: the
error of the database, or of names that are all taken, is logged and the message
acknowledged (`worker.ts:409`, 570-583), and the sweep visits rows only; nor one whose
message went to the dead letters. The anchor H0 is usually CONTRACT_ASSIGNED, not
CONTRACT_LOCKED as in V024. The webhook ingest prefers statuses nothing writes.

*Access.* Two forgotten-password requests that overlap leave two live tokens (against
`auth.ts:529-530`). Two requests that overlap with one token both use it: the token is read,
the password set and the token marked by three statements (`auth.ts:578-593`), against
"single-use" (`auth.ts:558`, `V025:9`). A login that verified the old password before a
change gets its session after the revocation and keeps it (`session-store.ts:86`). Enrolment and verification of a second factor that overlap may leave
the flag without an active secret (against `mfa-store.ts:7-9`). The transactions of
`mfa-store.ts` are one step each.

*Web.* A look-up of the stored token that fails clears the token only
(`AuthContext.jsx:51-55`), and `App` does not count that as a sign-out
(`App.jsx:112-119`), so that the next person to sign in finds the previous one's contract
on the screen, against the comments at `AuthContext.jsx:16-23` and `App.jsx:102-111`. An
answer of /lock that arrives after a sign-out puts the old contract into the next
workspace. On the page GitHub redirects to, the exchange and the look-up of an older
token run at once, and a look-up that fails after the exchange clears the new token
(`AuthContext.jsx:33-58`, `GithubCallback.jsx:31-34`). After a reload the badge is asked
for before the token is restored, and stays "unknown" (`useLedgerStatus.js:27-43`). The
tab "contracts" shows a freelancer nothing. In `EscrowSettlementView` a change of the
contract under a mounted view leaves `isReleasing` set, a reading of the contract before
may replace that of the new one, ticks that overlap may end another request's interval, an
old FAILED record is reported at once for a new request, and a FAILED row offers no way
to fund again. In the panel a Checkout script that loads without defining
`window.Razorpay` leaves the next attempt waiting for ever, a success that follows a
failed attempt in the same modal is not verified by it, a stale panel can create a second
order for a funded contract, and `handleResume` is not busy while its order is fetched.

## 7. What is left

In the order of what it would add: a composition of `Settlement` with `Verification`'s
oracle in place of an answer left open; Kafka groups of several partitions.

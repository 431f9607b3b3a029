# BuildLabs: a TLA+ model

BuildLabs (the `src/` tree) takes software requests by mail, sells and builds
them.  An *orchestration* service talks to customers, takes payments and
splits a project into build assignments; a *build backend* carries out each
assignment as a **run**: an agent writes a candidate in a Daytona sandbox, the
candidate is frozen and verified in two fresh sandboxes, and only a candidate
with a complete set of receipts is announced to the orchestrator, which shows
it to the customer as a preview, revises it, releases it and hands it over.

This directory holds TLA+ modules of both services, from the intake of a
customer to the completed project on one side, from a submitted assignment to
the announced candidate on the other; the TLC configurations that check them;
and theorems checked by TLAPS.

## 1. Inventory

| component (source under `src/src/`) | state | operations | interacts with |
|---|---|---|---|
| Run store (`adapters/sqlite/run-store.ts`, `migrations.ts`) | tables `build_runs`, `slot_leases`, `evidence_receipts`, `proven_artifacts`, `outbox`, `run_events` | `createRun`, `acquireSlot`, `heartbeat`, `releaseSlot`, `startRun`, sandbox columns, `setRevision`, `addEvidence`, `recordArtifact`, `markPassed`/`markTerminal`, `requestCancel`, outbox queries and acknowledgement, `recoverInterruptedRuns`, `markRecoveryCleanupComplete`, `listEvents` | called by all parts of the backend; one SQLite transaction per call |
| Build scheduler (`application/build-scheduler.ts`) | active executions, their abort controllers, poll and heartbeat timers | `start`, `wake`, `#dispatch`, `cancel`, `stop` | store; starts executor |
| Build run executor (`application/build-run-executor.ts`) | per run: repair round, sandbox handles, two concurrent halves | `execute`, `#verifyRevision` | store; sandbox provider, agent, reviewers, evaluators |
| Proof gate (`application/proof-gate.ts`) | none | `decideProof` | read by executor and by `markPassed` |
| Startup recovery, shutdown (`application/run-recovery.ts`, `index.ts`, `production-index.ts`) | none | recovery before the API listens; SIGTERM, SIGKILL after 30 s | store; provider; scheduler |
| Daytona provider (`adapters/daytona/*`) | permits and lines of the acquisition queue; sandboxes; timers of previews, turns of requests about one event | `acquire`, `create`, `createVerifier`, `materializeFrozenPreview`, cleanup | executor, recovery, build API |
| Candidate checks (`agent-runner`, `verification`, `contract-evaluator`, ...) | none durable | commands, preview, review, evaluation | executor |
| AG-UI event stream (`http/ag-ui.ts`) | per connection: cursor, progress so far, active streams | `createBuildRunAgUiHandler`, `streamBuildRunAsAgUi` | run store; clients that come back with `Last-Event-ID` |
| Build API (`http/server.ts`) | none | submit, cancel, acknowledge outbox | store, scheduler |
| Orchestration store (`orchestration/adapters/sqlite/orchestration-store.ts`) | projects with a version, inbox of events, mail envelopes, access tokens | compare-and-swap save, inbox de-duplication, stage / claim / complete / fail envelope | orchestration agent, mail recovery |
| Orchestration agent (`orchestration/application/orchestration-agent.ts`) | project aggregates, durable effects, an executor that serialises by project | customer messages, payments, builds, previews, deployment, delivery, reconciliation | store, payment, mail, build and deployment providers |
| Inbound mail recovery (`orchestration/http/inbound-mail-recovery.ts`) | envelopes | accept, recover, discard | orchestration store and agent |
| Reconciliation worker (`orchestration/runtime/reconciliation-worker.ts`) | cursor, timers | page through projects, receive their mail, reconcile each | orchestration agent, mail recovery |
| Fly deployment adapter (`orchestration/adapters/build/fly-cli-deployment.ts`) | none durable; the app, its releases and machines are at Fly | `deployProvenArtifact`: preflight, creation of the app, `flyctl deploy`, wait for the release, health of every machine, receipt | called by the orchestration agent in the turn of a project; spawns flyctl |
| Winner selection and other pure policies (`orchestration/application/*`) | none | functions over documents | orchestration agent |
| Clients of external services, dashboards, studio, scripts | no durable state of the product | - | - |

What is hard, and what makes each part correct:

- **Run store.** Many transactions, in any order and from processes that may
  have lost their lease, build up one proof.  Correct: statuses only move
  forward; a run passes only with the complete proof of one revision, which no
  later write takes away; a lost lease stays lost; recovery forgets no run.
- **Scheduler and executor.** Every `await` is a point where a cancellation, a
  timeout, a lost lease, a shutdown or a crash may come, and `withAbort` lets
  the outer half of an execution overtake its own body.  Correct: one valid
  lease per run; what was given up writes nothing; each sandbox is disposed of
  by exactly one of the two `finally` clauses or kept for a passed run; every
  run reaches a terminal status.
- **Recovery.** Deletes fail, recovery itself is interrupted.  Correct: a
  cleanup is recorded only when it was done, and retried otherwise.
- **Daytona provider.** A permit, an abort and a release race; a request that
  throws half way has a permit and perhaps a sandbox; a preview's timer takes
  no turn.  Correct: limits are kept and no permit is lost or idle; what was
  made and not handed out is deleted; nobody deletes what another was given.
- **AG-UI stream.** The status of the run and its events are read apart, and
  connections break.  Correct: no event is skipped or repeated, snapshots are
  consistent, the stream of a run that is over ends.
- **Orchestration store, mail recovery, reconciliation.** Webhooks are repeated
  and reordered, claims expire while the work goes on.  Correct: each event is
  applied once, none is lost.
- **Orchestration agent.** Provider calls are not transactional with the save
  of the aggregate, and what was read before a call is used after it, while
  customers write and pay.  Correct: an effect is neither lost nor repeated
  once it took effect; nothing is built that is not paid for in the form in
  force; nothing is released that the customer was not shown; the customer is
  heard before anything is begun; every project comes to rest.
- **Fly deployment.** A command runs for minutes, its result may be lost, and it
  goes on when its attempt was given up.  Correct: a receipt speaks of what
  really runs, no candidate is released twice over, production does not fall
  back, the attempts come to an end.

`PROJECT.json` lists every hazard at its line, with the properties that catch
it or the reason why none does.

## 2. Modules

| module | what it is |
|---|---|
| `RunLifecycle` | what the backend promises of a run: submitted, started and ended at most once, never passed after a cancellation request, announced only if passed |
| `RunStore` | the SQLite store; one action per transaction |
| `BuildWorker` | scheduler, executor, startup recovery and shutdown, composed with `RunStore` (`Store == INSTANCE RunStore`) |
| `AcquisitionQueue` | the permits of `DaytonaRoleAcquisitionQueue` |
| `SandboxProvider` | the requests for sandboxes and previews, composed with the queue (`Queue == INSTANCE AcquisitionQueue`) |
| `RunEventStream` | the AG-UI stream of one run and its clients |
| `InboundMail` | the mail of one project: envelopes and inbox of the orchestration store, `InboundMailRecovery`, `receiveCustomerMessage` and the executor that serialises a project |
| `DurableEffects` | the life of a durable effect of the orchestrator: queued, attempted, rescheduled, completed, dead-lettered |
| `ProjectCommerce` | a project from the stored intake to the first build: proposals, Checkout Sessions, edits, payment |
| `ProjectDelivery` | a project from the verified payment to its completion: builds, previews, revisions, release, hand-over |
| `DeliveryPromise` | what the orchestrator promises the customer of a paid project |
| `FlyDeployment` | how a candidate becomes the production release of its Fly app: the adapter's attempts and the provider |
| `MC...` | the instances of these for TLC |
| `...Proofs` | theorems about `RunStore`, `BuildWorker`, `SandboxProvider` (and in the same module its `AcquisitionQueue`), `RunEventStream`, `InboundMail`, `ProjectCommerce`, `FlyDeployment` and `ProjectDelivery` (with what `DeliveryPromise` comes to) |

```
 RunLifecycle <-- RunStore <-- BuildWorker        RunEventStream
                  (implements)  (implements,
                                 uses)
 AcquisitionQueue <-- SandboxProvider
                      (uses, implements)
 DurableEffects <-- ProjectCommerce
       ^----------- ProjectDelivery --> DeliveryPromise
                    (uses)              (implements)
 InboundMail                                      FlyDeployment
```

`BuildWorker` changes the tables only through `Store!` actions, and implements
`Store!Spec`, which in turn implements `RunLifecycle!Spec`.  `SandboxProvider`
changes the queue only through `Queue!` actions.  `ProjectCommerce` ends where
`ProjectDelivery` begins; to `ProjectDelivery` a run of the backend is what
`RunLifecycle` says of it: it ends once, and is announced if it passed.
Both see the mail of a project as `InboundMail` leaves it: a message that was
staged fences the project until it is processed.  The deployment of
`ProjectDelivery` is one call with an outcome; `FlyDeployment` is what happens
inside it, attempt after attempt.

### Conventions

A definition that carries the name of another with a suffix
(`Expire_KeepsLink`) is a faulty variant: the code with a plausible mistake.
With it in place of the original, TLC finds the property violated that
`PROJECT.json` names, which shows that the property depends on that code.  It
is used for nothing else.

### `RunStore` and the code

A row of `build_runs` is spread over functions on `Runs`, one per column that a
later operation decides on; the other tables are functions or sets likewise.
Names are those of the columns (`status`, `cancelRequested`, `builder`,
`verifier`, `purpose`, `sandbox`, `revision`) and of the methods (`AcquireSlot`
for `acquireSlot`).  An operation that throws rolls its transaction back, so
refusals are stuttering steps and only the accepting path is an action.

- `evidence[r][v][k]` is what `decideProof` would read of kind `k` for revision
  `v`: the latest verdict, or for the authoritative review `"multiple"` once
  there are two.  Receipts are ordered by their own `completedAt`, not by
  insertion, so `AddEvidence` takes `newest`, any Boolean.
- The digests a receipt must agree on are data and left out; `LatestKinds`
  stands for the kinds of receipts of which the latest counts.
- The clock appears as `expired[s]`: `lease_expires_at` of a slot has passed.
- `run_events` is part of `RunEventStream`, its only reader; `stage` is left out.
- Clients are unconstrained: any lease of any shape may call any operation.

### `BuildWorker` and the code

The process is one event loop.  What runs between two awaits is atomic with
respect to other handlers, but not with respect to the clock or a crash.  A
step therefore ends one await and makes at most one transaction; where a
handler makes several (`wake`'s loop over the listed runs, `abort` followed by
the catch clause), `LoopIsFree` keeps the other handlers out until it is done.

| TLA+ | code |
|---|---|
| `process` | down / recovering / listening / after SIGTERM |
| `batch`, `dispatching` | position in the loop of `wake()` and the lease it just acquired |
| `active` | `BuildScheduler.#active` |
| `body[r]` | where the function passed to `trace.run` waits |
| `outer[r]` | where the code around it is: waiting, flushing, in the catch clause, in the finally clause |
| `aborted` | runs whose `AbortSignal` fired |
| `held[r]` | `builderSandbox`, `commandSandbox`, `deliverySandbox` |
| `live` | sandboxes that exist at the provider |
| `attached` | sandboxes that a `sandbox.*_attached` event names |
| `doomed`, `undeleted` | the deletes of a recovery still running, and those that failed |

Decisions worth knowing:

- An execution has two halves.  `withAbort` rejects as soon as the signal
  fires; the body is not stopped, it goes on until a store call refuses it.
  All interleavings of the two halves are explored.
- `Promoted` and `HandedOver` are two steps, since `await source.cleanup()`
  stands between the promotion and the assignment of
  `retainedVerificationSandbox`.
- A create that is aborted cleans up after itself: the control plane deletes
  what it created.  A crash during a create may leave the sandbox behind
  (`BeingCreated`).
- Disposal by a live process is assumed to succeed; a dispose that hangs is not
  modelled.  Deletes of the startup recovery may fail.
- `recoverInterruptedRuns` runs twice at each start (`Recover`, `Start`), as in
  `index.ts` and `BuildScheduler.start`; the second call ignores its result.
- All command receipts are one kind, and so are the raster and the contract
  evaluation: nothing reads the store between them.

### `InboundMail` and the code

A *mail* is one signed notification of the provider; two notifications may
bring the same message (`MessageOf`).  Its path: the webhook stages an envelope
and runs `#processReady`, as do the reconcile route and the reconciliation
worker.  An activation claims the envelopes that are ready, retrieves each from
the provider, waits for the turn of the project, saves the message together
with the inbox row, processes it and completes the envelope.

| TLA+ | code |
|---|---|
| `status`, `attempts`, `lastError` | columns of `orchestration_inbound_mail_envelopes` |
| `due` | `next_attempt_at` is NULL or has passed: the envelope may be claimed |
| `inbox`, `messages` | rows of `orchestration_webhook_inbox`, messages of the aggregate |
| `project` | what `project.status` means to a new message: accepted and processed, accepted only (`recoveryBlocked`), refused |
| `pc[h]`, `current[h]`, `batch[h]` | where an activation of `#processReady` waits, its envelope, the attempts of the envelopes it claimed as they were then |
| `aborted` | its `AbortSignal` fired |
| `queue` | the promise chain of `ProjectSerialExecutor` for the project |

Decisions worth knowing:

- `claimPendingInboundMailEnvelopes` is a lease of 30 s and nobody checks it
  again.  So an activation goes on with an envelope that another one has
  claimed, completed or failed, or that the operator resolved; `Complete` and
  `RecordFailure` do exactly what the store then does.
- The deadline of the worker (`Abort`) gives an activation up but does not stop
  it: it throws at its next `throwIfAborted`, or ends what it is doing.
- What a retrieval returns, and whether the mail is acceptable, is a choice
  among the outcomes of `classifyInboundFailure`: transient, or permanent with
  status `failed` or `rejected`.
- `attempts` is only compared with the limit, so it stops counting there.
- The rest of the orchestrator appears as `ProjectMoves`: any change of status
  in a turn of its own.  Processing itself does not close the project here; it
  would not matter to a message that is saved.
- A second notification with the same event id and another digest, and a known
  message id with other content, are refused by the code; the first is left
  out, the second is `Refused`.

### `SandboxProvider`, `AcquisitionQueue` and the code

A *request* is one call of `create`, `createVerifier` or
`materializeFrozenPreview`; a *ticket* is one call of `acquire`.

| TLA+ | code |
|---|---|
| `active`, `pending`, `lease`, `aborted` | `#active` and `#pending` of `DaytonaRoleAcquisitionQueue`, what became of the promise of `acquire`, the signal |
| `req[r]` | where the request waits, its attempt, the sandbox it works on, and whether it made that sandbox itself |
| `chain[e]` | `#frozenPreviewOperations`: the requests about one proven event, which take turns |
| `boxes` | the sandboxes at Daytona; those of an event are numbered in the order they are made |
| `timers`, `cleaning` | `#frozenPreviewCleanupTimers`, and the deletes they have begun |
| `handed` | what a caller was given; a preview until its URL expires |

A preview of an earlier life of the process may be there from the start,
without a timer (`Init`).  A call of Daytona fails by itself or because the
signal of its request is used.  Sessions in a sandbox (commands, files,
freezing), readiness reports and `close()` are left out.

### `RunEventStream` and the code

One run, its events, and clients that connect, break off and come back.  A
step of the generator `streamBuildRunAsAgUi` is one read of the store or one
message that is sent; between any two, `GoesOn` may append an event.

| TLA+ | code |
|---|---|
| `events`, `last` | the rows of `run_events` of the run, and the one that came with its terminal status |
| `stream[c]` | the generator that serves a client: `cursor`, the rest of the page it replays, `tally` for `progress` and `proof`, `over` for `run.status` as read last, `reads` for `stabilizationReads`, `first` and `fresh` for `emittedSnapshot` and `emittedRunUpdate` |
| `client[c]` | what the client received: the id of the last message, how often each event, the last snapshot, the end |

Decisions worth knowing:

- Every transaction that changes a run appends an event, and none does once
  the run is terminal; so the terminal status and the last event appear
  together.  The one-time migration that quarantines old rows is left out.
- The generator is suspended at every message it yields.  In one process
  nothing comes between the read of the run and the read of the events after
  it; the model lets another connection write there too.
- What is yielded is delivered; a message lost on the way is a connection that
  broke before it was sent.  A keepalive repeats the id the client has.
- The activity snapshot is part of the state snapshot; whether an artifact is
  available is read apart from both and left out.

### `DurableEffects`, `ProjectCommerce`, `ProjectDelivery` and the code

`ProjectSerialExecutor` gives the operations on one project a turn each, so a
state has one operation `op`, with the stored aggregate as its local copy: one
step is what lies between two waits, with the save it makes.  While the
operation waits for a provider (`op.call`), the world goes on: mails arrive,
the customer pays, sessions lapse, runs end, deadlines pass, the process dies.

| TLA+ | code |
|---|---|
| `project` | the aggregate: status, version in force, batches, sessions, receipts, messages saved and consumed, effects |
| `project.eff[k]` | a `DurableEffect` under its effect key: status, attempts, whether it waits for a retry or a check |
| `op.at`, `op.then` | where the operation is, and where it goes on after the messages of the customer are dealt with |
| `op.replay` | whether a repeated webhook of the payment began the operation |
| `op.key`, `op.call` | the effect that is charged when the wait ends in an error, and whether it is asked for an answer or to act |
| `inbound` | the unresolved envelopes of the project, which fence what a mailed customer must be heard before |
| `stripe`, `links` | Checkout Sessions as Stripe has them, and those whose link was mailed |
| `backend`, `outbox` | the runs of the build backend and its proven events |
| `outside` | previews, releases and final mails the customer has seen |
| `clock` | deadlines of the active batch that have passed |

A call of a provider may act and lose its answer (`"lost"`), fail in a way
that is retried, or fail for good; a crash may come at every wait, before or
after the provider acted.  A provider that is called again with the same
idempotency key answers as before: this is what `stripe-payment.ts`, the mail
client and the deployer rely on.  `Blamed` and `Throws` are
`#recordPendingEffectFailure`, `#failEffect` and the catch clause of
`#runWithEffectFailure`.

Decisions worth knowing:

- What the reasoner makes of a conversation is a choice among `Outcomes`; its
  research is part of that query.  It is given the oldest of the open messages,
  at most 50 and 200000 characters (`boundedPendingMessageBatch`), and a plan
  or "no change" applies just these.  Their order and size are data: `Batches`
  is any part of what is open.  The oldest message that does not fit alone is
  an error of policy, like any call that fails for good.
- An event of a run that is not yet recorded as passed is a policy error, which
  is charged to the effect attempted last (`Ingested`).
- The proof summary goes through the publication policy, which may reject it
  and park the project (`Rejects`), then into a table of the same database,
  where it may later turn out to be revoked (`Prove`, `Refused`), and only then
  into the final mail (`HandOver`), which needs it whenever it is tried again.
- A mail is fenced by its own envelope while it is processed, so a dispatch
  after a mailed revision happens in a later reconciliation; a message of the
  dashboard is not.
- Of the mails, `ProjectDelivery` follows the delivery of previews and of the
  final mail; the bounce of a proposal, a question or a confirmation is not
  modelled.  `verifySettlement` is part of the look at a session.
- `ProjectCommerce` leaves out the verification of the address, messages of
  the dashboard before the payment, and revisions within the paid scope, which
  `ProjectDelivery` has.  `ProjectDelivery` leaves out the refresh of previews
  that are about to expire, the rotation of dashboard access, the new quote
  for a paid project whose batch is under way (`orchestration-agent.ts:3549`
  and `3603`, with what `buildProgressStatus` makes of it at 6089), and final
  mails without a proof summary (3108), which only data of an older release has.
- Runs and deadlines of a batch that was replaced no longer move: nothing
  reads them.
- Turns are in the memory of one process, so no compare-and-swap of
  `saveProject` ever fails, and `supersedePendingEffect` is never reached.

### What `DeliveryPromise` says

Three acts of the agent are visible outside: the mail that shows a candidate,
the production release, the mail that hands it over.  Each is about the version
in force at that moment, rests on the one before it, and all three are about
the one candidate the customer was shown.  `ProjectDelivery` implements this
(`KeepsPromise`) with the active version and the acts recorded in `outside`.

### `FlyDeployment` and the code

The attempts of one project follow each other, each a call of
`deployProvenArtifact` by `#deployAndDeliver`.  A step of an attempt is one
answer of the provider and what the code does with it; meanwhile Fly starts,
retires and restarts machines.

| TLA+ | code |
|---|---|
| `releases`, `machines`, `up`, `instance` | the releases by number with their labels, the machine list, the servable states, the instance ids |
| `running` | deployments whose flyctl is still at work |
| `want`, `saved` | the candidate `#deployAndDeliver` deploys, the last one whose receipt is in the aggregate |
| `at`, `tries`, `left` | where the attempt is, the loop counters of `#awaitTargetRelease` and `#verifyHealth`, machines not yet asked in this round |
| `baseline`, `expected` | `baseline?.releaseVersion`, the identity passed to `#verifyHealth` |
| `failed` | `effect.attempts` of the `deploy_proven_candidate` effect, less one |
| `disturbed`, `orphans` | history: something happened beyond a lost answer (a deployment cut short, a machine that restarted or did not serve); a flyctl outlived its attempt |

Decisions worth knowing:

- `classifyEffectError` divides errors into those after which the effect is
  attempted again (`Retries`, which parks the project at the last attempt) and
  permanent ones (`Parks`: `RELEASE_FENCED`, `POLICY_BLOCKED` and their like).
- A command that fails, is killed by its time limit or loses its result ends in
  the same place: the list of machines decides (`CommandEnds`).  A deployment
  is blue/green, a machine at a time, and may stop at any of them.
- Whatever fails of the first list may mean that there is no app, so `Inspect`
  goes on to look for it; somebody else's app of that name may be visible or not.
- A machine in a servable state may answer well, answer with an error status as
  often as it likes, or its answer is lost (`Probe`); only the last is a fault.
- Release id and image digest of a release are determined by its number; the
  identity of a release is its number, its machines and their instances.
- The trusted configuration file, the labels, the host of the health requests
  and the digests of the artifact are data.

## 3. Runs

`CHECK_DEADLOCK FALSE` is said wherever everything may have come to rest: all
runs terminal, a project completed or parked, all requests settled, all
streams ended, and all bounds used up.  `inbound_mail` does not say it: a
webhook can always be repeated.

| run | instance | distinct states | shows |
|---|---|---|---|
| `store_proof` | 1 run, 1 slot, 2 leases, 2 sandboxes, 2 revisions, 1 latest kind + review | 243 k | `ProvenRunsHaveProof`, `AnnouncementsStayVisible`, `StaleLeaseStaysStale`, `CleanupListIsKept`, and that the store implements `RunLifecycle`, for any order of operations of any callers |
| `worker_execution` | 1 run, 2 slots, 2 revisions, 1 repair round, every kind of failure, 1 lease loss, 2 restarts | 602 k | `OneLeasePerRun`, `NoLeakedSandboxes`, `CleanedRunsKeepNoRecordedSandbox`, `PassedSandboxSurvives`; the worker implements `RunStore` |
| `worker_takeover` | 2 runs, 1 slot, 3 leases, 1 lease loss or 1 restart, fairness | 565 k | `AbandonedExecutionsDoNotWrite`; `RunsReachTerminal` |
| `inbound_mail` | 2 mails of one message, the worker and a webhook, 2 attempts, batches of 2, 1 crash or deadline, 1 retry, fairness | 263 k | `ProcessedMailIsApplied`, `AppliedMailIsNotTurnedAway`, `MailIsSettled` |
| `provider_builds` | 3 builds for one permit, 2 attempts each, 2 failed calls, any abort | 157 k | `PermitsAreConserved`, `LineIsExact`, `PermitsAreInUse`, `NoOrphanedBuilds` |
| `provider_previews` | 3 previews, two of one event, 2 permits, 3 sandboxes per event, 1 failed call, fairness | 413 k | `CleanupIsExclusive`, `PreviewsAreTimed`, `RequestsSettle` |
| `event_stream` | 2 clients, 1 stream at a time, 5 numbers, pages of 2, 2 pages of history, 1 stabilization read, 1 broken connection, fairness | 939 k | `EachEventOnce`, `SnapshotsAreWhole`, `StreamsEnd` |
| `commerce` | 2 versions with 2 Checkout Sessions each, 1 mail (a whole batch), 1 question, version 1 may be paid by a delayed method, every kind of failure, 1 fault, 2 attempts, fairness | 833 k | `OneLinkPerPlan`, `BuildsAreInForce`, `PaymentsAreRecorded` |
| `delivery` | 2 versions, 1 candidate, 1 mail, 1 fault, 2 attempts | 1.68 M | `ReleasedAfterDelivery`, `CompletedIsInForce`, `CustomerIsHeardFirst`, and that the agent keeps `DeliveryPromise` |
| `delivery_steering` | 2 versions, 1 candidate, 1 message of the dashboard that may raise a question, 1 repeated payment webhook, 1 fault, 1 attempt | 5.34 M | `SupersededRunsAreCancelled`, `ParkedProjectsStayQuiet` |
| `delivery_liveness` | 1 version, 2 candidates, 1 message that changes nothing, 1 fault, no repeated webhook, fairness | 367 k | `AcknowledgedEventsAreSaved`, `ProjectSettles` |
| `fly_deployment` | 2 candidates, 2 machines each, 2 attempts, 5 deployments, loops of 2, 2 faults, 1 orphan, fairness | 461 k | `OneReleasePerTarget`, `ProductionMovesForward`, `ReceiptIsTruthful`, `TargetIsDeployed` |

What the rarer ones mean:

- `BuildsAreInForce`: a build begins only for the version in force, from a
  captured payment of it and with no envelope unresolved, although up to three
  waits lie between the look at Stripe and the dispatch.  No saved message is
  open either, unless the same operation has just applied a batch of them:
  what did not fit into the batch does not hold the build back (limit 19).
- `PaymentsAreRecorded`: a captured payment is found and recorded even if its
  webhook never comes.  `OneLinkPerPlan`: a customer never holds two links of
  one plan, or one of an older unpaid plan, that could both still be paid.
- `CustomerIsHeardFirst`: a preview, a release or a final mail begins only
  when nothing the customer said is unread, although the operation has waited
  since it looked.
- `ParkedProjectsStayQuiet`: a project that was left to the operator, by an
  effect that failed for good, a bounced mail, a deadline or a rejected proof
  summary in the middle of an operation, calls for nothing more.  The one
  exception is named in it: an operation that a repeated webhook of the payment
  began (limit 9).
- `NoOrphanedBuilds`: a sandbox is left to nobody only in the step in which the
  very call that was to create or delete it failed; no other failure, abort or
  second attempt, of whichever request, loses one.
- `PermitsAreInUse`: at every moment, a permit that is held belongs to an
  attempt that is still under way; `RequestsSettle` that no request hangs.
- `SnapshotsAreWhole`: a snapshot counts exactly the events up to its cursor
  and says that the run is over if and only if the last event is among them.

- `RunsReachTerminal`: every submitted run comes to an end, unless its execution
  outlived its lease and released the slot (`Stranded`, limit 5 of section 6).
- `ReceiptIsTruthful`: when a receipt is given, each machine of the app is of
  the one release it names, and answered as the instance that is running now.
- `TargetIsDeployed`: the attempts end with the candidate deployed, or with the
  project left to the operator, and the latter only if the deployment itself was
  disturbed (cut short, a machine restarted or did not serve) or as many calls
  went wrong as `effectMaxAttempts` allows.  With `faults > MaxAttempts` in
  place of `>=` TLC finds it violated: losing every answer is enough.
- `ProjectSettles` is checked for one version, one message that changes nothing
  and no repeated webhook; limits 9 to 11 are histories outside these bounds.

`TypeOK` is on the list of no run: it is proved of every module (section 4).

Why the bounds are enough.

- *Store.*  A proof concerns one run: other runs touch it only through slots,
  so one run with two revisions, two verifiers and receipts out of order shows
  every mix of stale and fresh proof; a third revision adds no comparison the
  code makes.  Leases concern pairs (old and new holder of a slot): two runs and
  one slot in `worker_takeover` reach every takeover, and the theorems about
  the store hold for all runs and slots.
- *Worker.*  One repair round distinguishes the first, a middle and the last
  pass of the loop, since the code compares the round only with the limit.
  Two restarts allow the recovery itself to be interrupted.  `MaxFaults` bounds
  lost leases and restarts together.  `MaxToken` is at least the number of
  leases that can be granted in `worker_takeover`, so it never blocks a run
  there.  Where a run has one slot, `ActiveLimit` (the
  literal 4 of `wake()`, equal to `SLOT_COUNT`) is scaled with it.
- *Mail.*  Every hazard is one of two activations that overlap, and the queue
  serialises more than two in any order; two mails make a batch with a rest,
  and two attempts tell a retry from the last one.
- *Provider.*  Two builds contend for a permit and a third makes a line of two;
  two failed calls let a first and a last attempt fail.  Three previews make
  one that finds, one that waits for its turn and one of another event; three
  generations let a preview be made again after its timer.
- *Stream.*  Five events at two to a page make histories that need more pages
  than there may be, and runs that change in every stabilization read.  Clients
  meet only in the number of streams.
- *Agent.*  Two attempts tell a retry from a dead letter; one fault reaches
  every single point of failure (two faults in one history are what the bound
  leaves out); two versions make one revision; two sessions per version make
  one replacement.  `Outcomes` leave out in `delivery` what
  `delivery_steering` has (questions), and mails in the latter what the former
  has.  `delivery_steering` has one attempt, the least the code accepts: each
  failure parks the project, and the repeated webhook then finds it parked,
  which takes a fault and a replay in one history.
  In these runs one message is a whole batch.  Batches with a rest were checked
  on instances too large, or too poor in the rest, to be runs: of
  `ProjectDelivery` with Steers = {s1, s2}, every outcome, MaxFaults = 0,
  MaxReplays = 0 (751 k states, the messages taken as symmetric) all its
  safety properties hold; of `ProjectCommerce` with Mails = {m1, m2},
  Delayed = {}, MaxFaults = 1, without fairness (8.0 M) `BuildsAreInForce`, and
  with Delayed = {1}, MaxFaults = 0 and fairness (969 k) all three properties of
  the run.  The theorems are about any number of messages.
- *Deployment.*  Two candidates make one that is deployed over another, two
  machines a release that is there in part; two faults kill a command and lose
  the answer of the attempt after it, and, as there are no more attempts than
  faults, may also use the attempts up.

Symmetry is declared for revisions and, in `store_proof`, sandboxes: no
operation orders them.  Runs are numbered, since `listQueued` orders them by
`created_at`.

Fairness of the worker (`FairSpec` of `BuildWorker`):

- `WF(StartupStep)`: the start-up code and the end of a shutdown run to
  completion; each delete has a 120 s timeout.
- `WF(HandlerStep)`: a handler that began goes on without waiting for anything
  (`wake()` and the catch clause are synchronous), and the poll timer calls
  `wake()` again and again.  The steps grouped under one `WF` are phases of one
  sequence, of which at most one kind is enabled at a time, so that fairness to
  the group is fairness to each.
- `SF(WindsUp(r))`: the limit on wall-clock time fires, and the disposals of an
  execution end.  Strong, because a timer that is due, like the continuation of
  a disposal, only waits for other handlers, which run between.

Nothing is assumed of the body: an agent or a reviewer may never answer.  That
runs end is due to the wall clock alone.

Fairness elsewhere:

- `InboundMail`: `WF(Due(m))`, the clock passes `next_attempt_at`;
  `WF(Reconcile(h))` for the worker, whose timer is set again after every cycle
  and whose query lists a project as long as it has unresolved envelopes;
  `WF(Step(h))`, every await of an activation ends, since the provider clients
  and the model client have time limits.  None is assumed of webhooks, of the
  operator or of the rest of the orchestrator.
- `SandboxProvider`: `WF(Step(r))`, every call of Daytona has a time limit;
  `WF` of the expiry of a URL, of the timer set for it and of the delete it
  begins.  None of aborts or failures.
- `RunEventStream`: `WF(Serve(c))`, a client that stays connected takes what it
  is sent, and the poll timer fires.  None of the run or of clients.
- `ProjectDelivery`: `WF(Step)`, every wait of the operation ends;
  `WF(Reconcile)`, the worker comes round; `SF(Receive(m))`, strong because the
  worker receives the mails of a project before it reconciles it; `WF` of the
  end of a run (`RunsReachTerminal` of the backend), of its announcement and of
  the deadlines.  None of webhooks: that a mail was delivered need never be
  reported.
- `ProjectCommerce`: `WF(Step)`; `SF(Look)`, `SF(Reconcile)` and
  `SF(Receive(m))`, since the turns of `ProjectSerialExecutor` are first come,
  first served.  None of webhooks, payments or sessions.
- `FlyDeployment`: `WF(Step)`, every command and request has a time limit and
  the worker comes round; `WF(Progress)`, Fly goes on with a deployment that is
  at work.  None of failures, restarts or further candidates.

## 4. Proofs

For all values of the constants:

| module | theorem | statement |
|---|---|---|
| `RunStoreProofs` | `TypeCorrect` | `Spec => []TypeOK` |
| | `ProofIsComplete` | `Spec => []ProvenRunsHaveProof` |
| | `EventsStayVisible` | `Spec => []AnnouncementsStayVisible` |
| | `Fencing` | `Spec => StaleLeaseStaysStale` |
| | `CleanupKept` | `Spec => CleanupListIsKept` |
| | `Refinement` | `Spec => ImplementsRunLifecycle` |
| `BuildWorkerProofs` | `TypeCorrect` | `Spec => []TypeOK` |
| | `Refinement` | `Spec => ImplementsRunStore` |
| | `LeasesAreExclusive` | `Spec => []OneLeasePerRun` |
| | `DeliveryIsKept` | `Spec => []PassedSandboxSurvives` |
| | `CleanupIsComplete` | `Spec => []CleanedRunsKeepNoRecordedSandbox` |
| | `ExecutionsCleanUp` | `Spec => []NoLeakedSandboxes` |
| | `LateWritesAreRefused` | `Spec => AbandonedExecutionsDoNotWrite` |
| | `RunsPassWithProof` | the five properties of the store above, of the store as this process uses it: `Spec => []StoreProofs!ProvenRunsHaveProof /\ ...` |
| `SandboxProviderProofs` | `QueueInvariance` | types, `PermitsAreConserved`, `LineIsExact` of the queue alone |
| | `ProviderUsesQueue` | `Spec => UsesQueue`: each step is a step of the queue or leaves it alone |
| | `ProviderConserves`, `ProviderLineIsExact` | `PermitsAreConserved` and `LineIsExact`, carried over from the queue |
| | `PermitsStayInUse` | `Spec => []PermitsAreInUse` |
| | `BuildsAreNotOrphaned` | `Spec => NoOrphanedBuilds` |
| | `CleanupStaysExclusive` | `Spec => []CleanupIsExclusive` |
| | `PreviewsStayTimed` | `Spec => []PreviewsAreTimed` |
| | `ProviderTypeCorrect` | `Spec => []TypeOK` |
| `RunEventStreamProofs` | `StreamTypeCorrect` | `Spec => []TypeOK` |
| | `EventsComeOnce` | `Spec => []EachEventOnce` |
| | `SnapshotsAreOfOneCursor` | `Spec => []SnapshotsAreWhole` |
| `InboundMailProofs` | `MailTypeCorrect` | `Spec => []TypeOK` |
| | `ProcessedApplied` | `Spec => []ProcessedMailIsApplied` |
| | `AppliedKept` | `Spec => AppliedMailIsNotTurnedAway` |
| `ProjectCommerceProofs` | `CommerceTypeCorrect` | `Spec => []TypeOK` |
| | `BuildsStayInForce` | `Spec => BuildsAreInForce` |
| | `OneLinkStays` | `Spec => []OneLinkPerPlan` |
| `FlyDeploymentProofs` | `TypeCorrect` | `Spec => []TypeOK` |
| | `Receipts` | `Spec => ReceiptIsTruthful` |
| | `OneRelease` | `Spec => []OneReleasePerTarget` |
| | `MovesForward` | `Spec => []ProductionMovesForward` |
| `ProjectDeliveryProofs` | `DeliveryTypeCorrect` | `Spec => []TypeOK` |
| | `ReleasesFollowDelivery` | `Spec => []ReleasedAfterDelivery` |
| | `CompletedProjectsAreInForce` | `Spec => []CompletedIsInForce` |
| | `AcknowledgedAreSaved` | `Spec => []AcknowledgedEventsAreSaved` |
| | `SupersededAreCancelled` | `Spec => []SupersededRunsAreCancelled` |
| | `CustomersAreHeardFirst` | `Spec => CustomerIsHeardFirst` |
| | `DeliveryKeepsPromise` | `Spec => KeepsPromise` |
| | `ParkedProjectsAreQuiet` | `Spec => ParkedProjectsStayQuiet` |
| | `HandedIsShown` | what is handed over is what was released and shown, one candidate per version: `Spec => []Promise!HandedAsShown` |

The assumptions on constants are the named `ASSUME`s of the modules, which TLC
evaluates for each instance: numbers are naturals, `None` is none of the values
it stands in for, bounds are as large as the code's (a positive page size, at
least one attempt), the authoritative review is not a "latest" kind.

**The store.** `ProvenRunsHaveProof` is not inductive alone: `markPassed` has to
know that the latest artifact is a recorded one, and a run that passes must not
have been queued with a cancellation.  `IInv` adds `TypeOK`,
`SlotHoldersExist`, `WaitingRunsAreNotCancelled` and `LatestArtifactIsRecorded`
(the relations between tables that hold between any two transactions).
`RelationsLeaseHolder` and `RelationsNext` prove step by step that it is
preserved; the key fact is that every write of proof columns requires
`status = "running"`, so none can touch a run that passed.  `Fencing` needs only
types: tokens of a slot never decrease and the fields of a lease determine
whether it is current (`SlotStep`).  `Refinement` maps `cancelRequested` and
`published` to the abstract variables and shows each operation to be one
abstract step or a stutter (`StepRefines`); the takeover of an expired slot and
the recovery are both `GiveUp`.  `CleanupKept` follows from
`TerminalRunIsKept`.

**The worker.** All of its theorems come from one inductive invariant, `IInv`
(`Invariance`), because no part of it is inductive alone: a run's two halves,
`execute` and the body it races against timeouts, rely on each other, on their
row and on the scheduler.  For each run, `RunInv` says

- `ExecutionFits`: it has a lease from its dispatch on, which was issued to it
  and whose token the slot has not fallen behind;
- `HandlesFit` and `OwnColumns`: its handles, and the columns of its row, name
  sandboxes of this run, and the handles those of this repair round, where the
  body may hold them;
- `DeliveryKept`: the delivery verifier of a body that may still pass exists,
  is the run's sandbox from the promotion on, and remains once it passed;
- `WayOut`: `execute` leaves a body that is not over only when it is aborted,
  gives up only runs that are terminal or whose lease is gone for good, and has
  disposed of what is left when it is over.

Beside it: `OneLeasePerRun`; `QueuedHolders` (a slot held by a queued run is
the one `wake` is about to dispatch); `MemoryFits` (what a process that is down
remembers); `RecoveryFits` (recovery deletes sandboxes of failed runs only and
knows of each it still has to delete) and `LiveIsHeld` (a sandbox that exists
is on a handle, while nothing was restarted).  The proof tells the run that
acts from the others: `Bystander` is all that a step may do to a run it is not
about, every action makes every other run one (`BodyBystanders`,
`OuterBystanders`, `SchedulerBystanders`, ...), and a bystander keeps its
invariant (`BystanderKeeps`), because rows only age (`Ages`), tokens only grow
and a lease that is gone never comes back (`LeasesDecay`).  For the run that
acts, one lemma per group of steps (`BodyStepKeeps`, `OuterStepKeeps`).
`StepIsStoreStep` is the refinement: every step is one action of the store, or
none; the theorems of `RunStoreProofs` are used through it, and hold of the
process as a whole (`RunsPassWithProof`).  That no sandbox a
passed run is delivered from is ever deleted needs nearly all of this: the
deletions are those of the two halves' finally clauses, of a creation that was
refused and of recovery, and each is ruled out by another part of `IInv`.

**The queue.** `QueueInv` is `TypeOK /\ PermitsAreConserved /\ LineIsExact`; the two
hold each other up.  That a permit can be handed on without being counted needs
that the head of the line waits for a permit of that role (`LineIsExact`), and
that nobody waits while a permit is free needs the count.  `OneIsMissing` says
what a line is after one ticket left it from the middle.

**The provider.** Each of its steps moves the queue by one action or not at all
(`StepMoves`), so it implements the queue with the same variables, and the
queue's theorems carry over.  `PermitsStayInUse` adds `TicketsFit`: where a
request stands determines what became of the ticket of its current attempt and
of those before.

The sandboxes have two arguments of their own.  For builds, `BoxesFit` says
which request may have which sandbox at which label, and `Kept` what a step of
one request leaves of the sandboxes of builds; `NoOrphanedBuilds` follows step
by step, because a request lets go of a sandbox only by handing it out, by
deleting it, or when that very delete, or its creation, failed.  For previews
everything rests on the turns: `TurnsFit` says that one that waits is in the
line of its event and one that works is at the head of it, so two never work on
one event (`OneTurn`).  Hence a sandbox that a request made and still works on
was handed to nobody (`MineFits`), which is what lets it remove the timer and
delete; and hence what was handed out keeps its timer (`HandedFits`).

**The stream.** The run and the clients meet only in the events, so `IInv` is
`TypeOK` and, for each client, what it has received (`Received`) and what its
stream knows (`Serving`).  An appended event comes after every cursor
(`GoesOnInv`); a step of a generator leaves the run and the others alone
(`StepOf`).  The heart is `SettleInv`: an empty page says that no event comes
after the cursor (`EmptyPage`), so what was read of the run before it is the
run as of the cursor.

**The mail.** `IInv` adds what the three paths to `completeInboundMailEnvelope`
rest on without looking: `BusyActivationsHaveMail` (an activation that waits
works on an envelope), `ProcessingFollowsSave` (one that processes has entered
its mail in the inbox) and `InboxedMailIsApplied` (inbox rows come with their
message).  `Moved` and `Settled` say once what moving through a batch and
settling an envelope may change (`SettlingKeepsIInv`).

**The commerce.** The operation works on what it read up to three waits ago.
`IInv` says what remains true of it meanwhile: before the first quote there is
no session anywhere (`PlanIsThere`), a receipt stands for a captured session
(`ReceiptsAreCaptured`), an operation at each label has the version or session
it needs (`OpIsReady`), and one that is on its way to a dispatch is about the
version in force, which is paid, and has no message open unless it has come
from applying a batch (`OpIsInForce`).  `GoesOn`, `SavesOn`,
`ReturnsOn` and `AsksOn` say once what the four shapes of a step preserve.
`BuildsStayInForce` then needs only that no step but `Dispatch` begins a build.

`OneLinkStays` is about two views of one session, the aggregate's and Stripe's,
which agree only at the ends of an operation.  `LinkInv` says how far they may
differ: what was mailed is stored, what is stored as over is over at Stripe,
what is stored as open is of the version in force or of one that was paid for
(`SessionsFit`); the sessions of a version are made one after the other, and
only the newest can be open (`OrderFits`); an operation that creates a session
holds the first number that is free, and one that expires a session holds the
one that is open (`OpFits`); and the next version is drafted only when the
plan in force has no open session or was paid for (`DraftFits`).  A crash
between Stripe's answer and the save leaves a session that Stripe has as open
and the aggregate does not have at all; it cannot be paid because its link was
never mailed, and the next attempt finds it again under its idempotency key.
Most steps leave the stored sessions and the plan alone (`Alike`); those that
do not are `Created`, those that find a session over (`OverFits`) and `Drafted`.

**The deployment.** A receipt rests on what was seen before: `Sighted` (an
instance that is expected was started, and is not ahead of what the machine
has been started to) and `Heard` (who answered is an instance there was).
Instances only grow (`InstancesGrow`), so a machine that has the expected
instance after the round had it when it answered.  `OneRelease` and
`MovesForward` need the ownership of the one running command: while no flyctl
goes on unseen (`orphans = 0`), it is that of the attempt at "deploying"
(`OneAtWork`), it deploys the wanted candidate (`Deploying`), no machine of
that candidate was there when it began (`NoneThere`), and a receipt is only
given when there are no others (`AllThere`).

**The delivery.** The operation acts on what it read before a wait, a crash may
come between an act and the save of its answer, and the aggregate is the only
thing that survives it.  So `IInv` relates the aggregate to what providers did,
in a form that holds in between, too: `ShownFits` (what was shown, released or
sent is about the candidate recorded for its version; a release follows a
delivered preview), `AcksFit` (an acknowledged event was saved), `RunsFit` (a
recorded run was started; one that is over, cancelled or of a superseded batch
does not run), `ProjectFits` (what the schema accepts, and a mail that was sent
is one whose effect is complete).  `OpFits` says what each label relies on: the
version (`VersionFits`), the candidate (`CandidateFits`), the effect that is
waited for (`EffectFits`), and the status (`StatusFits`).  The key of a
candidate that is shown, released or handed over is that of the version in
force and of the recorded preview (`EffectKey`, `ActKey`), and it remains so
while the call is under way because messages wait for the project's turn: the
aggregate does not change beside an operation.  Most steps leave what the world is
compared with (`Stays`) and what labels rely on (`Same`); `Delivered`, `Sent`,
`Rest` and `Changes` are the few ways in which it changes.  One lemma per
action (`RouteKeeps`, ..., `FinishedKeeps`), gathered in `StepKeeps` and
`NextKeeps`.  The action properties need what a step can do that the customer
sees (`Shape`): a provider acts for the effect that is waited for, or the next
version comes into force, and nothing new is begun for the customer while a
message is open.  From it and `EffectKey`, `PromiseStep` shows each step to be
`Revise`, `Show`, `Release`, `HandOver` or a stutter of `DeliveryPromise`, and
`HandedIsShown` follows from the promise alone (`PromiseInvariant`).
`ParkedProjectsAreQuiet` needs where an operation can be when the project is
parked (`StatusFits`): at its end, or on the way to it, unless a repeated
webhook began it; that a proof summary may be rejected or revoked between two
saves is why its steps (`ProveKeeps`, `HandOverKeeps`) have lemmas of their own.

Where the code takes the first of several conditions that may hold together,
the modules have IF and not CASE: CASE leaves open which of two true guards is
taken, so nothing could be proved about it, although TLC, like the code, takes
the first.

What stays with TLC: everything that must eventually happen
(`RunsReachTerminal`, `MailIsSettled`, `RequestsSettle`, `StreamsEnd`,
`PaymentsAreRecorded`, `ProjectSettles`, `TargetIsDeployed`), which is beyond
the prover.  Every safety property that a run checks is also a theorem.  That
`decideProof` is a conjunction over kinds of receipts is by reading only.

## 5. Not modelled

`PROJECT.json` lists every component.  Left out for good: clients of external
services (how they shape requests and parse answers), prompts, reasoners and
mail texts, user interfaces, offline experiments, operator scripts: they keep
no state that another part decides on, and each appears in the models as a
call with the outcomes its caller tells apart.  These are most of the lines of
the repository.  Left for later: single-use dashboard logins and sessions,
email verification, the refresh of previews, the paging of the reconciliation
worker over projects, and the choice of the winner as a function of receipts
(`ProjectDelivery` takes its result as an order of candidates).

## 6. Known limits of the code

No run of this project expects a violation.  Where the code does less than a
reader of its documentation might expect, the runs above state what it does
guarantee, and the difference is described here.  Each can be seen with TLC by
checking the property named, with the constants given, instead of those of a
run; the properties are kept in the modules.

Build worker (`MCBuildWorker`; Runs = {1}, SlotIds = {1}, Revisions = {v1},
ActiveLimit = 1, MaxRepair = 0, FailingKinds = {}, MaxToken 1 or 2,
MaxFaults = 1):

1. `ActiveWithinSlots` with MaxStalls = 1 and two runs: `acquireSlot`
   (`run-store.ts:319`) hands out a slot as soon as its lease has expired, while
   the execution that held it is active until its heartbeat or its wall clock
   stops it.  After a stall longer than the lease, one execution more than there
   are slots is active (`tests/build-scheduler.test.ts:24` has none).
2. `CleanedRunsKeepNoAttachedSandbox` with MaxRestarts = 1:
   `attachVerificationSandbox` (`run-store.ts:530`) overwrites the id of the
   command verifier with that of the delivery verifier.  After a crash before
   the former is disposed of, no row names it and the recovery leaves it to its
   time to live.
3. `InterruptedRunsStayListed` with MaxRestarts = 1: the cleanup list
   (`run-store.ts:1175`) has only runs with `worker_restarted`.  A run that was
   marked terminal just before the process died, its sandboxes not yet disposed
   of, is on no list.
4. `UnprovenRunsKeepNoSandbox`: a cancellation between the promotion of the
   verifier and its hand-over (`build-run-executor.ts:765`) leaves the sandbox of
   an unproven run behind.
5. `RunsReachTerminal` without `Stranded`, with MaxStalls = 1: an execution that
   lost its lease and releases the slot itself (`build-run-executor.ts:272`)
   leaves its run `running` until the next restart.

Inbound mail (`MCInboundMail`):

6. `DiscardedMailStaysResolved`: the late failure of an activation
   (`orchestration-store.ts:1148`) puts an envelope back that the operator
   discarded after it was claimed, and fences the project again.

Sandbox provider (`MCSandboxProvider`, Previews = {p1, p2} of one event, one
permit each, Attempts = 1, Generations = 3, MaxFaults = 0):

7. `HandedPreviewsStayUp`: the timer of a preview (`daytona-sandbox.ts:3416`)
   takes no turn, so a retried request may be answered with the preview that
   the timer is deleting.  An error in that delete is an unhandled rejection,
   which ends the process; the models end it, too (`CleanPreview`).

Delivery (`MCProjectDelivery`):

8. `CompletedProjectsLeaveNoMessage` (Steers = {s1}, Outcomes = {"no change"},
   MaxFaults = 1): a message of the dashboard that was saved, and whose
   processing failed, is left unapplied by a project that goes on to complete.
9. `ParkedProjectsEmitNothing` and `ProjectSettles` with MaxReplays = 1 and
   MaxFaults = 1: `confirmPayment` of a payment that is recorded
   (`orchestration-agent.ts:979`) does not look at the status, so that a
   repeated webhook makes the agent go on with a project that is parked for an
   operator. `PRODUCT_SPEC.md:437` says that permanent or policy failures "emit
   no downstream action"; the code does not keep that, and
   `ParkedProjectsStayQuiet` excepts these operations by name.
10. `AmbiguityIsClarified` (two mails that lead to the same question): the
    second question has the effect key of the first (`orchestration-agent.ts:4175`),
    which is complete, so it is never mailed.  `README.md:146` says that
    ambiguous requests enter clarification.
11. `InterruptedStatusIsRestored` (Candidates = 1..1, two mails, Outcomes =
    {"no change", "revision"}, MaxFaults = 1): `stableProjectStatus`
    (`orchestration-agent.ts:6115`) reads the status that a message interrupts
    off the active batch, not off the version in force.  After a paid revision
    of a project that was completed, a further message fences the dispatch of
    the new version; when its processing fails or the process dies, the next
    attempt takes "completed" from the old batch, which the schema
    (`project.ts:1823`) refuses to save, each time again.  With a batch that
    was not completed, the old batch is gone on with instead of the new one.

Commerce (`MCProjectCommerce`):

12. `CapturedPaymentsPass` (one session per version, Outcomes = {"quote",
    "no change"}, Delayed = {}, Failures = {"transient"}, MaxFaults = 1): the
    reconciliation looks at Stripe, which leaves `reconcile_payment` pending,
    asks the reasoner about an edit, and then retrieves the session again to
    expire it.  When the customer pays in between, `#expireCurrentCheckout`
    (`orchestration-agent.ts:5118`) throws a policy error, which is charged to
    the effect attempted last (`orchestration-agent.ts:1800`), the look; the
    project is parked as `payment_verification_failed` although the payment
    was captured and nothing failed to verify.
    `tests/orchestration-agent.test.ts:2684` covers the payment that comes
    before the look.
13. With a delayed payment method, a session that is complete but not yet paid
    is followed by a second one (`orchestration-agent.ts:1457` returns early,
    and the caller creates one).  Both may be captured; the webhook of the
    second is refused and its payment is never recorded.  `PaymentsAreRecorded`
    therefore speaks of the newest session.
14. A payment captured while the project waits for an answer of the customer
    is refused by the webhook and not looked for until the answer comes; this
    is why `needs_clarification` is excepted there.  An edit that comes while a
    delayed payment is in process makes a new version, and when the old payment
    settles the project is parked.
15. After a crash between the receipt and the dispatch, with another session
    still open, `stableProjectStatus` makes `awaiting_payment` of a paid plan.

Fly deployment (`MCFlyDeployment`):

16. `OneReleasePerTarget` and `ProductionMovesForward` without `orphans = 0`: a
    flyctl is sent a signal when its attempt is aborted, and is not waited for
    (`fly-cli-deployment.ts:1241`); it may go on beside the next attempt, and
    bring back what that has replaced.
17. A command that is killed between the start of the new machines and the
    retirement of the old ones leaves a target that is there in part; every
    later attempt waits for it to be complete (`fly-cli-deployment.ts:350`),
    which nobody will do, until the project is parked.
18. A machine that restarts while health is verified parks the project: the
    changed instance id is `RELEASE_FENCED`, which is a permanent code
    (`orchestration-agent.ts:6755`), although the release is what it was.

Bounded batches (`ProjectCommerce`, `ProjectDelivery`):

19. `BuildsBeginWithNothingOpen` (`MCProjectCommerce`, Mails = {m1, m2},
    Delayed = {}, MaxFaults = 0; TLC needs seconds): with more open messages than
    `boundedPendingMessageBatch` (`orchestration-agent.ts:7257`) takes, "no
    change" applies the oldest and restores the status they interrupted;
    `#continueAfterPayment` (1214) sees "paid" again and dispatches, and
    `#dispatchBuildBatch` (5258) looks at envelopes only, so that a build begins
    with the rest of the messages open.  In the same way a delivery rests at
    "preview_ready" with a message open: nothing is shown, released or handed
    over (`CustomerIsHeardFirst`), and nobody looks at the rest before the
    customer writes again, since only "revision_pending" leads to it.
    `tests/orchestration-agent.test.ts:2872` (more than one window, oldest first)
    is about a project that is not paid for yet.

## 7. Plan

Done: the backend (`RunLifecycle`, `RunStore`, `BuildWorker`), the provider
(`AcquisitionQueue`, `SandboxProvider`), the event stream (`RunEventStream`),
the mail (`InboundMail`), the agent (`DurableEffects`, `ProjectCommerce`,
`ProjectDelivery`, `DeliveryPromise`), the deployment (`FlyDeployment`), and
the theorems of section 4.

Next, in this order:

1. Winner selection: that the choice does not depend on the order of receipts.
2. Dashboard logins, email verification and the refresh of previews, as actions
   of a module beside `ProjectDelivery`.
3. The reconciliation worker's paging: every project is reconciled again and
   again, although others fail or take long.

# DataRescue in TLA+

DataRescue watches a warehouse for schema drift, opens a DataHub incident for
it, tries candidate repairs in isolated PostgreSQL schemas, opens a draft pull
request for a repair that passes the policy, and closes the incident only after
the merged repair has passed the same gates in production. This directory holds
the TLA+ specification of that system, the TLC configurations that check it on
small instances, and TLAPS proofs about each of its parts: the event store and
those who read it, the recovery workflow, the abstract lifecycle of a case, the
delivery of metadata changes, the writes to DataHub, the verification of a
deployment, and the draft pull requests.

Paths without a prefix are relative to the repository.

## The system

| component | state it keeps | operations | modelled in |
|---|---|---|---|
| case state machine (`apps/api/state_machine.py`) | none (a table) | `validate_transition` | `CaseStates` |
| event store (`apps/api/store.py`) | the `events` table | `append`, `reset`; reads | `EventLog`, `EventStore`; its readers in `StoreReaders` |
| recovery workflow (`apps/api/workflow.py`) | worker lock, active and settled case ids, per process | `ingest`, `_advance`, `verify_deployment`, `reset` | `RecoveryWorkflow`; a live verification step by step in `PostDeploy` |
| what a case promises | phase of each case, live and closed incidents | the state machine's moves | `CaseLifecycle` |
| HTTP API (`apps/api/main.py`) | none; a cursor per event-stream follower | endpoints, server-sent events | requests in `RecoveryWorkflow`, their answers in `MclDelivery`, the cursor in `StoreReaders` |
| DataHub incidents (`packages/datahub/graphql.py`) | remote incidents | raise, resolve, read back | `DataHubAdapter`, which implements `RemoteCall`; calls in `RecoveryWorkflow` |
| DataHub MCP (`packages/datahub/mcp.py`) | remote documents, the metadata graph | fetch context, write and read back a report | `DataHubAdapter`, `LineageContext`, `PostDeploy` |
| MCL watcher (`packages/datahub/actions.py`) | offsets of the DataHub Actions framework | handle, deliver, retry | `MclDelivery`; the sender in `RecoveryWorkflow` |
| GitHub drafts (`packages/remediation/github.py`) | local branches and worktrees, remote branches and pull requests | `create_draft` | `GitHubDraftPR`; a call in `RecoveryWorkflow` |
| evidence executor (`packages/evidence/executor.py`) | a candidate schema in PostgreSQL | build, test, reconcile, drop | `EvidencePolicy`, `PostDeploy`; a verdict in `RecoveryWorkflow` |
| policy (`packages/policy/engine.py`) | none | `evaluate` | `EvidencePolicy` |
| candidate generator (`packages/remediation`) | none | propose | any proposals in `RecoveryWorkflow` |
| downstream guard (`apps/api/cli.py`) | none | `guard` | `StoreReaders` |
| dbt artifact lock (`scripts/dbt-artifact-lock.py`) | an advisory file lock | hold, release | not modelled |
| web console, scripts, demo data | – | – | where a verdict or a delivery rests on them |

How they interact. A schema change reaches `ingest` over HTTP, from the MCL
watcher (which delivers again whatever was not answered) or from the demo
endpoint. `ingest` looks the change up by a digest of its content, takes the
process-wide worker lock, allocates a display id, appends the detection event
and runs `_advance`, which reads the case back from the store before each stage
and so resumes from whatever checkpoint it finds. On the way it calls DataHub
(incident, context, evidence report), the candidate generator, the executor and
GitHub. `verify_deployment` runs under the same lock, records the deployment and
its verification, publishes the final report and resolves the incident. `reset`
appends a `SYSTEM_RESET` row that starts a new scope; nothing is deleted. The
guard and the followers of the event stream read the store without a lock.

What is hard. Requests run in a thread pool, one of them under the lock and any
number on the unlocked fast path. A process can die between any two of: a
remote effect, the append that records it, the next effect. A remote call can
fail after it took effect, and an effect can show up late. Senders repeat
themselves, concurrently, and a request outlives the client that gave it up. The
sets in memory outlive resets and do not outlive the process. Display ids of
different drifts can collide. The base branch, the metadata graph and the pull
request belong to others and move while they are looked at. A dbt outlives the
process that started it. More than one process may share the database, although
`docs/architecture.md` names one. `PROJECT.json` lists each hazard at its line
with the properties that watch it.

## Modules

| module | what it is |
|---|---|
| `CaseStates` | states, transition table, event kinds and the state each is appended in |
| `EventLog` | what the store computes from a log: scopes, current state, duplicate checks, the outcomes of `append`, the rows that `append` and `reset` insert |
| `EventStore` | the store as a state machine with unconstrained callers; its properties |
| `StoreReaders` | the guard and the followers of the event stream, over the store's logs |
| `CaseLifecycle` | the abstract promise of a case |
| `RecoveryWorkflow` | threads, lock, ownership sets, remote systems, crashes |
| `GitHubDraftPR` | `create_draft` step by step, between the checkout, the origin, GitHub and other people |
| `MclDelivery` | from the metadata change log through the Actions pipeline and the API to the store |
| `RemoteCall` | the abstract promise of a write to DataHub |
| `DataHubAdapter` | a write to DataHub: one mutation, bounded read-back |
| `LineageContext` | when the lineage of the canonical asset is called current |
| `EvidencePolicy` | what dbt's tests, the reconciliation and the policy make of a table |
| `PostDeploy` | `verify_deployment` in postgres mode, step by step |
| `EventStoreProofs`, `StoreReadersProofs`, `CaseLifecycleProofs`, `RecoveryWorkflowProofs`, `GitHubDraftPRProofs`, `MclDeliveryProofs`, `PostDeployProofs` | the proofs about the module of that name; those about `DataHubAdapter` are in `PostDeployProofs` |
| `RecoveryStagesProofs` | proofs about `RecoveryWorkflow` that need to know its stages: what a sender was told, checkpoints, drafts, the end of a case, ownership, and the two refinements |
| `MCEventStore`, `MCRecoveryWorkflow`, `MCGitHubDraftPR`, `MCMclDelivery`, `MCPostDeploy` | instances for TLC |

How they are composed. `CaseStates` and `EventLog` are the common ground:
`EventStore`, `RecoveryWorkflow` and `MclDelivery` each extend `EventLog` and own
a log. `StoreReaders` extends `EventStore`. `RecoveryWorkflow` instantiates
`EventStore` (its writes are operations of the store) and `CaseLifecycle` (it
implements the lifecycle). `PostDeploy` extends `DataHubAdapter`,
`LineageContext`, `EvidencePolicy` and `CaseStates`; `DataHubAdapter` implements
`RemoteCall`, and so does `PostDeploy` through it. Three modules look closer at
what is one step or one open choice in `RecoveryWorkflow`: `GitHubDraftPR` at
`create_draft`, `MclDelivery` at the sender, `PostDeploy` at a live verification
and at the writes to DataHub.

`EventStore`. The log is a sequence of rows and a row's `sequence` is its
position: the column is AUTOINCREMENT, rows are never deleted, and every
transaction that takes a number commits it. Each call of `append` or `reset` is
one `BEGIN IMMEDIATE` transaction and therefore one step; a call that raises
writes nothing and is a stutter. A uuid4 made for an event without an id is
modelled as the row's number, which keeps it unique. A payload is what the
properties tell apart: for a detection the normalized content and the
`observed_at` that the server fills in, for other events a member of `Details`.
The events of `ProgressEvents` are appended in the state `EventState` gives,
which is how every call in `workflow.py` appends them.

`RecoveryWorkflow`. Each thread has a record with the place it has reached (`pc`), the
handler an exception would reach (`op`), and the local variables that survive a
step. The variable `pending` holds events that the code appends one after the
other without looking at anything in between. A step is one read of the store
together with the decision and the remote call made on what was read, or one
append. So every other thread, a crash or an exception can come between a
remote effect and the append that records it, and between two appends. The
actions follow the code in order:

| actions | code |
|---|---|
| `Deliver`, `Lookup`, `FastDuplicate`, `FastOwned` | the request and the unlocked fast path of `ingest` |
| `Acquire`, `Recheck`, `Allocate`, `Detect`, `Begin` | the locked section of `ingest`, up to `_advance` |
| `Incident` … `PullRequest`, `Contain` | the stages of `_advance`, and `_contain` |
| `AppendEvent` | the append transaction of every stage |
| `Handler`, `Finish` | the except and finally clauses of `_advance_safely_locked`, the answer |
| `StartVerify`, `Verify`, `FinalEvidence`, `Resolve` | `verify_deployment` |
| `ResetDemo` | `reset` under the lock |
| `Unreadable`, `Fault`, `Crash` | a projection that raises; an error of SQLite, files or libraries; the death and restart of a process |

A remote call is one step here. It answers SUCCEEDED only if the mutation was
applied and read back, and FAILED whether it was applied or not; that this is
what the adapters promise is shown in `DataHubAdapter`. Metrics, SQL, patches and documents
are not modelled: an execution and its policy verdict are one nondeterministic
outcome, the best of several eligible candidates is any of them, a report is its
decision. The two DataHub adapters are configured together. A schema change on
an asset outside the allowlist is refused before anything is read and is left
out. What only reads the store is in `StoreReaders`.

`CaseLifecycle` has no processes, no log and no remote answers. A case is opened,
may get a live incident, is proposed, deployed, proven; its incident may be
closed only once it is proven; it recovers only when a live incident is closed;
it may stop at any earlier point; a reset forgets every case.

`GitHubDraftPR`. One case, one call of `create_draft` at a time (the workflow
calls it under the worker lock), again and again, and after a reset perhaps with
another patch. `base`, `branch` and `prs` are the origin and GitHub; `local` is
the checkout's branch of the case's name with its worktree, and who made it;
`fetch_head` is the checkout's FETCH_HEAD; `call` is the running call, `answer`
the last answer; `touched` remembers whether others changed something the
answer speaks about. A commit is the number of the base commit it starts from
and the changes on top. A step is one command that reads or writes something
shared, with what the code does with its output:

| actions | code |
|---|---|
| `Start`, `FetchBase`, `ReadBase` | the call, `git fetch`, `git rev-parse FETCH_HEAD` |
| `ListPRs`, `MatchPRs`, `Existing` | `_find_existing_pr` for its three callers: before anything, after a confirmed and after a failed `gh pr create` |
| `CheckOrphan`, `CheckSlot` | the pushed branch without a pull request, `_assert_local_slot_available` |
| `AddWorktree`, `CommitPatch`, `PushBranch`, `CreatePR` | the commands of the same names |
| `CleanupWorktree`, `Undo`, `Return` | the finally clause, the undo of a failed `git worktree add`, the answer |
| `Fault`, `Crash` | a command that fails or times out; the death of the process, after which a started command may have finished |
| the rest | external: others push, delete, review, merge, fetch or make a local branch; GitHub moves the head of a pull request |

A push, a `gh pr create` or a `git worktree add` whose answer is lost may have
done its work. GitHub itself is assumed to open a second pull request if it is
asked to, so that only the adapter's own lookups prevent one. The checks of
arguments, authorization and URLs, and the local bundle that a failed or
disabled draft leaves behind, write nothing that is shared and are left out, and
so is a git process that outlives a killed API and finishes during a later call.

`MclDelivery`. A drift is a message on a topic. The consumer group's offset, the
retries and THROW are the framework's; they are external and behave as
`demo/datahub/schema-drift-actions.yml` configures them. Of a case only the
detection is followed.

| actions | code |
|---|---|
| `Publish`, `Start`, `Poll`, `Retry`, `Throw`, `Ack` | external: the topic and the pipeline (`auto.offset.reset: latest`, `retry_count`, `failure_mode: THROW`, a commit after each message) |
| `Handle`, `Reply`, `Timeout` | `DataHubSchemaMCLWatcher.handle`, `HTTPEventSink`, `act`: skip, raise, send; what an answer means; `request_timeout_seconds` |
| `Respond`, `RespondLate` | the schema-change endpoint with `ingest` and `append`; a request whose client is gone is still carried out |
| `Crash`, `ApiCrash`, `DemoReset` | the pipeline dies or is evicted from its group; the API dies or answers 5xx; a reset |
| `Restore` | `scripts/datahub-actions.sh restore`: back to offsets captured earlier |

`DataHubAdapter`. Both adapters make a write in the same way and only one at a
time: `Send` the mutation; `MutationFails` or `MutationConfirmed`; up to
`readback_attempts` reads, each `ReadBackConfirms` or `ReadBackFails`. `CallLost`
is the death of the API. DataHub itself is external: it carries a write out
(`CarryOut`), refuses it or lets it show (`Show`) whenever it likes, also after
the call has ended, and it may answer a mutation that it has not carried out.
`RemoteCall` says what the workflow relies on: SUCCEEDED is said only of a write
that took effect, and FAILED says nothing.

`PostDeploy`. One verification at a time, on a case in PR_OPEN with a live
incident. The commands and queries of the operation are steps of their own,
and the world moves between any two:

| actions | code |
|---|---|
| `Start` | the fetched base, the commit the caller names and its patch file (`_live_post_deploy_evidence`) |
| `ReadEntity`, `ReadLineage`, `ReadLink`, `Normalize`, `ContextFails` | `fetch_context` of `mcp.py`: one call for the entity, one for the whole lineage, one for each edge of the chain; the verdicts on them |
| `DbtBuilds`, `DbtTests`, `DbtFails` | `_run_dbt` in the verified worktree |
| `ReadAggregates`, `ReadJoin`, `DropSchema`, `QueryFails` | `_reconcile` and the finally clause with `_drop_candidate_schema` |
| `RecordDeployment`, `Decide` | DEPLOYMENT_RECORDED, the policy, POST_DEPLOY_VERIFIED |
| `CallContain`, `Contain`, `CallReport`, `AfterReport`, `CallResolve`, `AfterResolve` | `_contain`; the final report and the resolution of the incident |
| `BaseMoves`, `MetadataChanges`, `Crash`, `OrphanBuilds` | the origin; ingestion and editors in DataHub; a kill, and the dbt it leaves behind |

A table is a sequence of rows with an id and a revenue. A project is the models
it builds, the tests it has and the table it puts out. `EvidencePolicy` computes
aggregates, join and null rates from the table itself and compares percentages
exactly, in hundredths of a per cent. The code compares floats, which on a bound
itself may fall to either side. `LineageContext` judges the sets of urns that the
calls return. Owner, glossary term and document are one of three outcomes
(right, another, invalid).

`StoreReaders` has no actions. The log only grows, so whatever a reader saw
earlier is a prefix of the log, and its properties quantify over prefixes. A
query is two SELECTs: the scope is that of a prefix, the rows are those of the
log now. `GuardStarts` is the decision of `cli.py`, `SentBy` and `CursorAfter`
are the event stream of `main.py`.

## Runs

Each run is a `.cfg` of the same name; `tlc -config X.cfg M` with the module
that `PROJECT.json` gives.

| run | what it shows | bounds |
|---|---|---|
| `MCEventStore` | with callers that append any event to any case at any time: columns, agreement of the two notions of active, uniqueness in every scope, legal streams, retries are duplicates, only a reset revokes; the guard starts nothing while a case of its asset is unresolved, followers are sent every event once | 2 cases, 2 keys, 3 contents (two share a key) of 2 assets, 1 sender-chosen id, 2 clock values, 5 rows |
| `MCConnected` | checkpoints are recorded once, a resolved case is resolved in DataHub, the incident stays active until the end, a draft rests on evidence, ownership hides no unfinished case | 2 threads, 1 drift, 2 proposals; 1 fault, 2 verifications, 1 extra delivery |
| `MCReplay` | resets fall between whole requests; no live incident is closed on a caller's numbers; acknowledged changes are on record | 2 threads; 2 changes of one drift under one event id; 1 reset, 1 verification |
| `MCRecovery` | every drift is worked off | 1 thread; 2 faults, 1 verification |
| `MCConcurrent` | every request is answered; `RecoveryWorkflow` implements `CaseLifecycle`; an incident is closed only for a proven repair | 2 threads; 1 fault, 1 verification |
| `MCCollision` | two processes, colliding short ids: every write is an operation of `EventStore` | 2 drifts, 3 ids, no proposals |
| `MCGitHubDraftPR` | never two open drafts, a reported draft is the patch on the base and at the tip of the branch, others' local branches stay, leftovers have a cause, retries succeed | 2 patches; 1 lost or failed answer, 1 half-done local command, 1 crash, 2 acts of others, 1 foreign fetch, 1 reset |
| `MCMclDelivery` | what the group has committed is on record; what is published past a commit arrives, or stands behind a message that no retry can deliver | 3 messages out of 7 kinds, 2 contents, 2 event ids; 1 retry, 2 mishaps |
| `MCPostDeploy` | the report precedes the resolution; a verified deployment keeps the baseline's payments; the lineage is judged right; each write is what `RemoteCall` allows; every recorded deployment settles | 6 commits, 4 datasets in a chain with 1 parallel edge, 5 edges that come and go; 2 read-backs, 2 mishaps |

Why the bounds are enough. Cases interact only through keys, event ids and
display ids, so two cases and two keys show every pairwise clash. Five rows hold
a detection, a reset, a second life of the case and another case; for a reader
they also hold what happens between its two reads. In the
workflow two threads show each unlocked step of one request against each locked
step of another, and two processes show two holders of a lock. Faults, resets,
verifications and extra deliveries (copies sent although the change was already
answered) are a budget (`Bounds`) because each only repeats what one of them can
do, except for faults in sequence, which `MCRecovery` has two of. A change that
was not answered may be delivered again at any time, also while the first
request still runs.
For a draft, one lost answer, one half-done command and one crash meet in every
order, so that a retry finds the remains of two different accidents; two acts of
others are enough to take a branch away and bring another, or to move it and
mark its pull request as ready.
Three messages put one before and one after a message that cannot be delivered,
or two senders of one event id before a third; with two mishaps a request that
outlived its client meets a reset, a rewind, a crash or a second timeout.
The six commits of `MCPostDeploy` are a sound repair and one for each way to go
wrong: other amounts (3 % more), a payment lost and made up for by a duplicate,
the same without the uniqueness test, a project that builds only one of the two
models and would be measured on the table of an earlier one, and an edited patch.
Two mishaps leave a schema behind and let the branch, an edge or a call go wrong
in the next verification. A chain of three edges has a first, an inner and a last
one, and `source -> mart` is an edge the contract does not tolerate.

`CHECK_DEADLOCK FALSE` is set where the system really stops: in `MCEventStore` at
`MaxLog`, in `MCMclDelivery` when everything is published and consumed, in
`MCPostDeploy` when the case is settled. In the workflow `Quiescent` is the only
state in which nothing happens, and every other standstill would be reported as
a deadlock.

Fairness. `FairSpec` of the workflow asks two things. A request that can go on does: each is a
running thread, its remote calls end (httpx, subprocess and SQLite calls all
have timeouts), and the worker lock is released at the end of every locked
section; weak fairness of a thread's `Step` says no more. And a change that was not
answered is delivered again: the MCL watcher raises on a failed delivery so that
the framework does not acknowledge it (`packages/datahub/actions.py:206-220`).
In `GitHubDraftPR`, `FairSpec` asks that a call goes on (its commands have
timeouts, `github.py:596-605`) and that `create_draft` is called again. The second
is the caller's part: a restart, or a delivery after a reset, brings the call
again, so `RetriesWork` says what repeating it is good for and not that somebody
repeats it. Its exception, `NeedsAttention`, lists what the code refuses to resolve on
its own: a local branch or worktree in the way, a branch that is not this
patch, a merged pull request, one out of draft.
`MclDelivery` asks that the pipeline goes on and is started again whenever it has
stopped, and that the API answers the request somebody waits for; a client may
still give up first. `PostDeploy` asks that a verification that has started goes
on: its calls have timeouts and its read-backs are counted. DataHub need not
carry out or show anything, and nobody need start a verification.
Faults, crashes, resets, verifications and extra copies are never fair. Two
threads compete for the lock under weak fairness only; that suffices for
`EveryRequestAnswered` because the deliveries of one behaviour are finitely many.

### What the code does not keep

Three runs check one sentence of the repository each and find it violated.

- `MCAckedThenCrashed`. The fast path answers a redelivery as a duplicate while
  the first request is still advancing the case (after a client timeout, for
  instance). The process dies, and since the redelivery was acknowledged nobody
  delivers the drift again: the checkpoint stays unfinished. With one delivery
  at a time (`MCRecovery`) the same property holds. The comment at
  `apps/api/workflow.py:90-92` takes the empty set after a restart for the
  signal to resume; only another delivery would read it.
- `MCSettledAfterReset`. `_settled_cases` is not cleared by a reset and display
  ids repeat. If the second life of a case is cut short without being settled,
  its redelivery is answered as a duplicate by what the set remembers of the
  first. The note `memory/bugfixes/datahub-v16-connected-contract.md:67-70` says
  that the sets only suppress duplicates. Without resets the property holds
  (`MCConnected`).
- `MCFetchHead`. The base commit is read from FETCH_HEAD in a second command
  (`packages/remediation/github.py:427-438`). If another fetch in the same
  checkout comes in between, the branch is built on what that fetched, and the
  ownership check accepts it, because it compares with the same base.
  `docs/CONTINUE-2026-07-22-2218.md:55` says that new branches are anchored to the
  fetched remote `main`. `ReportedDraftIsSound` counts a foreign fetch as
  somebody's touch and holds otherwise.

Other places where a property holds only with an exception, which it names:

- A failed draft leaves the case in PATCH_READY, retried after a restart and a
  redelivery; `docs/architecture.md:40` says any integration failure ends in FAILED.
- After a crash a case stays in DEPLOYED or POST_DEPLOY_VERIFIED: the operation
  starts from PR_OPEN only (`workflow.py:540-542`; `EveryDeploymentSettles`).
- A dbt whose API was killed builds into a schema of the same name as the next
  verification's (`executor.py:391`; `history.mixed` in `VerifiedKeepsPayments`).
- The executor counts tests and does not ask which they are (`executor.py:577`):
  a project without the uniqueness test is verified with payments lost
  (`untested` in `MCPostDeploy`).
- Lineage is read in several calls; edges that change in between can add up to a
  contract that held at no moment (`mcp.py:685`; `history.moved` in
  `LineageJudgedRight`).
- `auto.offset.reset: latest` loses what was published before the group's first
  commit, and a message that always fails blocks those behind it
  (`EveryDriftArrives`).
- An event id that is reused for another change of the same drift may be
  acknowledged without being on record, if the drift shares a display id with
  another: between the lookup and the unlocked duplicate check a reset passes and
  the other drift takes the id over, so the check finds active rows, of another
  case (`workflow.py:134-136`; `ReusedIdsStandAlone` in the
  proof of `AcknowledgedIsRecorded`). Event ids used as intended are not affected.
- A guard that reads across a reset may mix two lives of a display id that stood
  for two assets (`SharedByAssets` in `GuardIsSound`).

## Proofs

The theorems hold for every value of the constants; the bounds of the runs play
no part. Each module's assumptions are the named ones in it: None, `__system__`
and the like are nothing else, ids that senders choose are not those the store
makes up, a content has a key, limits are numbers, the baseline's `payment_id` is
unique, the datasets of the chain are distinct.

`EventStoreProofs` proves the six properties of `EventStore` for logs of
any length. The argument:

1. `MaxOfBounded`: a non-empty set of numbers with a bound has a greatest
   element. `CurrentScope` and `CurrentState` are maxima; the lemma is what makes
   their CHOOSE meaningful, and it comes from the well-foundedness of < on the
   distances to the bound.
2. `ScopeFacts`: the current scope is 0 or the number of a reset row that no
   reset row follows.
3. The properties are not inductive: uniqueness needs that the rows compared by
   `append` are all the rows of the scope the new row will be in, and legality
   needs that `_current_state` reads the new row's predecessor. Both follow from
   `RowsWellFormed`, which says that each row carries the scope that was current
   when it was written and that its columns fit its kind. `IInv` is the type, `RowsWellFormed`,
   `UniqueInScope` and `StreamsLegal`; `StepIInv` preserves it.
4. `ScopesAgree` and `RetryIsDuplicate` follow from `IInv` in every state,
   `OnlyResetRevokes` from `IInv` in both states of a step (`AnswersKept`).

One consequence: the `IntegrityError` branch of `append` (lines 198-230) is
unreachable, since the checks in the same transaction imply both indexes.

`StoreReadersProofs` proves the two properties of the readers from the store's
type alone. `PrefixScope`: the scope of a prefix is at most that of the log, and the
prefix has the same rows as the log as far as it goes. `EndsOfCase`: past an
earlier scope a case has the same last row as past the current one, hence the same
state, and only its first row may differ. Both first rows are then detections of
one display id, and if the guard took the wrong asset from its own, they are of
two assets: what is left is exactly `SharedByAssets`.

`CaseLifecycleProofs` proves the invariant of `CaseLifecycle` and that only a
reset takes back a verdict, one step per operation.

`RecoveryWorkflowProofs` is about the workflow itself, for any number of threads,
processes, cases and faults. It first sorts every action into few kinds of step
(`EveryStepHasAKind`): a thread at work moves on (`Moves`), appends its next event
(`Appends`), judges a deployment (`Judges`) or is answered (`Rests`); a request
looks for its case (`Asks`), takes the lock (`Acquires`), records its detection
(`Detects`); the demo is reset (`Resets`), a process dies (`Crashes`). Every later
invariant is shown per kind and not per action. There are four results.

- `WorkflowTypeCorrect`, by the invariant `Typed`, which gives each place of a
  thread what it has in hand: at work, a case; at an append, events of that case.
- `WorkerLockExcludes`, by `LockHeld`: a thread inside the locked section is the
  one that its process's lock names. An exception, an answer and a restart leave
  the section and release the lock in the same step.
- `CasesReadable`, with one process: a reset needs the lock, so it finds nobody at
  work (`ResetFindsNobody`), and a thread at work has rows of its case in the
  current scope (`WorkersHaveCases`), whose first is then a detection.
- `IncidentsClosedOnEvidence`, with one process, by `ClosingInv`: the two notions
  of active agree; a thread on its way from a live verdict to the resolution
  carries an incident its case raised and either still has POST_DEPLOY_VERIFIED
  with live evidence to append or has appended it (`OnTheWay`, `AtTheEnd`). The
  property alone is not inductive: the step that closes the incident sees neither
  the verdict nor the case.

The assumption of one process is needed and not a convenience: the worker lock is
a lock of the process, and a reset through another process does split a case.

`RecoveryStagesProofs` continues. The kinds of step are too coarse here: what is
about to be recorded depends on the stage. `WorkersHaveCases`, `LockHeld` and `Typed` are
used throughout, and one lemma per stage says what it queues and why it may. The results:

- `AcknowledgedChangesAreRecorded`, for any number of processes, by `AckInv`: a
  request that will be answered with success has its change on record (`Sure`), one
  on the fast path has found a case that was opened by it (`Opened`), and every detection in the
  log is of an event that was sent, under an id of its drift. Records stay,
  so later resets and crashes do no harm. The hypothesis `ReusedIdsStandAlone` excludes
  only the reuse described above; the instance `MCReplay`, which reuses an id, satisfies it.
- `CheckpointsAreRecordedOnce`, with one process, by `StagesInv`. `LogInv` says of
  the log that the active rows of a case go through the states in order (`Ordered`) and that an eligible
  patch was assessed so (`Backed`); `StageOf` says of a thread that what it has read back is all there
  is (`Known`) and that what it has queued is due and fresh: no active row of that kind
  or proposal is there yet. The lock makes this stable: nobody else appends to the case.
- `DraftsAreBacked`, with one process, from the same invariant: at `pull_request` a
  ready EVIDENCE_WRITTEN is on record, and a draft stays backed as the log grows.
- `ResolvedHasClosedItsIncident` and `IncidentsStayActive`, with one process, by
  `CloseInv`. `EndsInv` relates rows, remote incidents and documents of a case: a
  recorded live incident exists and is the case's own, one that is closed belongs to
  a case that is proven, resolved or lost its closing call's answer, a resolved case has
  the incident closed and the report published. `CloseOf` says of a thread that until its closing
  call the incident is open, and that after it only the outcome is left to record:
  that is the gap in which a crash leaves a closed incident and a case in
  POST_DEPLOY_VERIFIED.
- `WorkflowKeepsItsPromise`, with one process: the refinement of `CaseLifecycle`.
  `StagesInv` and `CloseInv` allow every step to be sorted anew by what the mapping can
  see of it: it changes nothing visible (`Idles`), closes an incident (`Closing`), appends
  one row (`Records`) or forgets all (`Forgets`); each is a step of the lifecycle
  (`Promised`) or a stutter. `WorkflowClosesOnlyIfProven` is its invariant read here.
- `OwnershipOnlySuppressesDuplicates`, for any number of processes but without
  resets, by `OwnInv`: who is in the active set is advanced by a thread of that
  process, a settled case has ended, and a thread that will finish either finds its case
  ended or has the event that ends it last in its queue (`Concluding`). With resets the
  property is false (`MCSettledAfterReset`).
- `WritesGoThroughTheStore`, for any number of processes: each append of the
  workflow is the store's Detect, Progress or Reset, and nothing else touches the
  log. `StoreComputes` shows that both modules compute the same from a log;
  `FitInv` that what is queued has the payload of its kind. The instance of the store
  is finite (`MaxLog`, and the urns it lists), so the theorem speaks of behaviours
  that stay within that bound (`WithinBounds`), which the code does not have.
  `StreamsAlwaysLegal` and the store's other theorems hold of the workflow's log through it.

`GitHubDraftPRProofs` proves type correctness, `NoSecondDraft`, `OthersWorkIsKept`,
`LeftoversNeedACause` and `ReportedDraftIsSound` for any set of patches and any number of mishaps and
acts of others. The assumptions are that None and the change `Other` are nothing
else and that the limits are numbers. The lemmas `WhoMoves…` say which actions
touch which part of the state; the step lemmas then look only at those. The invariant
`IInv` adds three parts to the type:

- `CallInv`: a call that is to write has its patch and base, while
  `created` holds the local branch is the adapter's, and so is whatever is
  registered at the path. `OthersWorkIsKept` follows step by step, since every
  command that writes locally is guarded by one of the two.
- `DraftInv`: open pull requests are equal to one another, and there is none
  between the lookup that found none and `gh pr create`. Without the second half a
  step of `CreatePR` could not keep the first.
- `SlotInv`: a local branch of the adapter's is still being worked on, is
  recognisable to `Undo`, or was left for a cause the budget shows.

`ReportedDraftsAreSound` needs `SoundInv` on top, which follows one call from
FETCH_HEAD to its answer while nobody else touches the branch: the base read is
one of the base branch, a listed pull request is what GitHub has, and
`OwnedIsExact` shows that the ownership check of an existing branch accepts only
the patch itself on such a base.

`MclDeliveryProofs` proves the type and `CommittedIsRecorded`. `DeliveryInv` adds
that every drift from `begin` up to the consumer's position is on record, not
only up to the commit, and what an answer means: 202 is a drift on record, 403 is
no drift, and a message that is done is on record if it is a drift. Records stay, since rows are never deleted
(`KeptStays`), a reset included.

`PostDeployProofs` first proves that `DataHubAdapter` implements `RemoteCall`: Send
is Ask, CarryOut is TakeEffect, whatever ends a call is Answer, all else
stutters. It rests on the type, which says that only what is stored
is shown and that a call in progress has no answer yet.

It lifts this to the verification (`StepsAreAdapterSteps`: each of its steps is an
adapter's step or leaves the adapter alone) and proves, besides the type:

- `ReportPrecedesResolution`, by `OrderInv`: the resolution is sent only after the
  report was answered SUCCEEDED, the answer was given only when the report could
  be read, and answers stay.
- `VerifiedIsProven`, by `KeepInv`, which follows the measurement through the
  operation: as long as no dbt without a parent has written into the schema, what is
  tested there is what the commit builds, a passed build makes it the commit's
  own table, the metrics and the join are that table's, and a verdict on record
  means that it passed the tests and thresholds. The
  lemmas about data are `JoinCountsIds` (with unique ids on both sides the join
  has at most as many rows as there are common payments) and `ChecksKeepPayments` (so the
  overlap bound bounds the payments lost).

- `LineageIsJudgedRight`, by `ReadsOK` (what was read is of the graph there was at
  the start, as long as no edge has changed) and `CurrentMeansContract`: for a chain
  of any length, one answer of several hops and one of a single hop for each link
  are judged current exactly if the graph satisfies the contract. The several-hop
  answer is a recursive function of the graph; that it contains the whole chain
  (`ChainIsReached`) is shown by a least number of hops for which it would not, which
  exists because < is well-founded.

Only model-checked: the liveness properties (`EveryDriftIsWorkedOff`,
`EveryRequestAnswered`, `RetriesWork`, `EveryDriftArrives`,
`EveryDeploymentSettles`), since fairness is out of TLAPS's reach. Every other
property of a passing run is stated by a theorem.

## Not modelled

Text generation and parsing (`sql_safety.py`, rendering of SQL and patches, the
adapters' JSON), because its results are strings the properties do not tell
apart. The dbt artifact lock: its exclusion is flock's, its recovery the
kernel's, and the holder only compares process ids. The web console, which only
reads. Shell and proof scripts, which start processes and compare recorded files,
except for the restoring of offsets. Demo data, except where a verdict or a
delivery rests on it. The candidates that `_advance` tries run through the same
executor and policy as a verification, but are one verdict in `RecoveryWorkflow`.
The command that a guard starts, and a case opened after its decision. Two
processes with resets are not checked: the lock is per process, so a reset does
split a case there, and the deployment that the documentation describes has one
process.

## Plan

In order of what matters most to the system:

1. `DraftPromise`: the abstract specification of `create_draft` (at most one draft
   per case, a reported one holds the validated patch), which `GitHubDraftPR`
   implements; its parts are proved as `NoSecondDraft` and `ReportedDraftIsSound`.
2. `CandidateExecution`: the candidates of one `_advance` on the executor of
   `PostDeploy`, with the schemas of several candidates side by side.
3. Which of the results for one process hold for several without resets, where the
   store's own checks must keep two advances of a case apart; TLC first.

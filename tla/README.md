# Verification of Lagniappe's background jobs, documents, messages and Plans

TLA+ models, TLC runs and TLAPS proofs of the parts of Lagniappe in which several
processes change the same stored state. The paths below are relative to
`src/lagniappe/core/tools/` unless they start with `src/`.

Lagniappe is a Flask application on App Engine. Its requests, its Cloud Tasks
deliveries and its scheduled calls are processes that share nothing but Datastore and a
best-effort Redis; any of them may stop between two writes. What it promises about work
that outlives a request (AI reports, autofill, file extraction, report execution) rests
on one subsystem, the deferred jobs, which this project models first. Three more are
modelled beside it: the collaborative documents with the browsers that edit them, the
direct messages with their delayed email, and the Plans that an external agent writes.

## 1. Inventory

State and operations, what is hard, and what makes each component correct.

| Component | State and operations | Hard behaviours | Correct when |
|---|---|---|---|
| Deferred job lifecycle (`deferred_jobs/`, `database/deferred_jobs.py`) | the job record: status, dispatch state, attempt, lease, retry time, revision, checkpoint, receipt, delivery markers; start, claim, persist under the claim, retry, wait, complete, fail, deliver, cancel, recover | duplicate deliveries, lapsed leases, blind saves, commits with unknown outcome, crashes between effects | one outcome; a fenced change made at most once, only by the owner, never with a withdrawal once a receipt exists; every job ends and is delivered |
| Reconciler control (`deferred_jobs/scheduler.py`) | control record: tracked jobs, intent, generation, applied intent, lease; Cloud Scheduler job; boundaries, scan and repair, synchronization | the scan races boundaries, provider calls fail or land late | membership is exact; a converged record is true; runs while needed, pauses when idle |
| Target-scoped lock (`deferred_jobs/locks.py`) | one lock per form, naming its operation; reserve, compare-and-delete, stale readers | repeated requests, failed starts, readers acting on old reads | one AI run per form; no lock outlives its operation |
| Autofill review, form change (`deferred_jobs/adapters`) | pending change on a form, per-entry receipts, checkpoints, review choices | pausing and resuming a batch over many entities | every entry is converted once, or the change is rejected whole |
| Plans of an external agent (`ai/external*`, `database/agent_api.py`, `ai/reporting/uploads.py`) | report, its claim, upload manifest, files, stored copies, notification; open a batch, finalize it, submit, skip, execute, delete | leases that expire under a slow request, commits with unknown outcome, mutations that read before another's commit, an execution that saves what it remembers | manifest and files agree; nothing needed is cleaned up; a proposal under review changes only by a submission |
| Execution ledger (`ai/reporting`) | actions of a report and their results | a job that stops between two actions | an action is applied once |
| AI email (`email/`, `database/ai_email.py`) | mailbox events, claims, acceptance | redelivered webhooks, polling overlap | an event makes one report |
| Notifications and delayed email (`notifications`, `database/notification_email.py`, `email/notifications`) | unread aggregates; a candidate row per recipient and conversation, its tasks, its lease; capture, schedule, claim, check, send, release | a message captured while the row is delivered, repeated tasks, a process that stops | each message mailed at most once; none that is still awaited is without a task |
| Messaging (`messaging`, `database/messaging.py`) | conversations, messages, unread totals, the pages; send, open, read, hide, clear | concurrent senders and readers, old pages | counters agree with the messages; only what was shown becomes read |
| Ingress (`ingress.py`, `database/ingress.py`) | request leases and rate windows | repeated provider requests | at most one holder |
| Collaborative documents (`cache/documents.py`, `document_updates.py`, `src/lagniappe/web/routes/home/sync.py`, `poll.py`) | working state in Redis (generation, revision, base, deltas), checkpoint asset, a report's marker; post, poll, publish, recover | compaction racing appends, expired locks, eviction, stale reads of the asset | saved content is only ever added to; nothing is shown as saved that is not |
| Mutations (`src/lagniappe/core/mutations`, `database/transactions.py`) | plans of writes, guards, effects | conflicts, partial projections | all or nothing under the guards |
| Migrations (`database/migrations.py`) | step progress, lock | interruption and repetition | steps run in order, once |
| Caches, polling (`cache`, `polling`) | Redis projections, change feed | lost or reordered updates | a reader converges |
| Remote MCP (`database/remote_mcp.py`) | grants, rotating tokens | concurrent refresh | one live successor of a token |
| Tasks (`tasks`) | completion, recurrence | repeated completion | one successor per occurrence |
| Restrictions (`src/lagniappe/core/restrictions.py`) | roles, derived permissions | reconciliation after change | derived equals defined |
| Browser (`src/src/script`) | document, send queue, cursor, dirty mark, IndexedDB record; forms and views | reload, lost answers, replay without a page | what the user typed is saved or kept; a clean page is saved |

The others (forms, filters and links, AI planning and providers, file storage, web routes
and templates, declarations, installer, build tools, tests) shape data or talk to one
outside service and keep no state that several processes change; `PROJECT.json` lists each.

How they meet: requests call `DeferredJobs.start` and `cancel`; Cloud Tasks calls
`DeferredJobRunner.run`; Cloud Scheduler calls `DeferredJobRecovery.reconcile`. The job's
adapter reaches the domain (`prepare`, `inspect`, `apply`, `cleanup`, `failure`). Every
transaction that may change whether a job needs recovery also updates the control record,
and its caller then synchronizes the schedule. Autofill reserves its form in the
transaction that creates its job, and the lock is one of the guards of its answers.
Browsers reach a document by `POST /l/sync` and by polls, and the execution of a report
adds to it through a staged checkpoint, a commit and a publication. Sending a message
commits it with both counters and then captures it in the recipient's email row, which a
Cloud Task delivers later. A Plan is a report: agent requests change it under a claim, the
owner's mutations and the clean-up of its job only while no claim is alive; the worker that
executes it asks for nothing but its job.

## 2. Modules

| Module | What it is |
|---|---|
| `JobRecord` | the record of a job, and the tests and updates its transactions apply, as pure operators |
| `DeferredJob` | the job with all its actors; one action per transaction, blind save or outside effect |
| `JobLifecycle` | what a job promises its requester: open, decided once, closed; committed at most once |
| `MCDeferredJob` | symmetry of the workers, for safety runs |
| `SchedulerControl` | the control record, its boundaries, repair and synchronization, and the provider |
| `JobLock`, `MCJobLock` | the form's lock with its requests, jobs and readers; an instance with one form |
| `DeferredJobProofs` | proofs: what the record's updates keep, the types, then arbitration and finality |
| `DeferredJobRefinement` | proofs: a success is earned, and the job implements `JobLifecycle` |
| `DeferredJobDelivery` | proofs: the reconciler's list is exact, and what a complete delivery has done |
| `JobLockProofs`, `SchedulerControlProofs` | proofs |
| `DocumentSync`, `MCDocumentSync` | one document: checkpoint, working state, browsers, their records, a report; an instance with symmetric browsers |
| `DocumentSyncProofs` | proofs: the types, then cursors, marks, clean pages, the report's addition, and that nothing is lost |
| `Messaging` | conversations, messages, totals and pages, one action per transaction |
| `MessageEmail`, `MCMessageEmail` | extends `Messaging` with captures, candidate rows, tasks and deliveries; three users and two conversations |
| `MessageEmailProofs` | proofs: the messages, their counters and totals, the mailing beside them, its budget, and that no row is stranded |
| `AgentPlanClaim`, `MCAgentPlanClaim` | one Plan with its claim, requests, mutations, uploads and executions; an instance with symmetric requests |
| `AgentPlanClaimProofs` | proofs: the types, then manifest and files, clean-up, what workers remember, review and notification |

### DeferredJob

`job` is the stored entity; `mem[p]` is the copy actor `p` holds, and `pc[p]` its next
step. The actors are `start` (the request), the `Workers` (deliveries; a worker is also the
lease token it draws, which is why a worker claims only when no actor remembers its
token), `cancel`, `reconcile` and `feedback`. Two forms of write are kept apart, because
the code's safety depends on it:

* `Persist`: `update_claimed_deferred_job`, named fields under the caller's token. A lost
  claim (`ClaimLost`) ends the actor.
* `BlindSave`: `Entities.save(job)`, the whole entity from memory, which neither compares
  nor tracks. `start` makes three of them; deliveries without a token make the others.
  `lost` records whose blind save replaced a record it had not seen: the properties below
  say for which of them they hold.

Times are the stages that the code distinguishes (a lease is live, lapsed or past the
reconciler's grace). They pass in any order with everything else. A lease that lapses
under a working owner, and a request that outlasts one of these times, is a fault: the
heartbeat thread and the request deadline would otherwise prevent it.

A job's `type` fixes what its adapter declares and how it applies:

| Type | Prepares | Applies | Notifies |
|---|---|---|---|
| `autofill` | again after an interruption; errors are not retried | answers, receipt and the test of status, token and receipt in one transaction | from the start |
| `report` | once: an interrupted report fails | proposal and the test of status and token in one transaction, no receipt | from the start |
| `file` | again; errors are retried | after reading ownership, by an unconditional save | at the end |
| `execution` | nothing, the ledger is its checkpoint | as `file`, and it may wait for a dependency | never |

### SchedulerControl

`required` are the jobs whose stored state needs recovery and `control` is the control
record. `Open`, `Close` and `Shift` are the transactions of `DeferredJob` that cross a
tracked boundary; `Drift` is one of its blind saves. `Synchronize` follows
`synchronize_deferred_job_reconciler` step by step; `Tick`, `Scan`, `Repair` and
`Unrepaired` are `_repair_reconciler_control`. The provider calls the reconciler only while
its job is enabled, so that this component also decides its own liveness. `faults` is the
set of the kinds of fault that have happened.

### JobLock

`Create` is the transaction that creates the job with its lock; `FailCleanup` and
`FailStart` are the two halves of `_fail_unclaimed_start` in the code's order;
`ReadLock`, `ReadJob` and `DropLock` are the three reads and writes of a status reader.
`failing` are the operations of which a start has failed.

### DocumentSync

Content is a set of edits, and merging two Yjs updates is their union: the CRDT library is
trusted to be commutative and idempotent, and the properties say which edits are where.
`saved` is the checkpoint asset, `live` the working state in Redis (what it was compacted
to, the deltas after that, and the generation and revision that a cursor names), `marker`
the report's pending addition. A browser has a `tab` (mounted or not, content, queue,
cursor, dirty mark, snapshot), an IndexedDB `record`, at most one `post` and one `poll` in
flight. A poll's server side is `Serve`, a post's `Begin`, `Reconcile`, `Apply`, `Store` and
`Refresh`, because the route holds a lock over them that may expire between any two
(`Expire`). `ReplayHeadless`, `ReplayOpening` and `ReplayOpen` are the three ways in which
`_reconcile` meets a stored record. `Stage`, `Check`, `Append` and `Publish` are the
report's batch; `Reload` and `Recover` its repair after a crash. Every other writer of a
document (restore, import) goes through the same publication.

The faults of a run: a lost answer, an expired lock, an eviction, a report that stops.

Nothing of the protocol is left out of the model because it loses content. Where a step of
the code lets edits go, the history variable `astray` remembers which, and the properties
speak of the other edits. There are three such steps, and each adds only the edits it
concerns: an editor that opens on the cursor which a replay without a page left behind
(`Forgotten`); a checkpoint accepted without the update that would announce its edits
(`Unannounced`, finding 4); and `Refresh`, when the state it names after its checkpoint was
made from older assets. Section 5 shows what fails when one of them is not remembered.

### Messaging and MessageEmail

A conversation is the record of its counters; a message is its sender, its operation
identifier, its sequence and who has hidden it. `view[t][u]` is what `u`'s page last
loaded, which `MarkRead` sends back. A user has one total, `count[u]`.

`row[k]` is the candidate row of a recipient in a conversation, with the sequence it was
last captured for, the one it was scheduled for, whether five minutes have passed, and the
worker that holds it. A task is named by a row and a sequence, and an existing name is left
alone (`Enqueued`). A capture is the rest of the sender's request after its commit:
`Upsert`, `Enqueue`, `MarkScheduled`, and it may stop anywhere (`Stop`, a fault). A worker
takes a task (`Take`), reschedules it or claims the row (`Reschedule`, `Claim`), looks at
the conversation again (`Check`), sends (`Mail`) and records it (`Finish`).

### AgentPlanClaim

`report` is the stored report and `claim` the claim row beside it. `request[r]` is an actor
with the report it read or last committed (`expected`). A commit compares the whole report
and the token, but not the lease, as `commit_plan_operation` does. A mutation of the owner
compares the whole report and asks for no live claim; the report it compares is the one it
loaded in its own request (`Read`; `src/lagniappe/web/routes/tools/main.py:374`, `:499`), not
the one the owner's page showed, so that what an old page may ask for is not restricted.
`Claim`, `Load`, `Commit` and `Release` are common to the three kinds of API request;
`Prepare` opens the upload sessions, `Copy`, `Commit`, `CleanSource` and `Resume` are the
loop over the manifest. `Expire` may end a lease at any time. `LoseCommit` is a commit of
which the caller does not learn whether it happened.

`job[j]` is the job of an execution, `owner[j]` the worker with its lease and `work[k]` what
a worker does, with the report it remembers. `Begin` also takes a job over, at any time.
`Check` is `ensure_active`; each of `Start`, `Wait` and `Break` then saves the remembered
report over whatever is stored, a deleted report included (`ai/reporting/execution/runner.py:95`,
`:156`, `:182`, `:225`), and `Finish` compares only the receipt of the last commit
(`batch.py:223`). `Fail` and `Clean` are `failure()` and `cleanup()`, which read the report
again and are refused by a live claim or another change (`deferred_jobs/adapters/reports.py:463-537`).

## 3. Runs

Every bound is a constant of the configuration and named in its module.

| Run | Instance | Shows |
|---|---|---|
| `cancel_race` | autofill and report, 2 workers, cancel, feedback, 1 fault, 2 tasks | `Arbitration`, `LifecycleSpec` |
| `recovery` | all types, 2 workers, reconciler, 1 fault, 1 task | `TrackedWhileRequired`, `SucceededIsApplied`, `CompleteIsDelivered`, `Arbitration`, `TerminalIsFinal` |
| `finishes` | autofill and execution, 1 worker, reconciler, 1 retry, 1 wait, 1 fault, maximum age | `Finishes` |
| `schedule` | 1 job, a request, the reconciler, 4 boundaries, 1 fault of any kind | exact membership, no stale pause, and three liveness properties |
| `lock` | 3 operations on 1 form, 2 requests, 1 reader, with fairness | `ActiveHoldsLock`, `OneActivePerTarget`, `LockGoes` |
| `stale_start_revives` | 1 worker, cancel | finding 1 |
| `receipt_then_failure` | 1 worker, cancel | finding 2 |
| `failed_start_unlocks` | as `lock` | finding 3 |
| `documents` | 2 browsers, 2 edits, 2 changes, 2 posts and 2 mounts in all, 1 poll in flight, 1 fault | eight properties of the document, its cursors, pages and records |
| `resent_checkpoint` | as `documents`, with a failed send repeated | finding 4 |
| `messages` | 3 users, 2 conversations that share one, 1 subscriber, 4 changes (2 while somebody is mailed, and only the mailed open pages then), 1 hidden copy, 1 fault | counters, lists, reading and email |
| `plans` | 2 creators, 2 finalizers, 1 submitter that repeats, 1 mutation, 1 execution with 1 worker, 2 proposals, 2 files per batch, 2 requests at work at once, 1 fault | manifest and files, clean-up, review, notification |

Why the bounds are enough. One job: jobs meet only in the control record and in the lock,
which have modules of their own. Two workers: a claim is compared only with the latest one,
so a third stale worker behaves as the second. One fault together with a lapse is a full
takeover: the stalled owner, its repeated delivery, and the return of the owner at any
later step. One retry and one wait reach both sides of the retry limit, whose test counts
attempts minus waits. `MaxAttempts` saturates above what the retry test can tell apart.
Four boundaries are an open, a claim, a close and a second open; a synchronization can be
overtaken at each of its steps. Three operations on one form are a holder whose start fails,
one that takes its place, and one that is refused; forms share nothing, and the theorems about
the lock speak of any number of them. Deadlock checking is off everywhere
because every one of these systems may come to rest.

Documents: a lost edit needs one that has it and one that has not, so that two browsers
and two edits (of which the report's addition is one) suffice; two posts are a stale one and
a current one; two mounts let one page close, be replayed and open again; one poll at a
time is enough because a poll changes only its own browser and what an empty Redis is
filled with. Messages: two
conversations that share a user show that totals add up; one subscriber with two possible
correspondents meets a capture during a delivery, and four changes are two messages and
two readings, or three messages and one. `NeverStranded` is claimed for one fault: a worker that
stalls beyond its lease acknowledges the task that its successor runs, and if that one then
fails too, nothing is left to deliver the row until the next message. Plans: two batches and two finalizers are a
takeover, with the other batch as bystander; two files let a finalizer be interrupted between
records; a second proposal is a revision; two requests at once are one that lost its claim
and its successor, beside the mutation and the worker. One worker is enough for a save that
comes too late, because its job can fail and be cleaned up under it. A deleted report that
an execution stores again takes two mutations, execute and delete, which this instance does
not have; it was checked in smaller ones (two mutations, one creator and one finalizer,
with one or two executions), and the theorems cover it.

The configurations of `DeferredJob` bound eager redispatch by the number of outstanding
tasks (`Recover`): without it the reconciler may enqueue without end.

### Fairness

`DeferredJob!Fairness`: a request or a delivery that runs goes on (or crashes, which is a
counted fault), Cloud Tasks delivers what it accepted, leases and waits pass (the job may or
may not reach its maximum age), and the scheduler calls the reconciler as long as the control record lists the job. The last is what
`SchedulerControl` shows for itself (`RunsWhileRequired`). Nothing is assumed of
cancellations, heartbeats or faults.
`SchedulerControl!Fairness`: a running process goes on, a lease lapses, and an enabled
schedule calls the reconciler. `GiveUp`, `Crash` and `Land` are never forced.
`JobLock!FairSpec`: an active job ends and terminal delivery reaches its cleanup, which is
`DeferredJob!Finishes` (a job whose start died is listed and recovered). A failed start has no
terminal delivery, and a repeated request that found it still active may have given it the lock
back; only a status reader or the next operation removes that lock. So a reader goes on, and reads
a lock that is there again and again: the pages that show the form poll it
(`src/lagniappe/web/routes/home/poll.py:236`). Without fairness of the readers `LockGoes` fails.
The other modules state safety only. That a document is saved or a message mailed in the
end depends on a user who stays online and on a provider that answers; instead,
`NeverStranded` states the safety half, that there is always something left that will act.

## 4. Findings

1. `stale_start_revives`: `start()` writes the whole job three times after its creation
   (`deferred_jobs/service.py:295`, `:310`, `:327`). A cancellation stored in between, which
   the code calls durable (`:444`), is replaced by a queued job.
2. `receipt_then_failure`: if the commit of an autofill's answers is reported as an error,
   `runner.py:304` records a failure although the receipt, which "proves that authorization
   and guarded apply already succeeded" (`:162`), is stored.
3. `failed_start_unlocks`: `_fail_unclaimed_start` releases the form's lock
   (`service.py:107`) before the job is terminal, so that a second operation can be active
   on the form, of which `src/documentation/BACKEND_JOBS.md:112` says that it "reserves one
   AI run".
4. `resent_checkpoint`: after a post that failed, the browser's queue is empty
   (`src/src/script/elements/editor/collaborative.mjs:286`), and the checkpoint it sends next
   has no update. The server compacts to it without a new revision
   (`cache/documents.py:328`), so that another page with the same cursor is not sent these
   edits; its own checkpoint counts as current and removes them from the saved document.
   `src/documentation/SYNC_DOCUMENTS.md:67` says that the protocol "prevents both lost
   concurrent edits and Redis-only state".

Further behaviours of documents that lose content, which the model has and the properties
excuse by name, because no document of the repository says which side is to prevent them: a
replay without a page remembers the cursor of content that no page holds
(`src/src/script/shared/sync.mjs:412`), so that a page mounted later is sent nothing and its
checkpoint empties the document (`Forgotten`); an eviction between a post's update and the
refresh of its working state, with a poll that read the old asset
(`cache/documents.py:365`; `Refresh`). And one that `RecordOutlived` excuses: a
replay that meets an editor not yet initialized (`ReplayOpening`) merges the record into it, gets no data to save
(`src/src/script/elements/editor/collaborative.mjs:327`) and deletes the record unsent
(`sync.mjs:427`), although `src/documentation/SYNC_DOCUMENTS.md:203` and `:242` keep it until a
checkpoint was accepted; the edits then live only in that editor, which calls itself clean.
`RecordOutlived` without its second disjunct fails on exactly this step.

Not in the model: two pages of one browser share one IndexedDB record; after a lost answer
a page whose snapshot equals its content may never save again; a replay packages its queue
outside the serialized send.

Behaviours of messages: hiding a message that was cleared unread takes one from the
counter of a later message (`src/lagniappe/core/properties/message_conversation.py:141`),
which `UnreadBounded` leaves room for, no more, and which lowers both sides of `CountsAgree`,
so that a counter that is too low for this reason violates nothing; `MarkRead` then finds nothing unread, and the email
still goes out. Captures that overtake each other leave the row at an older message. A
sender that stops after its row is written while an earlier delivery is in progress leaves
`scheduled_sequence` set, and no later message of that conversation is scheduled
(`Strands`; `database/notification_email.py:115`).

Behaviour of Plans: when the answer that opens a batch is lost, or its creator stops after
the commit, nobody knows the upload sessions, and no operation discards a pending manifest;
the draft can be neither finalized nor submitted until it is deleted
(`database/agent_api.py:274`). A worker that loses its job between its check and its save puts
its own report back over what is stored by then (`Overruns`, which `ReviewStands` excuses): a
Plan is submitted and executed, its worker begins and checks, the job fails and is cleaned up,
so that the Plan is ready again; a second proposal is submitted, and the worker's first save
makes the first one the running proposal. In the same way a Plan deleted after the clean-up is
stored again without its files. The execution's adapter ignores whether its saves at the end
were accepted (`deferred_jobs/adapters/reports.py:504`, `:535`).

The models of the jobs show further behaviours that the properties excuse by name: a job that a
blind save makes active again without listing it; a revision that goes back (`runner.py:386`);
a feedback message saved after the terminal notification (`service.py:551`); an unfenced
change saved after a cancellation (`adapters/files.py:140`); a pause that the provider
applies late; a schedule that stays paused because the request stopped between creating
its job and synchronizing. They are listed under `hazards` in `PROJECT.json`.

## 5. Proofs

| Theorem | States | Rests on |
|---|---|---|
| `DeferredJobProofs!Arbitrated` | a fenced change is made at most once, by the owner of a running job; autofill's exactly with its receipt, never for a withdrawn job | `RecordAssumption`, `ParametersAssumption` |
| `DeferredJobProofs!TerminalStays` | no step but an unconditional save of `start` replaces a terminal status | the same |
| `DeferredJobProofs!TypeCorrect` | types of the record, the actors' copies and the counters | the same |
| `DeferredJobRefinement!SuccessIsEarned` | a job that reports success has its change stored | the same |
| `DeferredJobRefinement!ImplementsLifecycle` | the job implements `JobLifecycle` | the same |
| `DeferredJobDelivery!ListingIsExact` | the reconciler lists the job exactly while its state needs recovery | the same |
| `DeferredJobDelivery!CompleteIsCleaned` | a complete delivery has cleaned up, and its notification exists | the same |
| `DeferredJobDelivery!CompleteInforms` | a complete delivery left a final notification | the same, and no late message (`Timely`) |
| `JobLockProofs!TypeCorrect` | types of the locks, the operations, the requests and the readers | `LockAssumption` |
| `JobLockProofs!ActiveHoldsLockHolds` | an active operation, no start of which has failed, holds its form's lock | the same |
| `JobLockProofs!OneActive` | two such operations are never active on one form | the same |
| `SchedulerControlProofs!TypeCorrect` | types of the control record and of the processes | `SchedulerAssumption` |
| `SchedulerControlProofs!MembershipExact` | the membership lists exactly the jobs that need recovery, unless a blind save changed one past it | the same |
| `SchedulerControlProofs!StalePauseLoses` | a converged control record says what the provider does, so no stale pause wins over a new job, while no change lands late and no process outlives its lease | the same |
| `AgentPlanClaimProofs!TypeCorrect` | types of the report, the claim, the requests and the manifest | `PlanAssumption` |
| `AgentPlanClaimProofs!UploadsHold` | manifest and files agree, and only a draft has pending uploads | the same |
| `AgentPlanClaimProofs!EvidenceHolds` | no clean-up takes a copy or an upload that the report still needs, unless it was deleted and an execution stored it again | the same |
| `AgentPlanClaimProofs!ReviewHolds` | a proposal under review changes only by a submission, or by a worker's save after it lost its job | the same |
| `AgentPlanClaimProofs!DismissedHolds` | a dismissed notification does not come back | the same |
| `DocumentSyncProofs!TypeCorrect` | types of the checkpoint, Redis, pages, records, posts, polls and the report; the log is in order | `DocumentAssumption` |
| `DocumentSyncProofs!CursorsCover` | whoever holds a cursor of the current generation holds all up to it, but for edits `astray` | the same |
| `DocumentSyncProofs!MarksAreHonest` | Redis never names a checkpoint whose edits it does not hold, but for edits `astray` | the same |
| `DocumentSyncProofs!CleanMeansSaved` | a page without unsaved work has had its edits stored, but for edits `astray` | the same |
| `DocumentSyncProofs!AdditionIsDurableFirst` | nobody sees a report's addition before it is durable, unless it went `astray` | the same |
| `DocumentSyncProofs!CheckpointGrows`, `RedisGrows` | no step takes from the checkpoint, or from Redis while it is there, an edit that is not `astray` | the same |
| `DocumentSyncProofs!RecordsOutlived` | what leaves a browser's record, the record deleted or replaced, is durable, was shown in Redis or is `astray`; but for a replay into an editor that is still opening | the same |
| `MessageEmailProofs!EmailLeavesMessages` | `MessageEmail` implements `Messaging`'s specification | `MessagingAssumption`, `EmailAssumption` |
| `MessageEmailProofs!TypeCorrect` | types of conversations, counters, rows, tasks, captures and workers | the same |
| `MessageEmailProofs!UnreadListedHolds` | what is unread is listed | the same |
| `MessageEmailProofs!ReadWasShownHolds` | only what a page has shown is marked read | the same |
| `MessageEmailProofs!UnreadIsBounded` | a counter counts only what waits, and misses only what was hidden after it was cleared | the same |
| `MessageEmailProofs!TotalsAgree` | a user's total is the sum of the counters of the user's conversations | the same |
| `MessageEmailProofs!MailedOnceHolds` | a message is mailed once, and again only for a fault | the same |
| `MessageEmailProofs!SentWasMailedHolds` | a row ends as sent only for a message that was mailed | the same |
| `MessageEmailProofs!NeverStrandedHolds` | a row in use that was scheduled once keeps a task, a worker at it or a sender about to enqueue one; this survives one fault, unless that is a sender giving up (`Strands`) | the same |

Each is proved for every value of the constants: any workers, job types, attempts and
faults; any operations, forms, readers and requests; any jobs, requests, boundaries and
faults; any creators, finalizers, browsers, files and proposals; any users, conversations,
workers and messages. The assumptions say only that the sets of processes are disjoint from
each other or from the values that stand for "none", that an operation has a form, that a
conversation has two users, and that bounds are numbers.
`MaxAttempts >= MaxRetries + MaxWaits + 2` keeps the saturation of `attempt` out of the
retry decision; no proof uses it.

`Arbitration` says nothing of a worker between the transaction that reads and the one that
writes. The invariant `IInv` of `DeferredJobProofs` does, in `Fits`: a worker at work
remembers its own token, and while the record still shows that token it also shows the
receipt the worker remembers and a status that only the owner could have given it, running
until the worker puts the job off; a report about to be applied was not applied before; a
deliverer remembers the outcome that is stored, and acts without a token only while none is
stored. `Uncreated` and `Changed` relate the changes made to the creation, the receipt and
the status. Every step is then one of three kinds, each a lemma: it leaves outcome and
receipt (`Keep`), it decides an undecided job or gives it to another owner (`Decide`), or
it is the fenced change (`ApplyFencedSafe`). The invariant is claimed only while no save of
`start` has replaced a record it had not seen: `StartSafe` shows that each of them either
repeats what is stored or is such a replacement, and `LostGrows` that this is not forgotten.
Both theorems follow from `IInv` and its step lemma; what each update of the record keeps is
stated once, first.

`EInv` adds what success rests on: whoever still owns the job and is about to record success
has seen the change made (`Earned`). As the lifecycle sees it every step then takes one of
four routes, each an operator: it submits the job, commits its change, decides its outcome,
or rests, which may close a delivery (`Route`). Each route is a step or a stutter of
`JobLifecycle`, so `ImplementsLifecycle` needs no case by action beyond the lemma that every
action takes a route.

For the delivery, `Staged` says that what a stored or remembered entity claims was done is
done, for every step an actor may have reached, and that no step undoes it (`Onward`); this
needs no hypothesis, so `CompleteIsCleaned` has none. Which message came last does: the
delayed feedback (`service.py:551`) and a retry's message (`runner.py:556`) test nothing of
the job when they are saved. `CompleteInforms` is claimed of the behaviours in which neither is
saved over a final notification (`Timely`), and shows that nothing else takes the last word
back: not a second delivery, a crash between notification and link, nor a recovery.

`ActiveHoldsLock` is not inductive: a reader that drops a lock, or a failed start that
cleans up, must be known not to hit an active operation. `IInv` adds that a stored lock
names an existing operation of its form (`LockNamesJob`), that a reader about to drop a
lock read an operation that had already ended, which is final (`ReaderSawEnd`), and that
only a start counted in `failing` cleans up (`RequestNamesOp`). The comparison in `Release`
then leaves every other operation's lock in place. `OneActive` follows because a form has
one lock.

`MembershipIsExact` could be broken only by the publication of an old scan. `IInv` adds
that the generation the reconciler remembers is never ahead of the stored one
(`ScanIsOld`), and that while it still equals the stored one the scan is the truth
(`ScanStands`). Every boundary raises the generation, so a boundary that changes the jobs
makes the equality false for good; nothing else changes either.

`NoStalePause` is about a provider call that is under way while the record changes. Its
invariant `PInv` says what the lease is for: at most one process is between its claim and
its publication, and it is the one whose token the record shows (`Alone`); the record it
read differs from the stored one only by boundaries since, each of which raised the generation
(`Seen`); and what it is about to record as applied is what the provider does (`Applied`). A
record whose generation was applied is then the one whose intent was. The property, and the invariant with
it, excuse the two faults that break this in the code: a change that the provider applies
after its caller gave up, and a process that outlives its lease.

A Plan's `IInv` (`AgentPlanClaimProofs`) has two parts. `PlanInv` must say what a request that
lost its claim may still do. Nothing of a batch exists before its creator's commit (`BatchesBegun`), so a new
batch cannot meet files of its own. What a request remembers is a report it could have been
given (`Knows`): a submitter's has no pending uploads, a mutation that skips saw a Plan for
review. Since every commit compares the whole stored report with the remembered one, it
inherits these facts at the moment of the write. A finalizer, which writes repeatedly, also
needs that a record it saw complete stays complete (`PendingShrinks`), that the copy it made
is there until its own commit or its own refusal (`CopyKept`), and that no file names that
copy before (`CopyNamed`); then a refused commit may take the copy back, and a clean-up of the
source finds its record complete. `Announced` ties the notification to the marker in the
report, which every later commit carries on.

`WorkInv` is about a save that compares nothing. What a worker remembers was submitted, with
its uploads whole, and announced (`HeldSound`), so that storing it at any time keeps manifest,
files and marker. Uploads end before the first execution, so that every worker and the
stored report have the same (`HeldAlike`, `ReportAlike`); the proposal and the skips are those of
the job, for all its workers and for a report that names it. A save by a worker whose
job the report still names therefore changes neither, and every other save is one that
`ReviewStands` excuses. `Linked`, `Reviewed` and `Claimed` keep submissions and executions apart.
A save may also store a deleted report again, whose files are gone: `NotDraft` says that it
is never a draft again, and `EvidenceKept` speaks of reports to which this did not happen.

The documents' `IInv` is about what a party knows of Redis, and every part of it is up to the
edits `astray`. `Holds` says what a cursor
promises of the state it is compared with: if the generation is the same, the content covers
every update up to the cursor, and the compacted base once the cursor has reached it.
`Covered` asks this of pages, records, posts, polls and answers; of the cursor that a page
without an editor remembers it asks only that it is not ahead, and `NamedIsHeld` shows that
an editor mounted on it lacks exactly what `Forgotten` then adds to `astray`. Redis moves on in
few ways (`Goes`): it is lost, begins a generation nobody can have a cursor of, or keeps its
generation and appends, compacts or marks; a lemma shows that all of them keep `Holds`, so
that each step of the server need only be shown to be one. The conflict check makes a cursor
exact at the moment of a checkpoint, and an exact cursor is held by whoever holds the whole
state (`ExactCursor`): that is why an accepted checkpoint loses nothing. Between the check
and the writes the lock may expire. `Seeded` says what a post may rely on then: while it is
among the `current` ones, the checkpoint is the one it loaded; what it has published is in
Redis before it is in Datastore. `Recorded` and `Clean` say that what a record holds, or a user
typed, is always in the page, in the queue or under way, and `Plain` that the report's addition
is nowhere before it is durable.

Nothing is assumed of the behaviours: all theorems are of `Spec`. How little `astray` excuses is
shown by taking its three sources away. If one of them is not remembered, TLC finds in the
instance of `documents`

| Not remembered | Violated | Not violated in the instance |
|---|---|---|
| `Forgotten` | `CursorCovers`, `MarkHonest`, `AdditionDurableFirst`, `SavedGrows`, `LiveGrows`, `RecordOutlived` | `CleanIsSaved` |
| `Unannounced` | `CursorCovers`, `MarkHonest`, `CleanIsSaved`, `SavedGrows`, `LiveGrows`, `RecordOutlived` | `AdditionDurableFirst` |
| `Refresh` | `MarkHonest`, `CleanIsSaved`, `SavedGrows`, `RecordOutlived` | `CursorCovers`, `AdditionDurableFirst`, `LiveGrows` |

Each source names the edits of its own step and no others. An edit that went astray stays so,
since any later state may miss it; the loss of any other edit is a violation.

The messages are proved first. `PageHonest` says that a page is never ahead of its
conversation and, while its revision is the stored one, shows the last message; the
comparison in `MarkRead` then yields `ReadWasShown`. `EmailLeavesMessages` maps each step of
the mailing to a step or a stutter of `Messaging`, so these invariants hold beside it.
`MailedOnce` needs a count: `Budget` adds, for each message, the mails made, the deliveries
that may still mail it and one claim that may still be made, and bounds the sum by one plus
the faults. A claim moves one unit from the last to the second, a mail from the second to the
first; only a fault allows another claim, and a message that enters a row has none of the
three yet (`Future`), because each is captured once. `SentWasMailed` rests on `Current`, that a
worker which holds its row delivers the message the row names, and `Mailing`, that it
has mailed it.

Counting is done with sets. `UnreadBounded` compares a counter with two sets of messages,
what waits and what was hidden after it was cleared; messages are finitely many and numbered
(`Numbered`), so a step adds one message to a set, takes one away, or exchanges a message for
its hidden copy, and lemmas on cardinalities say what becomes of the count. `CountsAgree`
gives each unit of a counter an element of its own (`UnreadOf`): the total is the number of
these elements, and the same lemmas apply to the units a step adds or takes away.

`NeverStranded` is the hardest of them, because a worker that acknowledges its task takes
away what a row may rest on. `StandingInv` has two parts. `TaskInv` says what a task may
mean: nothing of a message exists before it is put in its row (`Ahead`), a sender or
worker past its enqueue has a task (`Delivered`), and the task named after the row's own
message is not run before the row is due (`OnTime`). `Kept` says what a row in use rests on
once it has had a task. An `Anchor` is a task, or a capture about to enqueue one, of which
no worker is `Leaving`: a worker leaves when it acknowledges whatever becomes of the row, because
it lost the row or because it was early and saw another task. While nothing has failed every such
row has an anchor, the task of the worker that holds it included, since a worker that holds
a row keeps its lease (`Leased`) and ends the row with its task. A fault may take the row away
from its holder; then it has an anchor or somebody else holds it (`Held`). A second fault may take
both, which is why the property speaks of one. Each step keeps every anchor or gives the row a
new one: an early worker gives way to the task of the row's message, which `OnTime` shows to
be nobody's, and a message put in a row that is held, where `Upsert` enqueues again, has
a task to come that nobody can know. With
`UpsertPendingOnly`, the mistake the run tries, this last case fails. A sender that gives up
between a row and its task (section 4) is a fault that takes the only anchor at once; where
it may happen (`Strands`), property and theorem speak of behaviours without a fault.

Only model-checked: the liveness properties, that is `Finishes`, `LockGoes` and those of
`schedule` (`RunsWhileRequired` and the other two), because liveness under fairness is beyond
the prover.

## 6. Not modelled, and simplifications

* The failure-only notification policy of email ingestion, external email, deleted inputs,
  and the purge of old jobs.
* A task is a count: task names, and the silent success of a name already used, are not kept.
* The provider's work and the domain's data: `prepare` is a checkpoint, a change is `applied`,
  counted to two. A ledger of several actions is one change.
* The deadline of an attempt is one of the errors that may happen at any step.
* A second notification of a file job made after a crash between its save and its link is
  the same notification.
* A disabled task queue is a choice of the request's dispatch; the reconciler then meets a
  failed dispatch, which is a fault.
* Documents: content is a set of edits, never text; presence, mentions, the touch of the
  parent, legacy markup, history versions, the browser's read cache and the delays of
  retries are left out. A browser has one page and one post in flight; a lock is released on
  failure even when the process is dead (it would expire); a batch is one document.
* Messages: an aggregate row that is missing is zero; payload conflicts, eligibility, the
  daily digest, opt-out epochs, ordinary notifications and the Redis copy of the counts are
  left out. Presence is a free choice of `Check`. Every run acknowledges its task. The
  number of messages mailed, of hidden copies and of changes is bounded.
* Plans: a request refused before its claim leaves no trace and is left out, as are Plans
  that are answers only, the contents and limits of files, retries of aborted transactions,
  request fingerprints, the time of modification, reference files, and the email of the
  notification. So are executions that wait before their start (`migration_pending`), corrections of a
  Plan (`superseded_by`), and Plans executed in several batches: an execution has one commit.
  A failure without a ledger makes the Plan ready again, which is what it was before. The second
  `ensure_active` before a checkpoint is part of the commit. Deletions that are best effort
  succeed, apart from the one fault `KeepSource`. A creator or finalizer asks once.
* Not modelled at all: ingestion of AI email, ingress leases, remote MCP tokens, migrations,
  task recurrence, permissions, the change feed, form conversions, and whatever only shapes
  data or drives an outside service (forms, providers, templates, installer, build tools).
  They are most of the repository's lines.
* In `JobLock`, an operation's run is `Apply` and `End`; `DeferredJob` has its detail.

## 7. Plan

Done: the deferred jobs (`JobRecord`, `DeferredJob`, `JobLifecycle`, `SchedulerControl`,
`JobLock`), documents (`DocumentSync`), messages (`Messaging`, `MessageEmail`) and Plans
(`AgentPlanClaim`). What would come next, in this order:

1. Documents: the record that `ReplayOpening` deletes, as a run of its own; several pages of
   one browser.
2. `FormChange`: pending change, batches, per-entry receipts, pause and resume, refining a
   conversion in one step.
3. Ordinary notifications with the feedback, retry and terminal messages of a job in any
   order; the daily digest.
4. `Ingress`, remote MCP tokens, migrations, and task recurrence as pure algorithms against
   a reference definition.

----------------------------- MODULE DeferredJob -----------------------------
(***************************************************************************)
(* One deferred job from its creation to the end of its terminal delivery,  *)
(* and every actor that writes its record: the request that starts it, the   *)
(* Cloud Tasks deliveries that run it, the cancellation, the five-minute      *)
(* reconciler and the delayed feedback message                               *)
(* (core/tools/deferred_jobs, core/tools/database/deferred_jobs.py).         *)
(*                                                                         *)
(* A step is one Datastore transaction, one blind save, or one effect        *)
(* outside Datastore; between two steps of an actor any other actor may run. *)
(***************************************************************************)
EXTENDS JobRecord

CONSTANTS
    Callers,              \* who acts besides start and the workers
    Ages,                 \* the job may reach its maximum age
    MaxRetries,           \* length of DEFERRED_JOB_RETRY_DELAYS
    MaxWaits,             \* bound: dependency waits
    MaxAttempts,          \* bound: attempt saturates here
    MaxTasks,             \* bound: outstanding Cloud Tasks deliveries
    MaxFaults             \* bound: crashes, stalls, errors, duplicates

ASSUME ParametersAssumption ==
    /\ Callers \subseteq {"cancel", "reconcile", "feedback"}
    /\ {"start", "cancel", "reconcile", "feedback"} \cap (Workers \cup {NoToken}) = {}
    /\ Ages \in BOOLEAN
    /\ {MaxRetries, MaxWaits, MaxAttempts, MaxTasks, MaxFaults} \subseteq Nat
    /\ MaxAttempts >= MaxRetries + MaxWaits + 2   \* the retry decision never saturates

VARIABLES
    job,       \* the stored record
    tracked,   \* the job is listed in the control record's tracked_jobs
    tasks,     \* outstanding task deliveries
    note,      \* the notification entity: "absent", "pending", "final"
    cleaned,   \* adapter.cleanup has run (lock released, uploads removed)
    applied,   \* times the domain mutation was made, counted to 2
    quiet,     \* modified + grace has passed since the last write of the record
    aged,      \* created + maximum age has passed
    pc,        \* what each actor does next
    mem,       \* each actor's entity in memory
    faults,    \* faults spent
    lost,      \* whose blind save replaced a record it had not seen
    late       \* a domain mutation was made without owning a running job

domain == <<note, cleaned, applied, late>>
clock  == <<quiet, aged>>
vars   == <<job, tracked, tasks, domain, clock, pc, mem, faults, lost>>

Actors == Workers \cup {"start"} \cup Callers

Deliver == {"stale", "cleanup", "cleaned", "notify", "link", "notified", "release"}
Attempt == {"begin", "prepare", "check", "apply", "complete"}
Requeue == {"retry", "wait", "enqueue", "mark", "unsent", "renote"}
Labels  == Attempt \cup Requeue \cup Deliver \cup
           {"idle", "fail", "create", "save", "started", "dispatching", "send",
            "confirm", "unconfirm", "disabled", "failstart", "failnote", "done", "cancel",
            "scan", "recover", "feedback", "remind"}

Rest(p) == IF p \in Workers THEN "idle" ELSE IF p = "reconcile" THEN "scan" ELSE "done"

Init ==
    /\ job = Blank /\ tracked = FALSE /\ tasks = 0
    /\ note = "absent" /\ cleaned = FALSE /\ applied = 0 /\ late = FALSE
    /\ quiet = FALSE /\ aged = FALSE
    /\ pc = [p \in Actors |-> CASE p = "start"    -> "create"
                                [] p = "cancel"   -> "cancel"
                                [] p = "feedback" -> "feedback"
                                [] OTHER          -> Rest(p)]
    /\ mem = [p \in Actors |-> Blank]
    /\ faults = 0 /\ lost = {}

-----------------------------------------------------------------------------
(* The forms of step *)

GoTo(p, label) == pc' = [pc EXCEPT ![p] = label]

Leave(p) == GoTo(p, Rest(p)) /\ mem' = [mem EXCEPT ![p] = Blank]

Fault == faults < MaxFaults /\ faults' = faults + 1

Queued(n) == IF n < MaxTasks THEN n + 1 ELSE n

\* A worker's reply decides whether Cloud Tasks delivers again: 200 ends the
\* delivery, an error repeats it.
Redelivery(p) == IF p \in Workers THEN {tasks, Queued(tasks)} ELSE {tasks}

Touch(p, r) == mem' = [mem EXCEPT ![p] = Seen(r)]

Owns(p) == job.token = mem[p].token

\* update_claimed_deferred_job: named fields, only under the caller's token.
Persist(p, updates) ==
    /\ Owns(p)
    /\ job' = Updated(job, updates)
    /\ tracked' = Tracking(tracked, job, Updated(job, updates))
    /\ Touch(p, Updated(mem[p], updates))
    /\ quiet' = FALSE
    /\ UNCHANGED <<lost, aged>>

\* DeferredJobClaimLostError: the actor gives up.
ClaimLost(p) ==
    /\ ~ Owns(p)
    /\ Leave(p)
    /\ tasks' \in Redelivery(p)
    /\ UNCHANGED <<job, tracked, clock, lost>>

\* Entities.save(job): the whole entity from memory, no guard, no tracking.
BlindSave(p, r) ==
    /\ job' = r
    /\ Touch(p, r)
    /\ quiet' = FALSE
    /\ lost' = IF Seen(job) = mem[p] THEN lost
               ELSE lost \cup {IF p = "start" THEN "start" ELSE "deliver"}
    /\ UNCHANGED <<tracked, aged>>

NoWrite == UNCHANGED <<job, tracked, clock, lost>>

-----------------------------------------------------------------------------
(* DeferredJobService.start *)

StartCreate ==
    /\ pc["start"] = "create"
    /\ \E type \in Types :
         /\ job' = Submitted(type)
         /\ tracked' = Tracking(tracked, job, job')
         /\ note' = IF NotifiedAtStart(job') THEN "pending" ELSE note
         /\ Touch("start", job')
    /\ GoTo("start", "save")
    /\ quiet' = FALSE
    /\ UNCHANGED <<tasks, cleaned, applied, late, aged, faults, lost>>

\* Once recovery scheduling is on, the job and its notification are saved again.
StartSave ==
    /\ pc["start"] = "save"
    /\ BlindSave("start", mem["start"])
    /\ note' = IF mem["start"].noted THEN "pending" ELSE note
    /\ GoTo("start", "started")
    /\ UNCHANGED <<tasks, cleaned, applied, late, faults>>

\* adapter.started; its exception ends the operation.
StartStarted ==
    /\ pc["start"] = "started"
    /\ \/ /\ BlindSave("start", [mem["start"] EXCEPT !.started = TRUE, !.rev = @ + 1])
          /\ GoTo("start", "dispatching")
          /\ UNCHANGED faults
       \/ /\ Fault
          /\ GoTo("start", "failstart")
          /\ UNCHANGED mem /\ NoWrite
    /\ UNCHANGED <<tasks, domain>>

StartDispatching ==
    /\ pc["start"] = "dispatching"
    /\ BlindSave("start", [mem["start"] EXCEPT !.dispatch = "dispatching",
                                               !.sent = "fresh", !.rev = @ + 1])
    /\ GoTo("start", "send")
    /\ UNCHANGED <<tasks, domain, faults>>

\* _fail_unclaimed_start: clean up, then fail the record unless it is terminal
\* or its receipt is written.
StartFail ==
    /\ pc["start"] = "failstart"
    /\ cleaned' = TRUE
    /\ \/ /\ Cancellable(job)
          /\ job' = FailedStart(job)
          /\ tracked' = Tracking(tracked, job, FailedStart(job))
          /\ quiet' = FALSE
          /\ GoTo("start", "failnote")
          /\ UNCHANGED mem
       \/ /\ ~ Cancellable(job)
          /\ Leave("start")
          /\ UNCHANGED <<job, tracked, quiet>>
    /\ UNCHANGED <<tasks, note, applied, late, aged, faults, lost>>

StartFailNote ==
    /\ pc["start"] = "failnote"
    /\ note' = IF mem["start"].noted THEN "final" ELSE note
    /\ Leave("start")
    /\ UNCHANGED <<tasks, cleaned, applied, late, faults>> /\ NoWrite

Start == \/ StartCreate \/ StartSave \/ StartStarted \/ StartDispatching
         \/ StartFail \/ StartFailNote

-----------------------------------------------------------------------------
(* Dispatch, by start and by the reconciler *)

Dispatchers == {"start", "reconcile"} \cap Actors

\* task_queue.create_task, accepted or not.  With the task queue disabled, none is.
Send(p) ==
    /\ pc[p] = "send"
    /\ \/ /\ tasks' = Queued(tasks)
          /\ GoTo(p, "confirm")
          /\ UNCHANGED faults
       \/ /\ Fault
          /\ GoTo(p, "unconfirm")
          /\ UNCHANGED tasks
       \/ /\ p = "start"
          /\ GoTo(p, "disabled")
          /\ UNCHANGED <<tasks, faults>>
    /\ UNCHANGED <<mem, domain>> /\ NoWrite

\* update_deferred_job_recovery_dispatch: only if no worker claimed it first.
Unclaimed(p) == job.rev = mem[p].rev /\ job.dispatch = "dispatching"

Confirm(p) ==
    /\ pc[p] = "confirm"
    /\ \/ /\ Unclaimed(p)
          /\ job' = [job EXCEPT !.dispatch = "dispatched"]
          /\ quiet' = FALSE
       \/ ~ Unclaimed(p) /\ UNCHANGED <<job, quiet>>
    /\ Leave(p)
    /\ UNCHANGED <<tracked, tasks, domain, aged, faults, lost>>

Unconfirm(p) ==
    /\ pc[p] \in {"unconfirm", "disabled"}
    /\ \/ /\ Unclaimed(p)
          /\ job' = [job EXCEPT !.dispatch = "pending", !.sent = "none"]
          /\ quiet' = FALSE
          /\ \/ pc[p] = "unconfirm" /\ Leave(p)
             \/ pc[p] = "disabled" /\ GoTo(p, "failstart") /\ UNCHANGED mem
       \/ ~ Unclaimed(p) /\ Leave(p) /\ UNCHANGED <<job, quiet>>
    /\ UNCHANGED <<tracked, tasks, domain, aged, faults, lost>>

Dispatch(p) == Send(p) \/ Confirm(p) \/ Unconfirm(p)

-----------------------------------------------------------------------------
(* Terminal delivery: _finish_stale_delivery, _finish_terminal_delivery, _release *)

\* Mistake: any marker counts as a finished cleanup.
EntryUncleaned(r) == IF r.marks = {} THEN "cleanup"
                     ELSE IF "notification" \notin r.marks THEN "notify" ELSE "release"

\* The step a deliverer takes up, by the markers its entity shows.
Entry(r) == IF "cleanup" \notin r.marks THEN "cleanup"
            ELSE IF "notification" \notin r.marks THEN "notify" ELSE "release"

\* _save_terminal_fields: under the token if the entity in memory has one, else blind.
SaveTerminal(p, updates) ==
    IF mem[p].token = NoToken THEN BlindSave(p, Updated(mem[p], updates))
                              ELSE Persist(p, updates)

SaveMark(p, mark) == SaveTerminal(p, [marks |-> mem[p].marks \cup {mark}])

MarksLost(p) == mem[p].token # NoToken /\ ClaimLost(p)

\* adapter.failure, then its marker, for a job the reconciler or an earlier
\* delivery left failed.
DeliverFailure(p) ==
    /\ pc[p] = "stale"
    /\ \/ /\ mem[p].status = "failed" /\ "failure" \notin mem[p].marks
          /\ \/ /\ SaveMark(p, "failure")
                /\ GoTo(p, Entry(mem[p]))
                /\ UNCHANGED tasks
             \/ MarksLost(p)
       \/ /\ ~ (mem[p].status = "failed" /\ "failure" \notin mem[p].marks)
          /\ GoTo(p, Entry(mem[p]))
          /\ UNCHANGED <<mem, tasks>> /\ NoWrite
    /\ UNCHANGED <<domain, faults>>

Cleanup(p) ==
    /\ pc[p] = "cleanup"
    /\ cleaned' = TRUE
    /\ GoTo(p, "cleaned")
    /\ UNCHANGED <<mem, tasks, note, applied, late, faults>> /\ NoWrite

MarkCleanup(p) ==
    /\ pc[p] = "cleaned"
    /\ \/ /\ SaveMark(p, "cleanup")
          /\ GoTo(p, IF "notification" \in mem[p].marks THEN "release" ELSE "notify")
          /\ UNCHANGED tasks
       \/ MarksLost(p)
    /\ UNCHANGED <<domain, faults>>

\* A file's notification is created only now, and then linked to the job.
Notify(p) ==
    /\ pc[p] = "notify"
    /\ note' = IF mem[p].noted \/ NotifiedAtEnd(mem[p]) THEN "final" ELSE note
    /\ GoTo(p, IF ~ mem[p].noted /\ NotifiedAtEnd(mem[p]) THEN "link" ELSE "notified")
    /\ UNCHANGED <<mem, tasks, cleaned, applied, late, faults>> /\ NoWrite

LinkNotification(p) ==
    /\ pc[p] = "link"
    /\ \/ /\ SaveTerminal(p, [noted |-> TRUE])
          /\ GoTo(p, "notified")
          /\ UNCHANGED tasks
       \/ MarksLost(p)
    /\ UNCHANGED <<domain, faults>>

MarkNotification(p) ==
    /\ pc[p] = "notified"
    /\ \/ /\ SaveMark(p, "notification")
          /\ GoTo(p, "release")
          /\ UNCHANGED tasks
       \/ MarksLost(p)
    /\ UNCHANGED <<domain, faults>>

\* The release is guarded even without a token: none must be stored then.
Release(p) ==
    /\ pc[p] = "release"
    /\ \/ /\ Owns(p)
          /\ LET next == [Revoked(job) EXCEPT !.dispatch = "complete"]
             IN  job' = next /\ tracked' = Tracking(tracked, job, next)
          /\ quiet' = FALSE
          /\ Leave(p)
          /\ UNCHANGED <<tasks, lost, aged>>
       \/ ClaimLost(p)
    /\ UNCHANGED <<domain, faults>>

Delivery(p) == \/ DeliverFailure(p) \/ Cleanup(p) \/ MarkCleanup(p)
               \/ Notify(p) \/ LinkNotification(p) \/ MarkNotification(p) \/ Release(p)

-----------------------------------------------------------------------------
(* DeferredJobRunner.run *)

\* claim_deferred_job: claim, take up an unfinished delivery, or drop a task
\* that comes too early or while another worker's lease is live.
Claim(w) ==
    /\ pc[w] = "idle" /\ tasks > 0
    /\ \A p \in Actors : mem[p].token # w     \* a new claim draws a new token
    /\ tasks' = tasks - 1
    /\ \/ /\ Claimable(job)
          /\ LET next == Claimed(job, w, MaxAttempts)
             IN  /\ job' = next /\ Touch(w, next)
                 /\ tracked' = Tracking(tracked, job, next)
          /\ quiet' = FALSE
          /\ GoTo(w, "begin")
       \/ /\ job.status \in Terminal
          /\ Touch(w, job)
          /\ GoTo(w, Entry(job))
          /\ UNCHANGED <<job, tracked, quiet>>
       \/ /\ job.status \in Active /\ ~ Claimable(job)
          /\ UNCHANGED <<job, tracked, quiet, pc, mem>>
    /\ UNCHANGED <<domain, aged, faults, lost>>

\* A progress write raises the revision that the worker remembers.
Raised(w) == mem[w].rev + 1

\* Record the claim; then an existing receipt goes straight to completion, an
\* over-age job fails, and otherwise started and the heartbeat are stored.
Begin(w) ==
    /\ pc[w] = "begin"
    /\ \/ /\ mem[w].receipt \/ aged
          /\ Persist(w, [dispatch |-> "claimed"])
          /\ GoTo(w, IF mem[w].receipt THEN "complete" ELSE "fail")
          /\ UNCHANGED tasks
       \/ /\ ~ mem[w].receipt /\ ~ aged
          /\ Persist(w, IF mem[w].started
                          THEN [dispatch |-> "claimed", lease |-> "live"]
                          ELSE [dispatch |-> "claimed", lease |-> "live",
                                started |-> TRUE, rev |-> Raised(w)])
          /\ GoTo(w, "prepare")
          /\ UNCHANGED tasks
       \/ ClaimLost(w)
    /\ UNCHANGED <<domain, faults>>

\* The generic handler: an error is retried or it ends the job.
Retryable(w) == /\ ResumePreparation(mem[w]) /\ ~ CancellableProvider(mem[w])
                /\ ProviderAttempt(mem[w]) <= MaxRetries

HandleError(w) == \/ Retryable(w) /\ GoTo(w, "retry")
                  \/ GoTo(w, "fail")     \* a permanent error, or retries exhausted

Erred(w) ==
    /\ Owns(w)
    /\ HandleError(w)
    /\ UNCHANGED <<mem, tasks>> /\ NoWrite

Prepare(w) ==
    /\ pc[w] = "prepare"
    /\ \/ /\ CheckpointReady(mem[w])
          /\ GoTo(w, "check") /\ UNCHANGED <<mem, tasks>> /\ NoWrite
       \/ /\ ~ CheckpointReady(mem[w])
          /\ ResumePreparation(mem[w]) \/ mem[w].attempt <= 1
          /\ Persist(w, [ready |-> TRUE, rev |-> Raised(w)])
          /\ GoTo(w, "check") /\ UNCHANGED tasks
       \/ ~ CheckpointReady(mem[w]) /\ Erred(w)
       \/ ClaimLost(w)
    /\ UNCHANGED <<domain, faults>>

\* Mistake: a prepared job is taken for an applied one.
InspectedByCheckpoint(w) == CheckpointReady(mem[w])

\* adapter.inspect: the receipt in memory, or the domain's content.
Inspected(w) == IF mem[w].type = "autofill" THEN mem[w].receipt ELSE applied > 0

\* Reload, reauthorize, validate, read ownership afresh, inspect, announce APPLYING.
Check(w) ==
    /\ pc[w] = "check"
    /\ \/ /\ Inspected(w) /\ Owns(w)
          /\ GoTo(w, "complete") /\ UNCHANGED <<mem, tasks>> /\ NoWrite
       \/ /\ ~ Inspected(w)
          /\ Persist(w, [rev |-> Raised(w)])
          /\ GoTo(w, "apply") /\ UNCHANGED tasks
       \/ Erred(w)
       \/ ClaimLost(w)
    /\ UNCHANGED <<domain, faults>>

Mutate(w) == /\ applied' = IF applied < 2 THEN applied + 1 ELSE applied
             /\ late' = (late \/ ~ (Owns(w) /\ job.status = "running"))

\* Mistake: the write does not compare the lease token.
FenceUnowned(w) == job.status = "running" /\ ~ job.receipt

\* The status, the token and, for autofill, the absence of a receipt.
Fence(w) == job.status = "running" /\ Owns(w) /\ ~ job.receipt

\* The commit is reported as made, or as failed although it was made.
Reported(w) == \/ GoTo(w, "complete") /\ UNCHANGED faults
               \/ Fault /\ Owns(w) /\ HandleError(w)

\* Autofill and reports: the mutation and the test of the fence are one
\* transaction.  Autofill's also stores the receipt, which resolves a conflict.
ApplyFenced(w) ==
    /\ pc[w] = "apply" /\ mem[w].type \in {"autofill", "report"}
    /\ \/ /\ Fence(w)
          /\ Mutate(w)
          /\ LET receipt == mem[w].type = "autofill"
             IN  /\ job' = [job EXCEPT !.receipt = receipt]
                 /\ mem' = [mem EXCEPT ![w].receipt = receipt]
          /\ Reported(w)
          /\ UNCHANGED <<tasks, tracked, clock, lost>>
       \/ /\ Owns(w) /\ job.receipt
          /\ GoTo(w, "complete")
          /\ UNCHANGED <<mem, tasks, applied, late, faults>> /\ NoWrite
       \/ Erred(w) /\ UNCHANGED <<applied, late, faults>>
       \/ ClaimLost(w) /\ UNCHANGED <<applied, late, faults>>
    /\ UNCHANGED <<note, cleaned>>

\* Files and report ledgers: ensure_active was read before, the save is not
\* conditional on it.  A ledger's dependency may still be pending.
ApplyUnfenced(w) ==
    /\ pc[w] = "apply" /\ mem[w].type \in {"file", "execution"}
    /\ \/ Mutate(w) /\ Reported(w) /\ UNCHANGED <<mem, tasks>> /\ NoWrite
       \/ /\ mem[w].type = "execution" /\ mem[w].waits < MaxWaits
          /\ GoTo(w, "wait")
          /\ UNCHANGED <<mem, tasks, applied, late, faults>> /\ NoWrite
       \/ Erred(w) /\ UNCHANGED <<applied, late, faults>>
       \/ ClaimLost(w) /\ UNCHANGED <<applied, late, faults>>
    /\ UNCHANGED <<note, cleaned>>

Complete(w) ==
    /\ pc[w] = "complete"
    /\ \/ /\ Persist(w, [status |-> "succeeded", marks |-> {},
                         dispatch |-> "delivery_pending", rev |-> Raised(w)])
          /\ GoTo(w, "cleanup") /\ UNCHANGED tasks
       \/ ClaimLost(w)
    /\ UNCHANGED <<domain, faults>>

\* _fail: the failure marker is written with the status.
Fail(w) ==
    /\ pc[w] = "fail"
    /\ \/ /\ Persist(w, [status |-> "failed", marks |-> {"failure"},
                         dispatch |-> "delivery_pending", rev |-> Raised(w)])
          /\ GoTo(w, "cleanup") /\ UNCHANGED tasks
       \/ ClaimLost(w)
    /\ UNCHANGED <<domain, faults>>

\* _schedule_retry and _schedule_dependency_wait: wait, enqueue, mark, tell the user.
Postpone(w) ==
    /\ pc[w] \in {"retry", "wait"}
    /\ \/ /\ Persist(w, [status |-> "retry_wait", dispatch |-> "pending",
                         wait |-> "later", lease |-> "lapsed", rev |-> Raised(w),
                         waits |-> mem[w].waits + IF pc[w] = "wait" THEN 1 ELSE 0])
          /\ GoTo(w, "enqueue") /\ UNCHANGED tasks
       \/ ClaimLost(w)
    /\ UNCHANGED <<domain, faults>>

Enqueue(w) ==
    /\ pc[w] = "enqueue"
    /\ \/ tasks' = Queued(tasks) /\ GoTo(w, "mark") /\ UNCHANGED faults
       \/ Fault /\ GoTo(w, "unsent") /\ UNCHANGED tasks
    /\ UNCHANGED <<mem, domain>> /\ NoWrite

MarkSent(w) ==
    /\ pc[w] = "mark"
    /\ \/ /\ Persist(w, [dispatch |-> "dispatched", sent |-> "fresh", rev |-> Raised(w)])
          /\ GoTo(w, "renote") /\ UNCHANGED <<tasks, faults>>
       \/ Fault /\ GoTo(w, "unsent") /\ UNCHANGED <<mem, tasks>> /\ NoWrite
       \/ ClaimLost(w) /\ UNCHANGED faults
    /\ UNCHANGED domain

\* The dispatch or its mark failed: due at once, and the error repeats this delivery.
Unsent(w) ==
    /\ pc[w] = "unsent"
    /\ \/ /\ Owns(w)
          /\ job' = [job EXCEPT !.wait = "due", !.lease = "lapsed"]
          /\ tracked' = Tracking(tracked, job, job')
          /\ quiet' = FALSE
          /\ Leave(w)
          /\ tasks' = Queued(tasks)
          /\ UNCHANGED <<aged, lost>>
       \/ ClaimLost(w)
    /\ UNCHANGED <<domain, faults>>

RetryNote(w) ==
    /\ pc[w] = "renote"
    /\ note' = IF mem[w].noted THEN "pending" ELSE note
    /\ Leave(w)
    /\ UNCHANGED <<tasks, cleaned, applied, late, faults>> /\ NoWrite

Run(w) == \/ Begin(w) \/ Prepare(w) \/ Check(w) \/ ApplyFenced(w) \/ ApplyUnfenced(w)
          \/ Complete(w) \/ Fail(w) \/ Postpone(w) \/ Enqueue(w) \/ MarkSent(w)
          \/ Unsent(w) \/ RetryNote(w)

Working(w) == pc[w] \in Attempt \cup Requeue \cup {"fail"}

\* The lease guard's thread: only the token is compared.
Heartbeat(w) ==
    /\ Working(w) /\ Owns(w) /\ job.lease # "live"
    /\ job' = [job EXCEPT !.lease = "live"]
    /\ quiet' = FALSE
    /\ UNCHANGED <<tracked, tasks, domain, aged, pc, mem, faults, lost>>

-----------------------------------------------------------------------------
(* cancel, reconcile, feedback *)

\* transition_active_deferred_job; then the known task is deleted, if it is still there.
Cancel ==
    /\ "cancel" \in Callers /\ pc["cancel"] = "cancel"
    /\ job.status # "absent"
    /\ \/ /\ Cancellable(job)
          /\ \E outcome \in Withdrawn :
               /\ job' = Tombstone(job, outcome)
               /\ Touch("cancel", Tombstone(job, outcome))
               /\ tracked' = Tracking(tracked, job, Tombstone(job, outcome))
          /\ tasks' \in {tasks, IF tasks > 0 THEN tasks - 1 ELSE 0}
          /\ quiet' = FALSE
          /\ GoTo("cancel", "stale")
       \/ /\ ~ Cancellable(job)
          /\ Leave("cancel")
          /\ UNCHANGED <<job, tracked, tasks, quiet>>
    /\ UNCHANGED <<domain, aged, faults, lost>>

\* One pass: query what needs recovery, repair the membership, take up the job.
Scan ==
    /\ "reconcile" \in Callers /\ pc["reconcile"] = "scan"
    /\ tracked \/ RequiresRecovery(job)
    /\ tracked' = RequiresRecovery(job)
    /\ \/ /\ job.status \in Active
          /\ Touch("reconcile", [Blank EXCEPT !.rev = job.rev])   \* only the revision is used
          /\ GoTo("reconcile", "recover")
       \/ /\ job.status \in Terminal /\ job.dispatch = "delivery_pending" /\ quiet
          /\ Touch("reconcile", job) /\ GoTo("reconcile", "stale")
       \/ /\ job.status \in Terminal /\ ~ (job.dispatch = "delivery_pending" /\ quiet)
          /\ UNCHANGED <<mem, pc>>
    /\ UNCHANGED <<job, tasks, domain, clock, faults, lost>>

\* claim_deferred_job_recovery; "tasks < MaxTasks" bounds eager redispatch.
Recover ==
    /\ "reconcile" \in Callers /\ pc["reconcile"] = "recover"
    /\ LET current == job.status \in Active /\ job.rev = mem["reconcile"].rev
           overAge == current /\ aged /\ ~ job.receipt
           due     == current /\ ~ overAge /\ RecoveryDue(job, quiet) /\ tasks < MaxTasks
           claim(next) == /\ job' = next /\ Touch("reconcile", next)
                          /\ tracked' = Tracking(tracked, job, next)
                          /\ quiet' = FALSE
       IN  \/ overAge /\ claim(Tombstone(job, "failed")) /\ GoTo("reconcile", "stale")
           \/ due /\ claim(Redispatched(job)) /\ GoTo("reconcile", "send")
           \/ /\ ~ overAge /\ ~ due
              /\ Leave("reconcile") /\ UNCHANGED <<job, tracked, quiet>>
    /\ UNCHANGED <<tasks, domain, aged, faults, lost>>

\* The delayed message, scheduled at the end of start: read the job, then write its notification.
FeedbackRead ==
    /\ "feedback" \in Callers /\ pc["feedback"] = "feedback" /\ pc["start"] = "done"
    /\ IF job.status \in {"queued", "running"} /\ job.noted
         THEN GoTo("feedback", "remind") ELSE GoTo("feedback", "done")
    /\ UNCHANGED <<mem, tasks, domain, faults>> /\ NoWrite

FeedbackWrite ==
    /\ "feedback" \in Callers /\ pc["feedback"] = "remind"
    /\ note' = "pending"
    /\ GoTo("feedback", "done")
    /\ UNCHANGED <<mem, tasks, cleaned, applied, late, faults>> /\ NoWrite

-----------------------------------------------------------------------------
(* Faults and the clock *)

\* A process dies: its delivery, if it was one, is repeated.
Crash(p) ==
    /\ pc[p] \notin {Rest(p), "create", "cancel", "feedback"}
    /\ Fault
    /\ Leave(p)
    /\ tasks' \in Redelivery(p)
    /\ UNCHANGED domain /\ NoWrite

\* DeferredJobInfrastructureError before the outcome is written: the claim is
\* expired so that a repeat can run.  Elsewhere such an error is a Crash.
Abort(w) ==
    /\ pc[w] \in (Attempt \ {"complete"}) \cup {"fail"} /\ Owns(w)
    /\ Fault
    /\ job' = [job EXCEPT !.lease = "lapsed"]
    /\ quiet' = FALSE
    /\ Leave(w)
    /\ tasks' = Queued(tasks)
    /\ UNCHANGED <<tracked, domain, aged, lost>>

\* Cloud Tasks delivers at least once.
Duplicate ==
    /\ tasks > 0 /\ tasks < MaxTasks
    /\ Fault
    /\ tasks' = tasks + 1
    /\ UNCHANGED <<domain, pc, mem>> /\ NoWrite

\* Times pass only where the code reads them.  A request that outlasts one of
\* them, or a lease that lapses under a working owner, is a fault.
Slow == pc["start"] # "done"

Passing(stall) == IF stall THEN Fault ELSE UNCHANGED faults

\* The stall may outlast the delivery, which Cloud Tasks then repeats.
LeasePasses ==
    /\ job.status = "running" /\ job.lease \in {"live", "lapsed"}
    /\ LET stalled == job.lease = "live" /\ \E w \in Workers : Working(w) /\ Owns(w)
       IN  /\ Passing(Slow \/ stalled)
           /\ tasks' \in IF stalled THEN {tasks, Queued(tasks)} ELSE {tasks}
    /\ job' = [job EXCEPT !.lease = IF @ = "live" THEN "lapsed" ELSE "graced"]
    /\ UNCHANGED <<tracked, domain, clock, pc, mem, lost>>

WaitPasses ==
    /\ job.status = "retry_wait" /\ job.wait \in {"later", "due"}
    /\ Passing(Slow)
    /\ job' = [job EXCEPT !.wait = IF @ = "later" THEN "due" ELSE "graced"]
    /\ UNCHANGED <<tracked, tasks, domain, clock, pc, mem, lost>>

SentPasses ==
    /\ job.status \in Active /\ job.sent = "fresh"
    /\ job.dispatch = "dispatching" \/ (job.status = "queued" /\ job.dispatch = "dispatched")
    /\ Passing(Slow)
    /\ job' = [job EXCEPT !.sent = "stale"]
    /\ UNCHANGED <<tracked, tasks, domain, clock, pc, mem, lost>>

GracePasses ==
    /\ ~ quiet
    /\ \/ job.status = "queued" /\ job.dispatch # "dispatched"
       \/ job.dispatch = "delivery_pending"
    /\ Passing(Slow)
    /\ quiet' = TRUE
    /\ UNCHANGED <<job, tracked, tasks, domain, aged, pc, mem, lost>>

AgePasses ==
    /\ Ages /\ ~ aged /\ job.status \in Active
    /\ Passing(Slow)
    /\ aged' = TRUE
    /\ UNCHANGED <<job, tracked, tasks, domain, quiet, pc, mem, lost>>

Time == LeasePasses \/ WaitPasses \/ SentPasses \/ GracePasses \/ AgePasses

-----------------------------------------------------------------------------

Next ==
    \/ Start
    \/ \E p \in Dispatchers : Dispatch(p)
    \/ \E p \in Actors : Delivery(p) \/ Crash(p)
    \/ \E w \in Workers : Claim(w) \/ Run(w) \/ Heartbeat(w) \/ Abort(w)
    \/ Cancel \/ Scan \/ Recover \/ FeedbackRead \/ FeedbackWrite
    \/ Duplicate
    \/ Time

Spec == Init /\ [][Next]_vars

\* Requests and deliveries run on, tasks are delivered, leases and waits pass (the
\* maximum age need not be reached), and the scheduler calls the reconciler while
\* the control record lists the job.
Fairness ==
    /\ WF_vars(Start) /\ \A p \in Dispatchers : WF_vars(Dispatch(p))
    /\ \A p \in Actors : WF_vars(Delivery(p))
    /\ \A w \in Workers : WF_vars(Claim(w)) /\ WF_vars(Run(w))
    /\ WF_vars(tracked /\ Scan) /\ WF_vars(Recover) /\ WF_vars(FeedbackWrite)
    /\ WF_vars(LeasePasses) /\ WF_vars(WaitPasses) /\ WF_vars(SentPasses)
    /\ WF_vars(GracePasses)

FairSpec == Spec /\ Fairness

-----------------------------------------------------------------------------
TypeOK ==
    /\ job \in Record
    /\ tracked \in BOOLEAN /\ tasks \in 0..MaxTasks
    /\ note \in {"absent", "pending", "final"} /\ cleaned \in BOOLEAN
    /\ applied \in 0..2 /\ late \in BOOLEAN
    /\ quiet \in BOOLEAN /\ aged \in BOOLEAN
    /\ pc \in [Actors -> Labels] /\ mem \in [Actors -> Record]
    /\ faults \in 0..MaxFaults /\ lost \subseteq {"start", "deliver"}

Created   == job.status # "absent"
Delivered == job.status \in Terminal /\ job.dispatch \in {"complete", "failed"}

\* Arbitration (autofill apply_proposal, commit_plan_mutation_if_idle,
\* transition_active_deferred_job, claim_deferred_job_recovery): however leases
\* lapse, tasks repeat and cancellations race, a fenced change is made at most
\* once and only by the owner of a running job; with a receipt, exactly when the
\* receipt is stored, and never for a job that was cancelled or superseded.
Arbitration ==
    job.type \in {"autofill", "report"} /\ "start" \notin lost =>
        /\ applied <= 1 /\ ~ late
        /\ job.type = "autofill" =>
             /\ applied = 1 <=> job.receipt
             /\ job.status \in Withdrawn => applied = 0

\* A terminal status is final: no claim, late worker write, recovery or second
\* cancellation replaces it.  Only start()'s unconditional saves can.
TerminalIsFinal ==
    [][job.status \in Terminal /\ "start" \notin lost' => job'.status = job.status]_vars

\* The control record lists the job exactly while it needs recovery, as long as
\* no unconditional save has replaced a record its writer had not seen.
TrackedWhileRequired == lost = {} => (tracked <=> RequiresRecovery(job))

\* A job whose delivery is recorded as complete has been cleaned up and has
\* told its user, whoever did it and in how many attempts.
CompleteIsDelivered ==
    job.dispatch = "complete" /\ "start" \notin lost =>
        cleaned /\ note = IF job.type = "execution" THEN "absent" ELSE "final"

\* Success is recorded only when the mutation was made.
SucceededIsApplied ==
    job.status = "succeeded" /\ "start" \notin lost => applied > 0

\* Every created job ends, and its terminal delivery is finished, although
\* requests, workers and the reconciler crash and dispatches fail.
Finishes == Created ~> (Delivered \/ lost # {})

\* The job as its requester sees it.
Lifecycle == INSTANCE JobLifecycle WITH
    phase     <- IF ~ Created THEN "none" ELSE IF job.status \in Active THEN "open"
                 ELSE IF Delivered THEN "closed" ELSE "decided",
    outcome   <- IF job.status \in Terminal THEN job.status ELSE "none",
    committed <- applied > 0,
    sealed    <- job.receipt,
    excused   <- lost # {} \/ job.type \in {"file", "execution"}

\* A job with a fenced change implements the lifecycle.
LifecycleSpec == Lifecycle!Spec

\* What the code's own words promise, without the exceptions above.

\* service.py: "Tombstone work durably so an already-running delivery loses its lease."
TombstoneIsDurable == [][job.status \in Withdrawn => job'.status = job.status]_vars

\* runner.py: a receipt proves that apply succeeded; "Only delivery remains".
ReceiptSucceeds == job.receipt /\ job.status \in Terminal => job.status = "succeeded"
=============================================================================

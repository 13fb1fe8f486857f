--------------------------- MODULE AgentPlanClaim ---------------------------
(***************************************************************************)
(* A Plan written by an external agent: one report, changed by API         *)
(* requests (open an upload batch, finalize it, submit a proposal), by the  *)
(* owner's mutations (skip an action, execute, delete) and by the workers   *)
(* of the jobs that execute it.  core/tools/database/agent_api.py,          *)
(* core/tools/ai/external_operations.py,                                    *)
(* core/tools/ai/external/{uploads,plans}.py,                               *)
(* core/tools/ai/reporting/execution/runner.py and                          *)
(* core/tools/deferred_jobs/adapters/reports.py.                            *)
(*                                                                         *)
(* Every API request takes a leased claim on the report, reloads the        *)
(* report, and commits only while it holds the claim and the report is      *)
(* still the one it read; a mutation commits only when no claim is          *)
(* alive.  A lease can run out under a slow request at any moment.  An      *)
(* execution compares nothing: its worker asks whether it still has the     *)
(* job, and then saves the report it remembers.                             *)
(*                                                                         *)
(* A request that is refused before its claim changes nothing and is left   *)
(* out, as are Plans that are answers only, corrections, and the contents   *)
(* of files.  The actions of a Plan are committed as one batch.             *)
(***************************************************************************)
EXTENDS Naturals, FiniteSets

CONSTANTS
  Creators,       \* requests that open an upload batch; each names its batch
  Finalizers,     \* requests that finalize a batch; each names its assets
  Submitters,     \* requests that submit a proposal
  Browsers,       \* the owner's mutations: skip, execute, delete
  Jobs,           \* bound: executions
  Workers,        \* bound: attempts at them
  Proposals,      \* what may be submitted
  None,           \* no batch, no proposal, no owner
  FilesPerBatch,  \* records of one upload batch
  MaxAtWork,      \* bound: requests at work at once
  MaxFaults       \* bound: crashes, lost commits, failed clean-ups

Requests == Creators \cup Finalizers \cup Submitters
Actors == Requests \cup Browsers

ASSUME PlanAssumption ==
  /\ FilesPerBatch \in Nat \ {0}
  /\ MaxAtWork \in Nat /\ MaxFaults \in Nat
  /\ None \notin Actors \cup Proposals \cup Jobs \cup Workers
  /\ Creators \cap Finalizers = {} /\ Creators \cap Submitters = {}
  /\ Finalizers \cap Submitters = {} /\ Requests \cap Browsers = {}

VARIABLES
  report,    \* the stored report
  claim,     \* the claim row beside it
  files,     \* File rows: record of a batch -> the finalizer whose copy it names
  assets,    \* stored copies <<batch, record, finalizer>>
  sources,   \* temporary uploads: record of a batch -> "none", "there", "gone"
  notice,    \* the publication notification: "none", "unread", "dismissed"
  request,   \* what each actor is doing
  job,       \* an execution's job: "none", "open", "over"
  owner,     \* the worker with the job's lease
  work,      \* what each worker is doing
  revived,   \* history: an execution has saved a deleted report again
  faults     \* faults so far

executions == <<job, owner, work, revived>>

vars == <<report, claim, files, assets, sources, notice, request, executions, faults>>

-----------------------------------------------------------------------------
\* The values.

Records == 1 .. FilesPerBatch
Uploads == Creators \X Records

Reports ==
  [status    : {"draft", "ready", "running", "failed", "complete", "gone"},
   batch     : Creators \cup {None},     \* agent_manifest.upload_batch_id
   staged    : BOOLEAN,                  \* upload_manifest is not empty
   pending   : SUBSET Records,           \* its records not yet complete
   attached  : SUBSET Uploads,           \* input_files
   proposal  : Proposals \cup {None},
   skipped   : BOOLEAN,                  \* the proposal carries a skip
   announced : BOOLEAN,                  \* agent_manifest.publication_notification
   link      : Jobs \cup {None},         \* deferred_job
   ledger    : BOOLEAN,                  \* result is an execution's ledger
   receipt   : Workers \cup {None}]      \* execution_commit

Draft ==
  [status |-> "draft", batch |-> None, staged |-> FALSE, pending |-> {},
   attached |-> {}, proposal |-> None, skipped |-> FALSE, announced |-> FALSE,
   link |-> None, ledger |-> FALSE, receipt |-> None]

Gone == [Draft EXCEPT !.status = "gone"]

\* A claim's phase is the kind of its token's request.
Claims == [op : Actors \cup {None}, token : Requests \cup {None}, live : BOOLEAN]

NoClaim == [op |-> None, token |-> None, live |-> FALSE]

\* at: where the actor is; batch, wish: what it asks for; expected: the report
\* it read or last committed; next: the record a finalizer is at.
Steps == {"idle", "claimed", "loaded", "prepared", "checkpointed",
          "answering", "failing", "answered", "over"}
Wishes == Proposals \cup {"skip", "execute", "delete", None}

Idle == [at |-> "idle", batch |-> None, wish |-> None, expected |-> Draft, next |-> 1]

\* A worker: its job, and the report it remembers.
Phases == {"idle", "read", "starting", "working", "acting", "over"}

Unused(at) == [at |-> at, job |-> None, held |-> Draft]

Init ==
  /\ report = Draft
  /\ claim = NoClaim
  /\ files = [x \in Uploads |-> None]
  /\ assets = {}
  /\ sources = [x \in Uploads |-> "none"]
  /\ notice = "none"
  /\ request = [r \in Actors |-> Idle]
  /\ job = [j \in Jobs |-> "none"]
  /\ owner = [j \in Jobs |-> None]
  /\ work = [k \in Workers |-> Unused("idle")]
  /\ revived = FALSE
  /\ faults = 0

-----------------------------------------------------------------------------
\* The claim.

OpOf(r, batch) == IF r \in Finalizers THEN batch ELSE r

\* _report_operation_state: what each phase asks of the report.
Eligible(r, batch) ==
  \/ r \in Creators /\ report.status = "draft" /\ ~report.staged
  \/ r \in Finalizers /\ report.status = "draft" /\ report.batch = batch /\ report.staged
  \/ r \in Submitters /\ report.status \in {"draft", "ready"} /\ report.link = None

\* _completed_claim_transition: the owner's change is in the report already.
Completed ==
  \/ claim.token \in Creators /\ report.staged /\ report.batch = claim.op
  \/ claim.token \in Finalizers /\ ~report.staged /\ report.batch = claim.op

Free == claim.token = None \/ ~claim.live \/ Completed

Owns(r) == claim.token = r /\ claim.op = OpOf(r, request[r].batch)

Renewed == claim' = [claim EXCEPT !.live = TRUE]

\* The record a finalizer is at.
At(r) == <<request[r].batch, request[r].next>>
Here(r) == r \in Finalizers /\ request[r].at = "loaded"
\* Mistake: the loop over the manifest goes one record too far.
PastBatch(r) == request[r].next <= FilesPerBatch + 1

InBatch(r) == request[r].next <= FilesPerBatch
IsPending(r) == request[r].next \in request[r].expected.pending

Step(r, at) == request' = [request EXCEPT ![r].at = at]
Ended(r, at) == request' = [request EXCEPT ![r] = [Idle EXCEPT !.at = at]]
Kept == UNCHANGED <<files, assets, sources, notice, executions, faults>>

\* A submitter may submit again, and so may the owner change the Plan.  A batch and a
\* finalizer's copies have names of their own, so that those requests run once.
Fresh(r) ==
  request[r].at \in IF r \in Submitters THEN {"idle", "over"} ELSE {"idle"}

AtWork == Cardinality({r \in Requests : request[r].at \notin {"idle", "answered", "over"}})

\* claim_plan_operation: one transaction over the report and the claim.
Claim(r, batch, wish) ==
  /\ Fresh(r) /\ AtWork < MaxAtWork
  /\ Eligible(r, batch) /\ Free
  /\ claim' = [op |-> OpOf(r, batch), token |-> r, live |-> TRUE]
  /\ request' = [request EXCEPT ![r] =
                   [Idle EXCEPT !.at = "claimed", !.batch = batch, !.wish = wish]]
  /\ UNCHANGED report /\ Kept

ClaimCreate(r) == r \in Creators /\ Claim(r, r, None)
ClaimFinalize(r) == r \in Finalizers /\ \E b \in Creators : Claim(r, b, None)
ClaimSubmit(r) == r \in Submitters /\ \E p \in Proposals : Claim(r, None, p)

\* The report is reloaded under the claim, and the gate is asked again of it.
\* Mistake: a submission does not look at the pending uploads.
SubmittableEarly(r) == report.status \in {"draft", "ready"}

Submittable(r) == report.status \in {"draft", "ready"} /\ ~report.staged

Acceptable(r) ==
  IF r \in Submitters THEN Submittable(r) ELSE Eligible(r, request[r].batch)

Load(r) ==
  /\ r \in Requests /\ request[r].at = "claimed"
  /\ request' = [request EXCEPT ![r].expected = report,
                                ![r].at = IF Acceptable(r) THEN "loaded" ELSE "failing"]
  /\ UNCHANGED <<report, claim>> /\ Kept

\* The same proposal again is answered without a commit.
SubmitAgain(r) ==
  /\ r \in Submitters /\ request[r].at = "loaded"
  /\ request[r].expected.proposal = request[r].wish
  /\ Step(r, "answering")
  /\ UNCHANGED <<report, claim>> /\ Kept

\* release_plan_operation, in the request's finally block.
Release(r) ==
  /\ r \in Requests /\ request[r].at \in {"answering", "failing"}
  /\ claim' = IF Owns(r) THEN NoClaim ELSE claim
  /\ Ended(r, IF r \in Creators /\ request[r].at = "answering" THEN "answered" ELSE "over")
  /\ UNCHANGED report /\ Kept

-----------------------------------------------------------------------------
\* What a request writes.

\* create_upload_sessions: a new batch, all of its records pending.
Staged(r) ==
  [request[r].expected EXCEPT !.batch = r, !.staged = TRUE, !.pending = Records]

\* submit_plan: set_proposal, and the publication marker, which outlives the
\* notification.  Mistake: the marker is not written.
SubmittedUnmarked(r) ==
  [request[r].expected EXCEPT !.status = "ready", !.proposal = request[r].wish,
                              !.skipped = FALSE, !.ledger = FALSE]

Submitted(r) ==
  [request[r].expected EXCEPT !.status = "ready", !.proposal = request[r].wish,
                              !.skipped = FALSE, !.announced = TRUE, !.ledger = FALSE]

\* finalize_report_upload_manifest: one record is complete and its file attached;
\* after the last one the manifest goes.
Attached(r) ==
  [request[r].expected EXCEPT !.attached = @ \cup {At(r)},
                              !.pending = @ \ {request[r].next}]

Closed(r) == [request[r].expected EXCEPT !.staged = FALSE]

Opening(r) == r \in Creators /\ request[r].at = "prepared"
Submitting(r) == /\ r \in Submitters /\ request[r].at = "loaded"
                 /\ request[r].expected.proposal # request[r].wish
Attaching(r) == r \in Finalizers /\ request[r].at = "prepared"
Closing(r) == Here(r) /\ ~InBatch(r)

Committing(r) == Opening(r) \/ Submitting(r) \/ Attaching(r) \/ Closing(r)

New(r) == CASE Opening(r) -> Staged(r)
            [] Submitting(r) -> Submitted(r)
            [] Attaching(r) -> Attached(r)
            [] Closing(r) -> Closed(r)

-----------------------------------------------------------------------------
\* The commits.  commit_plan_operation compares the whole report and the token,
\* not the lease; it renews the lease in the transaction that writes.

MayCommit(r) == report.status # "gone" /\ report = request[r].expected /\ Owns(r)

Written(r) ==
  /\ MayCommit(r)
  /\ report' = New(r)
  /\ Renewed
  /\ files' = IF Attaching(r) THEN [files EXCEPT ![At(r)] = r] ELSE files
  /\ notice' = IF Submitting(r) /\ ~report.announced THEN "unread" ELSE notice

Commit(r) ==
  /\ Committing(r)
  /\ Written(r)
  /\ request' = [request EXCEPT ![r].expected = New(r),
                                ![r].at = IF Attaching(r) THEN "checkpointed"
                                                          ELSE "answering"]
  /\ UNCHANGED <<assets, sources, executions, faults>>

\* cleanup_failed_file: a commit known not to have happened loses its copy.
Discarded(r) ==
  IF Attaching(r) THEN assets \ {<<request[r].batch, request[r].next, r>>} ELSE assets

Refuse(r) ==
  /\ Committing(r)
  /\ ~MayCommit(r)
  /\ assets' = Discarded(r)
  /\ Step(r, "failing")
  /\ UNCHANGED <<report, claim, files, sources, notice, executions, faults>>

Dismiss ==
  /\ notice = "unread"
  /\ notice' = "dismissed"
  /\ UNCHANGED <<report, claim, files, assets, sources, request, executions, faults>>

-----------------------------------------------------------------------------
\* create_upload_sessions renews the lease before every session it opens.

Prepare(r) ==
  /\ r \in Creators /\ request[r].at = "loaded"
  /\ IF Owns(r) THEN Renewed /\ Step(r, "prepared")
                ELSE UNCHANGED claim /\ Step(r, "failing")
  /\ UNCHANGED report /\ Kept

\* The client sends a file to the session the answer gave it.
Upload(x) ==
  /\ request[x[1]].at = "answered"
  /\ sources[x] = "none"
  /\ sources' = [sources EXCEPT ![x] = "there"]
  /\ UNCHANGED <<report, claim, files, assets, notice, request, executions, faults>>

\* finalize_report_upload_manifest: copy, checkpoint, delete the source, one
\* record at a time; a record an earlier request completed is only cleaned up.

\* ensure_active found another owner, or the source is not there to copy.
Stop(r) ==
  /\ Here(r) /\ InBatch(r)
  /\ ~Owns(r) \/ (IsPending(r) /\ sources[At(r)] # "there")
  /\ IF Owns(r) THEN Renewed ELSE UNCHANGED claim
  /\ Step(r, "failing")
  /\ UNCHANGED report /\ Kept

Copy(r) ==
  /\ Here(r) /\ InBatch(r) /\ IsPending(r)
  /\ Owns(r) /\ sources[At(r)] = "there"
  /\ Renewed
  /\ assets' = assets \cup {<<request[r].batch, request[r].next, r>>}
  /\ Step(r, "prepared")
  /\ UNCHANGED <<report, files, sources, notice, executions, faults>>

Resume(r) ==
  /\ Here(r) /\ InBatch(r) /\ ~IsPending(r)
  /\ Owns(r)
  /\ Renewed
  /\ Step(r, "checkpointed")
  /\ UNCHANGED report /\ Kept

CleanSource(r) ==
  /\ request[r].at = "checkpointed"
  /\ sources' = [sources EXCEPT ![At(r)] = "gone"]
  /\ request' = [request EXCEPT ![r].at = "loaded", ![r].next = @ + 1]
  /\ UNCHANGED <<report, claim, files, assets, notice, executions, faults>>

-----------------------------------------------------------------------------
\* The owner's mutations.  Each reads the report and compares it within its request.

\* A failed execution can be tried again from its ledger.  A Plan that names a job is
\* neither edited nor deleted.
Offers(wish) ==
  \/ wish = "skip" /\ report.status = "ready" /\ report.link = None
  \/ /\ wish = "execute" /\ ~report.staged
     /\ report.status = "ready" \/ (report.status = "failed" /\ report.ledger)
  \/ wish = "delete" /\ report.status # "gone" /\ report.link = None

\* report_snapshot
Read(r, wish) ==
  /\ r \in Browsers /\ Fresh(r)
  /\ Offers(wish)
  /\ request' = [request EXCEPT ![r] =
                   [Idle EXCEPT !.at = "loaded", !.wish = wish, !.expected = report]]
  /\ UNCHANGED <<report, claim>> /\ Kept

\* Mistake: the mutation asks only for an idle claim, not for the report it read.
BrowserMayStale(r) == report.status # "gone" /\ ~claim.live

BrowserMay(r) == report.status # "gone" /\ report = request[r].expected /\ ~claim.live

Skip(r) ==
  /\ request[r].wish = "skip"
  /\ report' = [request[r].expected EXCEPT !.skipped = ~@]
  /\ UNCHANGED <<files, assets, sources, job>>

\* ReportExecutionAdapter.started: the report's earlier job is superseded.
Execute(r) ==
  /\ request[r].wish = "execute"
  /\ \E j \in Jobs :
       /\ job[j] = "none"
       /\ report' = [request[r].expected EXCEPT !.status = "running", !.link = j]
       /\ job' = [i \in Jobs |-> IF i = j THEN "open"
                                ELSE IF i = report.link THEN "over" ELSE job[i]]
  /\ UNCHANGED <<files, assets, sources>>

\* The report and its files are one transaction; copies and sources follow.
Delete(r) ==
  LET own == request[r].expected.attached
      batch == request[r].expected.batch
  IN /\ request[r].wish = "delete"
     /\ report' = Gone
     /\ files' = [x \in Uploads |-> IF x \in own THEN None ELSE files[x]]
     /\ assets' = {a \in assets : ~(<<a[1], a[2]>> \in own /\ a[3] = files[<<a[1], a[2]>>])}
     /\ sources' = [x \in Uploads |->
                      IF request[r].expected.staged /\ x[1] = batch /\ sources[x] = "there"
                      THEN "gone" ELSE sources[x]]
     /\ UNCHANGED job

\* commit_plan_mutation_if_idle deletes the claim row whether or not it is there.
Mutate(r) ==
  /\ r \in Browsers /\ request[r].at = "loaded"
  /\ BrowserMay(r)
  /\ Skip(r) \/ Execute(r) \/ Delete(r)
  /\ claim' = NoClaim
  /\ Ended(r, "over")
  /\ UNCHANGED <<notice, owner, work, revived, faults>>

Rejected(r) ==
  /\ r \in Browsers /\ request[r].at = "loaded"
  /\ ~BrowserMay(r)
  /\ Ended(r, "over")
  /\ UNCHANGED <<report, claim>> /\ Kept

-----------------------------------------------------------------------------
\* The execution.  A delivery takes the job, from a worker whose lease has lapsed if
\* need be; its worker checks that it has the job before each save, and a save writes
\* the whole report it remembers, over whatever is stored.

\* The worker reads the report, which must name the job and be running (inspect).
Begin(k, j) ==
  /\ work[k].at = "idle" /\ job[j] = "open"
  /\ report.link = j /\ report.status = "running"
  /\ owner' = [owner EXCEPT ![j] = k]
  /\ work' = [work EXCEPT ![k] = [at |-> "read", job |-> j, held |-> report]]
  /\ UNCHANGED <<report, claim, files, assets, sources, notice, request, job, revived, faults>>

Active(k) == job[work[k].job] = "open" /\ owner[work[k].job] = k

\* ensure_active
Check(k) ==
  /\ work[k].at \in {"read", "working"}
  /\ work' = IF ~Active(k) THEN [work EXCEPT ![k] = Unused("over")]
              ELSE [work EXCEPT ![k].at = IF @ = "read" THEN "starting" ELSE "acting"]
  /\ UNCHANGED <<report, claim, files, assets, sources, notice, request, job, owner,
                 revived, faults>>

\* Entities.save of the remembered report: a deleted one is stored again.
Save(k, new, last) ==
  /\ report' = new
  /\ work' = [work EXCEPT ![k] = IF last THEN Unused("over")
                                 ELSE [@ EXCEPT !.held = new, !.at = "working"]]
  /\ revived' = (revived \/ report.status = "gone")
  /\ UNCHANGED <<claim, files, assets, sources, notice, request, job, owner, faults>>

Ledger(k, status) == [work[k].held EXCEPT !.status = status, !.ledger = TRUE]

\* run_report: the ledger is stored, the actions are prepared; the execution then waits
\* for a migration, fails, or commits.
Start(k) == work[k].at = "starting" /\ Save(k, Ledger(k, "running"), FALSE)
Wait(k) == work[k].at = "acting" /\ Save(k, Ledger(k, "running"), TRUE)
Break(k) == work[k].at = "acting" /\ Save(k, Ledger(k, "failed"), TRUE)

\* ExecutionBatch.commit compares only the receipt of the last commit.
Finish(k) ==
  /\ work[k].at = "acting"
  /\ report.status # "gone" /\ report.receipt = work[k].held.receipt
  /\ Save(k, [Ledger(k, "complete") EXCEPT !.receipt = k], TRUE)

\* The job ends, in whichever way: DeferredJob.
End(j) ==
  /\ job[j] = "open"
  /\ job' = [job EXCEPT ![j] = "over"]
  /\ UNCHANGED <<report, claim, files, assets, sources, notice, request, owner, work,
                 revived, faults>>

\* failure() and cleanup() read the report again and save it as a mutation does; a save
\* that is refused is not tried again.
Settle(j, new) ==
  /\ report.link = j /\ report.status # "gone" /\ ~claim.live
  /\ report' = new
  /\ claim' = NoClaim
  /\ UNCHANGED request /\ Kept

\* A worker, overtaken or not, calls failure() before its job fails: without a ledger
\* the Plan is ready again.
Fail(j) == Settle(j, [report EXCEPT !.status = IF report.ledger THEN "failed" ELSE "ready"])

\* cleanup(), at the terminal delivery or, by a start that failed, before the job is over.
Clean(j) == job[j] # "none" /\ Settle(j, [report EXCEPT !.link = None])

-----------------------------------------------------------------------------
\* What goes wrong.

Faulty == faults < MaxFaults /\ faults' = faults + 1

Expire ==
  /\ claim.live
  /\ claim' = [claim EXCEPT !.live = FALSE]
  /\ UNCHANGED <<report, request>> /\ Kept

\* The process stops: no finally block, the claim stays until it expires.
Crash(r) ==
  /\ r \in Requests
  /\ request[r].at \notin {"idle", "answered", "over"}
  /\ Faulty
  /\ Ended(r, "over")
  /\ UNCHANGED <<report, claim, files, assets, sources, notice, executions>>

\* cleanup_source fails after the record was checkpointed.
KeepSource(r) ==
  /\ request[r].at = "checkpointed"
  /\ Faulty
  /\ Step(r, "failing")
  /\ UNCHANGED <<report, claim, files, assets, sources, notice, executions>>

\* The commit's answer is lost: it happened, or it did not.  The request fails
\* as CHECKPOINT_AMBIGUOUS, which keeps the copy.
\* Mistake: the copy is deleted after every failed commit.
UncertainDiscarded(r) == Discarded(r)

Uncertain(r) == assets

LoseCommit(r) ==
  /\ Committing(r)
  /\ Faulty
  /\ Written(r) \/ UNCHANGED <<report, claim, files, notice>>
  /\ assets' = Uncertain(r)
  /\ Step(r, "failing")
  /\ UNCHANGED <<sources, executions>>

-----------------------------------------------------------------------------
Request(r) ==
  \/ ClaimCreate(r) \/ ClaimFinalize(r) \/ ClaimSubmit(r)
  \/ Load(r) \/ Prepare(r) \/ SubmitAgain(r)
  \/ Copy(r) \/ Resume(r) \/ Stop(r) \/ CleanSource(r)
  \/ Commit(r) \/ Refuse(r) \/ Release(r)
  \/ Crash(r) \/ KeepSource(r) \/ LoseCommit(r)

Browser(r) ==
  (\E wish \in {"skip", "execute", "delete"} : Read(r, wish)) \/ Mutate(r) \/ Rejected(r)

Worker(k) ==
  (\E j \in Jobs : Begin(k, j)) \/ Check(k) \/ Start(k) \/ Wait(k) \/ Break(k) \/ Finish(k)

Job(j) == End(j) \/ Fail(j) \/ Clean(j)

Next ==
  \/ \E r \in Requests : Request(r)
  \/ \E r \in Browsers : Browser(r)
  \/ \E k \in Workers : Worker(k)
  \/ \E j \in Jobs : Job(j)
  \/ \E x \in Uploads : Upload(x)
  \/ Dismiss \/ Expire

Spec == Init /\ [][Next]_vars

-----------------------------------------------------------------------------
\* The properties.

\* Every variable keeps its shape; a finalizer never passes the end of its batch
\* (finalize_report_upload_manifest's loop).
TypeOK ==
  /\ report \in Reports
  /\ claim \in Claims
  /\ files \in [Uploads -> Finalizers \cup {None}]
  /\ assets \subseteq Creators \X Records \X Finalizers
  /\ sources \in [Uploads -> {"none", "there", "gone"}]
  /\ notice \in {"none", "unread", "dismissed"}
  /\ request \in [Actors -> [at : Steps, batch : Creators \cup {None}, wish : Wishes,
                             expected : Reports, next : 1 .. FilesPerBatch + 1]]
  /\ job \in [Jobs -> {"none", "open", "over"}]
  /\ owner \in [Jobs -> Workers \cup {None}]
  /\ work \in [Workers -> [at : Phases, job : Jobs \cup {None}, held : Reports]]
  /\ revived \in BOOLEAN
  /\ faults \in 0 .. MaxFaults

\* The report's manifest and its files agree through every interleaving of
\* finalizers, crashes and lost answers: a record of the staged batch is complete
\* exactly when its file is attached, another batch is attached whole or not at
\* all, and only a draft has pending uploads (finalize_report_upload_manifest
\* saves the file and the report together; submit_plan asks for no manifest).
UploadsAccounted ==
  report.status # "gone" =>
    /\ report.staged =>
         /\ report.status = "draft"
         /\ \A i \in Records : i \in report.pending <=> <<report.batch, i>> \notin report.attached
    /\ \A b \in Creators :
         (report.staged /\ report.batch = b)
         \/ \A i, j \in Records : <<b, i>> \in report.attached => <<b, j>> \in report.attached

\* A report that is stored, and has been since it was opened.
Standing == report.status # "gone" /\ ~revived

\* No clean-up takes what the report still needs: an attached file's row names a
\* stored copy, and a record that is still pending has not lost its upload
\* (cleanup_source after the checkpoint, cleanup_failed_file only when the
\* checkpoint is known not to have been written).  A report that its owner deleted and
\* an execution stored again has no files.
EvidenceKept ==
  Standing =>
    /\ \A x \in report.attached : <<x[1], x[2], files[x]>> \in assets
    /\ report.staged => \A i \in report.pending : sources[<<report.batch, i>>] # "gone"

\* Worker k has its job, and the report names it.
Executes(k) == Active(k) /\ report.link = work[k].job

\* A save by a worker that lost its job, or whose report went to another job or to none,
\* after its check.
Overruns ==
  \E k \in Workers : /\ work[k].at \in {"starting", "acting"} /\ work'[k] # work[k]
                     /\ ~Executes(k)

\* A proposal under review changes only by the submission that carries the new
\* one; a skip never moves to another proposal, and an execution keeps the
\* proposal and the skips it was started with (the claim and the comparison of
\* whole reports, against expired leases, stale requests, jobs taken over, failed
\* and started again).  The one step that breaks this is a late save of an execution
\* (Overruns): it puts back the proposal it was started with, as running, failed or
\* complete (runner.py:95, :156, :182 and :225, batch.py:223).
ReviewStands ==
  [][report.status # "gone" /\ report'.status # "gone" /\ ~Overruns =>
       /\ report'.proposal # report.proposal =>
            \E r \in Submitters : /\ request[r].at = "loaded" /\ request'[r].at # "loaded"
                                  /\ request[r].wish = report'.proposal
       /\ report'.skipped /\ ~report.skipped => report'.proposal = report.proposal
       /\ report.status = "running" =>
            /\ report'.proposal = report.proposal
            /\ report'.skipped = report.skipped]_vars

\* The owner is told of the Plan once: a dismissed notification does not come
\* back with a revision, a retry or a lost commit (commit_plan_operation's marker).
DismissedStays == [][notice = "dismissed" => notice' = "dismissed"]_vars

=============================================================================
